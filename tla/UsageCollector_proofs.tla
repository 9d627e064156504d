----------------------- MODULE UsageCollector_proofs -----------------------
(***************************************************************************)
(* Proofs about UsageCollector, for every set of accounts, of answers and  *)
(* of configured collectors, and every bound.                              *)
(***************************************************************************)
EXTENDS UsageCollector, TLAPS

-----------------------------------------------------------------------------
(* The figures of a usage record, for every payload and every percentage   *)

LEMMA ClampType ==
    ASSUME NEW n \in Int
    PROVE  ClampPercent(n) \in 0 .. Hundred /\ (n \in 0 .. Hundred => ClampPercent(n) = n)
BY DEF ClampPercent, Hundred

(* Rounding goes to the nearest whole percentage and keeps within 0 and    *)
(* 100; a whole percentage stays what it is.                               *)
LEMMA RoundType ==
    ASSUME NEW n \in 0 .. Hundred
    PROVE  /\ Round(n) \in 0 .. 100
           /\ 10 * Round(n) - n \in -4 .. 5
           /\ \A w \in 0 .. 100 : n = 10 * w => Round(n) = w
<1> DEFINE m == n + 5  q == m \div 10
<1>1. n \in Int /\ 0 <= n /\ n <= 1000
    BY DEF Hundred
<1>2. q \in Int /\ 10 * q <= m /\ m < 10 * q + 10
    BY <1>1
<1> HIDE DEF q
<1>3. q \in 0 .. 100 /\ 10 * q - n \in -4 .. 5
    BY <1>1, <1>2
<1>4. \A w \in 0 .. 100 : n = 10 * w => q = w
    BY <1>1, <1>2
<1> QED
    BY <1>3, <1>4 DEF Round, q

(* The stored percentage is one, whatever a server or a command reports    *)
(* (persistUsage, clampPercent).                                           *)
THEOREM StoredIsPercent ==
    ASSUME NEW r \in Record
    PROVE  StoredPercent(r) \in 0 .. 100
<1>1. r.usage \in Int /\ r.remaining \in Int
    BY DEF Record
<1>2. Hundred - r.usage \in Int
    BY <1>1 DEF Hundred
<1>3. \/ StoredPercent(r) = Round(ClampPercent(Hundred - r.usage))
      \/ StoredPercent(r) = Round(ClampPercent(r.remaining))
      \/ StoredPercent(r) = Round(ClampPercent(r.usage))
    BY DEF StoredPercent
<1> QED
    BY <1>1, <1>2, <1>3, ClampType, RoundType

(* The ticker's period is from one to five minutes (ClampRefreshInterval). *)
THEOREM IntervalBounded ==
    ASSUME NEW interval \in Int
    PROVE  ClampRefreshInterval(interval) \in 60 .. 300
BY DEF ClampRefreshInterval

LEMMA ParseFields ==
    ASSUME NEW b
    PROVE  /\ Parse(b).basis = "remaining"
           /\ Parse(b).usage = Parse(b).remaining
           /\ Parse(b).remaining = ParsedRecord(b).remaining
           /\ Parse(b).has = ParsedRecord(b).has
           /\ Parse(b).availability = NormalizeAvailability(ParsedRecord(b), b.limit_reached)
           /\ Parse(b).availability # ""
<1>1. Parse(b) = [ParsedRecord(b) EXCEPT !.availability =
                     NormalizeAvailability(ParsedRecord(b), b.limit_reached)]
    BY DEF Parse
<1>2. NormalizeAvailability(ParsedRecord(b), b.limit_reached) # ""
    BY DEF NormalizeAvailability
<1>3. \A v : LET r == [ParsedRecord(b) EXCEPT !.availability = v]
            IN  /\ r.basis = "remaining" /\ r.usage = r.remaining
                /\ r.remaining = ParsedRecord(b).remaining
                /\ r.has = ParsedRecord(b).has
                /\ r.availability = v
    BY DEF ParsedRecord
<1> QED
    BY <1>1, <1>2, <1>3

(* Filling in what is missing changes nothing of a parsed payload: the     *)
(* zero of a week that is used up is not taken for a missing figure        *)
(* (normalizeRecord).                                                      *)
THEOREM ParsedIsNormal ==
    ASSUME NEW b
    PROVE  NormalizeRecord(Parse(b)) = Parse(b)
<1> DEFINE r == Parse(b)
<1>1. Filled(r) = r
  <2>1. r = [ParsedRecord(b) EXCEPT !.availability =
                 NormalizeAvailability(ParsedRecord(b), b.limit_reached)]
      BY DEF Parse
  <2>2. r.basis = "remaining" /\ r.usage = r.remaining
      BY ParseFields
  <2> QED
      BY <2>1, <2>2 DEF Filled, ParsedRecord
<1> QED
    BY <1>1, ParseFields DEF NormalizeRecord

(* What is stored of a payload is the percentage that is shown of it,      *)
(* rounded to the nearest whole one, halves upwards, and cut off at 0 and  *)
(* 100: 88 for 87.6 (normalizeRecord, remainingPercent, persistUsage;      *)
(* usage/service_test.go:137, 154).                                        *)
THEOREM StoredIsShownRounded ==
    ASSUME NEW b, Parse(b).remaining \in Int
    PROVE  LET r == NormalizeRecord(Parse(b))
           IN  /\ StoredPercent(r) \in 0 .. 100
               /\ 10 * StoredPercent(r) - ClampPercent(r.remaining) \in -4 .. 5
               /\ \A w \in 0 .. 100 : r.remaining = 10 * w => StoredPercent(r) = w
<1> DEFINE n == Parse(b).remaining
<1>1. StoredPercent(Parse(b)) = Round(ClampPercent(n))
    BY ParseFields DEF StoredPercent
<1>2. ClampPercent(n) \in 0 .. Hundred
    BY ClampType
<1>3. \A w \in 0 .. 100 : n = 10 * w => ClampPercent(n) = 10 * w
  <2>1. \A w \in 0 .. 100 : 10 * w \in 0 .. Hundred
      BY DEF Hundred
  <2> QED
      BY <2>1, ClampType
<1> QED
    BY <1>1, <1>2, <1>3, RoundType, ParsedIsNormal

(* Of a payload of the usage API 100 less the used percentage of the       *)
(* primary window is what is left of the week, also when that is nothing   *)
(* or all of it, and whatever the secondary window says                    *)
(* (parseRateLimitPayload; README.md: "100 - used").                       *)
THEOREM PrimaryWindowCounts ==
    ASSUME NEW b \in Payload, b.items = <<>>,
           b.primary.remaining = None, b.primary.used \in Int
    PROVE  Parse(b).has /\ Parse(b).remaining = Hundred - b.primary.used
<1>1. OfKind(b, "week") = {}
    BY DEF OfKind
<1>2. b.primary.used # None /\ ~HasNoData(b.primary)
    BY NoneAssumption DEF HasNoData
<1>3. Weekly(b) = b.primary
    BY <1>1, <1>2 DEF Weekly
<1>4. RemainingPercent(b.primary) = Hundred - b.primary.used
    BY <1>2 DEF RemainingPercent
<1>5. ParsedRecord(b).has /\ ParsedRecord(b).remaining = Hundred - b.primary.used
    BY <1>2, <1>3, <1>4 DEF ParsedRecord
<1> QED
    BY <1>5, ParseFields

(* The five-hour window decides neither whether there is a weekly figure   *)
(* nor what it is nor whether the account is available                     *)
(* (parseRateLimitPayload; README.md on the deprecated 5h fields).         *)
THEOREM FiveHourIgnored ==
    ASSUME NEW b \in Payload, NEW w \in Window
    PROVE  LET c == [b EXCEPT !.five = w]
           IN  /\ Parse(c).has = Parse(b).has
               /\ Parse(c).remaining = Parse(b).remaining
               /\ Parse(c).availability = Parse(b).availability
<1> DEFINE c == [b EXCEPT !.five = w]
<1>1. /\ c.items = b.items /\ c.primary = b.primary /\ c.seven = b.seven /\ c.weekly = b.weekly
      /\ c.allowed = b.allowed /\ c.limit_reached = b.limit_reached
      /\ c.reached_type = b.reached_type /\ c.has_credits = b.has_credits
      /\ c.available = b.available /\ c.unlimited = b.unlimited
      /\ c.overage = b.overage /\ c.spend = b.spend
    BY DEF Payload
<1> HIDE DEF c
<1>2. Weekly(c) = Weekly(b)
    BY <1>1 DEF Weekly, OfKind, Last
<1> DEFINE p == ParsedRecord(b)  q == ParsedRecord(c)
<1>3. /\ q.has = p.has /\ q.remaining = p.remaining
      /\ q.allowed = p.allowed /\ q.reached_type = p.reached_type /\ q.credits = p.credits
      /\ q.unlimited = p.unlimited /\ q.overage = p.overage /\ q.spend = p.spend
    BY <1>1, <1>2 DEF ParsedRecord
<1>4. NormalizeAvailability(q, c.limit_reached) = NormalizeAvailability(p, b.limit_reached)
    BY <1>1, <1>3 DEF NormalizeAvailability
<1>5. /\ Parse(c).has = Parse(b).has
      /\ Parse(c).remaining = Parse(b).remaining
      /\ Parse(c).availability = Parse(b).availability
    BY <1>3, <1>4, ParseFields
<1> QED
    BY <1>5 DEF c

(* An account is blocked exactly if a spend control or an overage limit    *)
(* has been reached, whatever the percentages and the credits say          *)
(* (normalizeAvailability).                                                *)
THEOREM BlockedByLimits ==
    ASSUME NEW b \in Payload
    PROVE  Parse(b).availability = "blocked" <=> (b.spend = TRUE \/ b.overage = TRUE)
<1>1. ParsedRecord(b).spend = b.spend /\ ParsedRecord(b).overage = b.overage
    BY DEF ParsedRecord
<1> QED
    BY <1>1, ParseFields DEF NormalizeAvailability

-----------------------------------------------------------------------------

LEMMA ListedType ==
    ASSUME NEW i \in Account, NEW active \in BOOLEAN, NEW since \in 0 .. MaxTime
    PROVE  Listed(i, active, since) \in Job
BY DEF Listed, Job, Auth

LEMMA AgainType ==
    ASSUME job \in Job
    PROVE  /\ Again \in Job
           /\ Again.sel = job.sel /\ Again.active = job.active
BY ListedType DEF Again, Listed, Job

LEMMA NoJobType ==
    ASSUME TypeOK
    PROVE  NoJob \in Job
<1>1. 0 \in 0 .. MaxTime
    BY CollectorAssumption
<1>2. \E i \in Account : TRUE
    BY DEF TypeOK, Auth
<1> QED
    BY <1>1, <1>2, ListedType DEF NoJob

LEMMA FileType ==
    ASSUME TypeOK
    PROVE  File(job.path) \in Auth
BY DEF TypeOK, File, Auth, Job

LEMMA SyncedType ==
    ASSUME TypeOK
    PROVE  /\ Synced \in [Account -> Nat]
           /\ Synced[live.of] = live.tok
           /\ \A i \in Account : i # live.of => Synced[i] = profile[i]
BY DEF TypeOK, Synced, Auth

(* Steps of the refresh that change nothing but how far it is.             *)
LEMMA TypeJobOnly ==
    ASSUME TypeOK, UNCHANGED <<files, world>>, job' \in Job,
           pc' \in {"idle", "path", "read", "renew", "write", "reread", "request",
                    "command", "run", "session", "log", "account", "persist"},
           pc' # "write"
    PROVE  TypeOK'
BY DEF TypeOK, files, world

LEMMA TypeCollect ==
    ASSUME TypeOK, Collect
    PROVE  TypeOK'
<1> USE DEF Go
<1>0. job \in Job /\ live \in Auth /\ profile \in [Account -> Nat] /\ Again \in Job
    BY AgainType DEF TypeOK
<1>1. CASE ChoosePath
  <2>1. [job EXCEPT !.path = AuthPath] \in Job
      BY <1>0 DEF Job, AuthPath
  <2> QED
      BY <1>0, <1>1, <2>1, TypeJobOnly DEF ChoosePath
<1>2. CASE ReadAuth
  <2>1. [job EXCEPT !.auth = File(job.path)] \in Job
      BY <1>0, FileType DEF Job
  <2> QED
      BY <1>0, <1>2, <2>1, TypeJobOnly DEF ReadAuth
<1>3. CASE Issue
  <2> DEFINE auth == File(job.path)
  <2>1. auth \in Auth /\ auth.of \in Account /\ auth.tok \in Nat
      BY FileType DEF Auth
  <2> HIDE DEF auth
  <2>2. /\ auth.tok = newest[auth.of] /\ auth.tok < MaxTok[auth.of]
        /\ newest' = [newest EXCEPT ![auth.of] = @ + 1]
        /\ pc' = "write" /\ job' = [job EXCEPT !.held = [of |-> auth.of, tok |-> auth.tok + 1]]
        /\ UNCHANGED <<profile, live, spoiled, world>>
      BY <1>3 DEF Issue, auth
  <2>3. job' \in Job
      BY <1>0, <2>1, <2>2 DEF Job, Auth
  <2>4. newest' \in [Account -> Nat]
      BY <2>1, <2>2 DEF TypeOK
  <2> QED
      BY <2>2, <2>3, <2>4 DEF TypeOK, world
<1>4. CASE Issued
  <2>1. /\ pc = "write" /\ pc' = "reread" /\ job' = [job EXCEPT !.held = Again.held]
        /\ IF job.path = "live" THEN live' = job.held /\ UNCHANGED profile
           ELSE profile' = [profile EXCEPT ![job.sel] = job.held.tok] /\ UNCHANGED live
        /\ spoiled' = IF moved THEN spoiled \cup {job.held.of, live.of} ELSE spoiled
        /\ foreign' = IF live'.of # live.of THEN foreign \cup Unswitched(live'.of) ELSE foreign
        /\ UNCHANGED <<newest, conf, late, used, clock, log, moved>>
      BY <1>4 DEF Issued
  <2>2. job.held \in Auth /\ job.sel \in Account
      BY <1>0 DEF Job
  <2>a. live'.of \in Account
      BY <1>0, <2>1, <2>2 DEF Auth
  <2>b. foreign' \subseteq Account
      BY <2>1, <2>a DEF TypeOK, Unswitched
  <2>3. job' \in Job
      BY <1>0, <2>1 DEF Job
  <2>4. spoiled' \subseteq Account
      BY <1>0, <2>1, <2>2 DEF TypeOK, Auth
  <2>5. CASE job.path = "live"
      BY <1>0, <2>1, <2>2, <2>3, <2>4, <2>b, <2>5 DEF TypeOK
  <2>6. CASE job.path # "live"
      BY <1>0, <2>1, <2>2, <2>3, <2>4, <2>b, <2>6 DEF TypeOK, Auth
  <2> QED
      BY <2>5, <2>6
<1>5. CASE NothingIssued
    BY <1>0, <1>5, TypeJobOnly DEF NothingIssued
<1>6. CASE Refused
    BY <1>0, <1>6, TypeJobOnly DEF Refused
<1>7. CASE ReRead
  <2>1. [job EXCEPT !.auth = File(job.path)] \in Job
      BY <1>0, FileType DEF Job
  <2> QED
      BY <1>7, <2>1, TypeJobOnly DEF ReRead
<1>8. CASE Unauthorized
  <2>1. Again.auth \in Auth /\ (job.tries = 0 => job.tries + 1 \in 0 .. 1)
      BY <1>0 DEF Job
  <2>2. job.tries = 0 => [job EXCEPT !.auth = Again.auth, !.tries = job.tries + 1] \in Job
      BY <1>0, <2>1 DEF Job
  <2> QED
      BY <1>0, <1>8, <2>2, TypeJobOnly DEF Unauthorized, On401
<1>9. CASE \E b \in Bodies : Answered(b)
  <2>1. PICK b \in Bodies : Answered(b)
      BY <1>9
  <2>2. [Again EXCEPT !.source = "api", !.of = job.auth.of, !.body = b] \in Job
      BY <1>0 DEF Job, Auth
  <2> QED
      BY <2>1, <2>2, TypeJobOnly DEF Answered
<1>10. CASE CommandPath
  <2>1. [job EXCEPT !.path = AuthPath] \in Job
      BY <1>0 DEF Job, AuthPath
  <2> QED
      BY <1>0, <1>10, <2>1, TypeJobOnly DEF CommandPath
<1>11. CASE CommandRun
  <2>1. [Again EXCEPT !.source = "fallback", !.of = File(job.path).of] \in Job
      BY <1>0, FileType DEF Job, Auth
  <2> QED
      BY <1>0, <1>11, <2>1, TypeJobOnly DEF CommandRun
<1>12. CASE SessionMatch
    BY <1>0, <1>12, TypeJobOnly DEF SessionMatch
<1>13. CASE SessionRead
  <2>1. [job EXCEPT !.source = "codex-session", !.of = log.of] \in Job
      BY <1>0 DEF Job, TypeOK
  <2> QED
      BY <1>0, <1>13, <2>1, TypeJobOnly DEF SessionRead
<1>14. CASE AccountRecord
  <2>1. [job EXCEPT !.source = "account"] \in Job
      BY <1>0 DEF Job
  <2> QED
      BY <1>14, <2>1, TypeJobOnly DEF AccountRecord
<1>15. CASE Persist
    BY <1>15, NoJobType, TypeJobOnly DEF Persist
<1> QED
    BY <1>1, <1>2, <1>3, <1>4, <1>5, <1>6, <1>7, <1>8, <1>9, <1>10, <1>11, <1>12, <1>13,
       <1>14, <1>15 DEF Collect

LEMMA TypeDisturbance ==
    ASSUME TypeOK, Disturbance \/ Tick \/ \E i \in Account : List(i)
    PROVE  TypeOK'
<1> USE DEF Go
<1>0. job \in Job /\ live \in Auth /\ profile \in [Account -> Nat] /\ Again \in Job
    BY AgainType DEF TypeOK
<1>1. CASE APIFails
  <2>1. job.held.of \in Account
      BY <1>0 DEF Job, Auth
  <2>2. spoiled' \subseteq Account
      BY <1>1, <2>1 DEF APIFails, TypeOK
  <2> QED
      BY <1>0, <1>1, <2>2 DEF APIFails, TypeOK, world
<1>2. CASE Denied
  <2>1. Again.auth \in Auth /\ (job.tries = 0 => job.tries + 1 \in 0 .. 1)
      BY <1>0 DEF Job
  <2>2. job.tries = 0 => [job EXCEPT !.auth = Again.auth, !.tries = job.tries + 1] \in Job
      BY <1>0, <2>1 DEF Job
  <2> QED
      BY <1>0, <1>2, <2>2, TypeJobOnly DEF Denied, On401
<1>3. CASE \E b \in Bodies : Unreadable(b)
    BY <1>0, <1>3, TypeJobOnly DEF Unreadable
<1>4. ASSUME NEW i \in Account, Switch(i)
      PROVE  TypeOK'
  <2>1. live' \in Auth
      BY <1>4, SyncedType DEF Switch, Auth
  <2>2. used' \in [Account -> 0 .. MaxTime]
    <3>1. clock \in 0 .. MaxTime
        BY DEF TypeOK
    <3> QED
        BY <1>4, <3>1 DEF Switch, TypeOK
  <2>3. moved' \in BOOLEAN /\ foreign' \subseteq Account
      BY <1>4 DEF Switch, TypeOK
  <2> QED
      BY <1>4, <2>1, <2>2, <2>3, SyncedType DEF Switch, TypeOK
<1>5. ASSUME NEW i \in Account, CliLogin(i)
      PROVE  TypeOK'
  <2>1. live' \in Auth /\ newest' \in [Account -> Nat] /\ moved' \in BOOLEAN
      BY <1>5 DEF CliLogin, TypeOK, Auth
  <2>2. foreign' \subseteq Account /\ spoiled' \subseteq Account
      BY <1>5, <1>0 DEF CliLogin, TypeOK, Unswitched, Auth
  <2> QED
      BY <1>5, <2>1, <2>2 DEF CliLogin, TypeOK
<1>6. ASSUME NEW i \in Account, Age(i)
      PROVE  TypeOK'
  <2>1. late' \in [Account -> Nat]
      BY <1>6 DEF Age, TypeOK
  <2> QED
      BY <1>6, <2>1 DEF Age, TypeOK, files
<1>7. CASE CliRenew
  <2>1. live' \in Auth /\ newest' \in [Account -> Nat]
      BY <1>0, <1>7 DEF CliRenew, TypeOK, Auth
  <2> QED
      BY <1>7, <2>1 DEF CliRenew, TypeOK, world
<1>8. CASE CliEvent
  <2>1. log' \in [of : Account \cup {NoAccount}, time : 0 .. MaxTime]
      BY <1>0, <1>8 DEF CliEvent, TypeOK, Auth
  <2> QED
      BY <1>8, <2>1 DEF CliEvent, TypeOK, files
<1>9. CASE Tick
    BY <1>9, CollectorAssumption DEF Tick, TypeOK, files
<1>10. ASSUME NEW i \in Account, List(i)
       PROVE  TypeOK'
  <2> DEFINE observed == [used EXCEPT ![live.of] = IF @ = 0 THEN clock ELSE @]
             listed == Listed(i, live.of = i, observed[i])
  <2>1. observed \in [Account -> 0 .. MaxTime]
    <3>1. clock \in 0 .. MaxTime
        BY DEF TypeOK
    <3> QED
        BY <3>1 DEF TypeOK
  <2>2. listed \in Job
      BY <2>1, ListedType
  <2>3. [listed EXCEPT !.source = "account"] \in Job
      BY <2>2 DEF Job
  <2>4. /\ profile' = Synced /\ used' = observed /\ moved' = FALSE
        /\ \/ pc' = "persist" /\ job' = [listed EXCEPT !.source = "account"]
           \/ pc' = "path" /\ job' = listed
        /\ UNCHANGED <<live, newest, spoiled, conf, late, clock, log, foreign>>
      BY <1>10 DEF List
  <2> HIDE DEF observed, listed
  <2>5. job' \in Job /\ pc' \in {"persist", "path"}
      BY <2>2, <2>3, <2>4
  <2> QED
      BY <2>1, <2>4, <2>5, SyncedType DEF TypeOK
<1> QED
    BY <1>1, <1>2, <1>3, <1>4, <1>5, <1>6, <1>7, <1>8, <1>9, <1>10 DEF Disturbance

LEMMA TypeInit == Init => TypeOK
<1> SUFFICES ASSUME Init PROVE TypeOK
    OBVIOUS
<1>1. 0 \in 0 .. MaxTime /\ 1 \in 0 .. MaxTime /\ 1 \in 1 .. MaxTime
    BY CollectorAssumption
<1>2. PICK i \in Account : live = [of |-> i, tok |-> 0]
    BY DEF Init
<1>3. NoJob \in Job
    BY <1>1, <1>2, ListedType DEF NoJob
<1>4. used \in [Account -> 0 .. MaxTime]
    BY <1>1 DEF Init
<1>5. foreign \subseteq Account
    BY <1>2 DEF Init, Unswitched
<1> QED
    BY <1>1, <1>2, <1>3, <1>4, <1>5 DEF Init, TypeOK, Auth

(* Every variable keeps its type (Service.collectAccount and what it calls).*)
THEOREM TypeCorrect == Spec => []TypeOK
<1>1. TypeOK /\ [Next]_vars => TypeOK'
  <2> SUFFICES ASSUME TypeOK, [Next]_vars PROVE TypeOK'
      OBVIOUS
  <2>1. CASE Next
      BY <2>1, TypeCollect, TypeDisturbance DEF Next
  <2>2. CASE UNCHANGED vars
      BY <2>2 DEF vars, files, world, TypeOK
  <2> QED
      BY <2>1, <2>2
<1> QED
    BY TypeInit, <1>1, PTL DEF Spec

(* What is shown of an answer that has the week in its primary window is  *)
(* what that window leaves of it, and what is stored is the whole          *)
(* percentage nearest to it, for every answer of that kind                 *)
(* (parseRateLimitPayload, normalizeRecord, persistUsage).                 *)
THEOREM FiguresHold == Spec => []FiguresFaithful
<1>1. TypeOK => FiguresFaithful
  <2> SUFFICES ASSUME TypeOK, job.body # NoBody, job.body.items = <<>>,
                      job.body.primary.remaining = None, job.body.primary.used # None
               PROVE  LET r == NormalizeRecord(Parse(job.body))
                      IN  /\ r.has /\ r.remaining = Hundred - job.body.primary.used
                          /\ StoredPercent(r) \in 0 .. 100
                          /\ 10 * StoredPercent(r) - ClampPercent(r.remaining) \in -4 .. 5
      BY DEF FiguresFaithful
  <2>1. job.body \in Payload
      BY CollectorAssumption DEF TypeOK, Job
  <2> DEFINE b == job.body  n == b.primary.used
  <2>2. n \in Int
      BY <2>1 DEF Payload, Window
  <2>3. Parse(b).has /\ Parse(b).remaining = Hundred - n
      BY <2>1, <2>2, PrimaryWindowCounts
  <2>4. Parse(b).remaining \in Int
      BY <2>2, <2>3 DEF Hundred
  <2> QED
      BY <2>3, <2>4, StoredIsShownRounded, ParsedIsNormal
<1> QED
    BY TypeCorrect, <1>1, PTL

-----------------------------------------------------------------------------
(* The inductive invariant.  As long as auth.json has not changed hands    *)
(* the file the refresh works on is auth.json exactly if the account is    *)
(* still its owner, and what has been read is the account's own.           *)
Asking == pc \in {"read", "renew", "write", "reread", "request", "run"}

OwnFile ==
    /\ pc # "idle" /\ ~moved => (job.active <=> live.of = job.sel)
    /\ Asking /\ ~moved => (job.path = "live" <=> live.of = job.sel)

OwnRecord ==
    /\ pc = "request" /\ ~moved => job.auth.of = job.sel
    /\ MeasuredOwn

(* While codex doctor holds a token it is the newest of the account, and   *)
(* auth.json has none that is newer.                                       *)
HeldNew ==
    pc = "write" =>
        /\ job.path = "profile" => job.held.of = job.sel
        /\ ~moved => job.held = [of |-> job.sel, tok |-> newest[job.sel]]
        /\ ~moved /\ job.path = "live" => live.tok # newest[job.sel]

(* The file that counts for an account: auth.json while it is the owner,   *)
(* since the next sync copies auth.json over the profile.                  *)
Current(i) == IF live.of = i THEN live.tok ELSE profile[i]

NewestKept ==
    \A i \in Account :
        \/ Current(i) = newest[i]
        \/ pc = "write" /\ job.held = [of |-> i, tok |-> newest[i]]
        \/ i \in spoiled

IInv == TypeOK /\ OwnFile /\ OwnRecord /\ HeldNew /\ NewestKept

LEMMA InvInit == Init => IInv
<1> SUFFICES ASSUME Init PROVE IInv
    OBVIOUS
<1>1. PICK i \in Account : live = [of |-> i, tok |-> 0]
    BY DEF Init
<1>2. TypeOK /\ pc = "idle" /\ \A k \in Account : profile[k] = 0 /\ newest[k] = 0
    BY TypeInit DEF Init
<1> QED
    BY <1>1, <1>2 DEF IInv, OwnFile, OwnRecord, MeasuredOwn, HeldNew, NewestKept, Current, Asking

LEMMA HeldOf ==
    ASSUME NEW i, NEW t, job.held = [of |-> i, tok |-> t]
    PROVE  job.held.of = i
OBVIOUS

LEMMA KeptJobOnly ==
    ASSUME IInv, UNCHANGED <<files, world>>, pc # "write", pc' # "write"
    PROVE  HeldNew' /\ NewestKept'
BY DEF IInv, HeldNew, NewestKept, Current, files, world

(* Auth.json and whether it has changed hands stay as they are.            *)
LEMMA OwnCollect ==
    ASSUME IInv, Collect, TypeOK'
    PROVE  OwnFile' /\ OwnRecord'
<1> USE DEF Go, OwnFile, OwnRecord, MeasuredOwn, Asking
<1>0. /\ job \in Job /\ OwnFile /\ OwnRecord /\ HeldNew
      /\ Again \in Job /\ Again.sel = job.sel /\ Again.active = job.active
    BY AgainType DEF IInv, TypeOK
<1>1. CASE ChoosePath
    BY <1>0, <1>1 DEF ChoosePath, AuthPath, Job, files, world
<1>2. CASE ReadAuth
    BY <1>0, <1>2 DEF ReadAuth, File, Job, files, world
<1>3. CASE Issue
    BY <1>0, <1>3 DEF Issue, Job, files, world
<1>4. CASE Issued
    BY <1>0, <1>4 DEF Issued, HeldNew, Job, files, world
<1>5. CASE NothingIssued
    BY <1>0, <1>5 DEF NothingIssued, files, world
<1>6. CASE Refused
    BY <1>0, <1>6 DEF Refused, files, world
<1>7. CASE ReRead
    BY <1>0, <1>7 DEF ReRead, File, Job, files, world
<1>8. CASE Unauthorized
    BY <1>0, <1>8 DEF Unauthorized, On401, Job, files, world
<1>9. CASE \E b \in Bodies : Answered(b)
  <2>1. PICK b \in Bodies : Answered(b)
      BY <1>9
  <2> QED
      BY <1>0, <2>1 DEF Answered, Job, files, world
<1>10. CASE CommandPath
    BY <1>0, <1>10 DEF CommandPath, AuthPath, Job, files, world
<1>11. CASE CommandRun
    BY <1>0, <1>11 DEF CommandRun, File, Job, files, world
<1>12. CASE SessionMatch
    BY <1>0, <1>12 DEF SessionMatch, files, world
<1>13. CASE SessionRead
    BY <1>0, <1>13 DEF SessionRead, Job, files, world
<1>14. CASE AccountRecord
    BY <1>0, <1>14 DEF AccountRecord, Job, files, world
<1>15. CASE Persist
    BY <1>0, <1>15 DEF Persist, files, world
<1> QED
    BY <1>1, <1>2, <1>3, <1>4, <1>5, <1>6, <1>7, <1>8, <1>9, <1>10, <1>11, <1>12, <1>13,
       <1>14, <1>15 DEF Collect

LEMMA KeptCollect ==
    ASSUME IInv, Collect
    PROVE  HeldNew' /\ NewestKept'
<1> USE DEF Go
<1>0. job \in Job /\ live \in Auth /\ profile \in [Account -> Nat] /\ newest \in [Account -> Nat]
    BY DEF IInv, TypeOK
<1>1. CASE Issue
  <2> DEFINE auth == File(job.path)
  <2>1. auth \in Auth /\ auth.of \in Account /\ auth.tok \in Nat
      BY FileType DEF Auth, IInv
  <2>2. /\ pc = "renew" /\ pc' = "write"
        /\ auth.tok = newest[auth.of]
        /\ newest' = [newest EXCEPT ![auth.of] = @ + 1]
        /\ job' = [job EXCEPT !.held = [of |-> auth.of, tok |-> auth.tok + 1]]
        /\ UNCHANGED <<profile, live, spoiled, moved>>
      BY <1>1 DEF Issue, world
  <2>3. /\ job'.held = [of |-> auth.of, tok |-> newest'[auth.of]]
        /\ job'.sel = job.sel /\ job'.path = job.path
        /\ newest'[auth.of] = auth.tok + 1
        /\ \A i \in Account : i # auth.of => newest'[i] = newest[i]
      BY <1>0, <2>1, <2>2 DEF Job
  <2>4. /\ job.path = "profile" => auth.of = job.sel
        /\ job.path = "live" => auth = live
        /\ ~moved /\ job.path = "live" => live.of = job.sel
        /\ job.path \in {"live", "profile"}
      BY <1>0, <2>2 DEF File, Job, IInv, OwnFile, Asking
  <2> HIDE DEF auth
  <2>5. HeldNew'
      BY <2>1, <2>2, <2>3, <2>4 DEF HeldNew
  <2>6. NewestKept'
      BY <2>2, <2>3 DEF NewestKept, Current, IInv
  <2> QED
      BY <2>5, <2>6
<1>2. CASE Issued
  <2>1. /\ pc = "write" /\ pc' = "reread"
        /\ IF job.path = "live" THEN live' = job.held /\ UNCHANGED profile
           ELSE profile' = [profile EXCEPT ![job.sel] = job.held.tok] /\ UNCHANGED live
        /\ spoiled' = IF moved THEN spoiled \cup {job.held.of, live.of} ELSE spoiled
        /\ UNCHANGED newest
      BY <1>2 DEF Issued
  <2>2. /\ job.held \in Auth /\ job.sel \in Account /\ job.path \in {"live", "profile"}
        /\ HeldNew /\ OwnFile /\ NewestKept
      BY <1>0 DEF Job, IInv
  <2>a. ASSUME NEW i \in Account, i \notin spoiled, i # job.held.of
        PROVE  Current(i) = newest[i]
      BY <2>2, <2>a, HeldOf DEF NewestKept
  <2>3. ASSUME NEW i \in Account
        PROVE  Current(i)' = newest'[i] \/ i \in spoiled'
    <3>1. CASE i \in spoiled \/ (moved /\ i \in {job.held.of, live.of})
        BY <2>1, <3>1
    <3>2. CASE i \notin spoiled /\ moved /\ i # job.held.of /\ i # live.of
      <4>1. Current(i) = newest[i]
          BY <2>a, <3>2
      <4>2. CASE job.path = "live"
          BY <2>1, <3>2, <4>1, <4>2 DEF Current
      <4>3. CASE job.path = "profile"
        <5>1. i # job.sel
            BY <2>1, <2>2, <3>2, <4>3 DEF HeldNew
        <5> QED
            BY <1>0, <2>1, <2>2, <3>2, <4>1, <4>3, <5>1 DEF Current
      <4> QED
          BY <2>2, <4>2, <4>3
    <3>3. CASE i \notin spoiled /\ ~moved
      <4>1. job.held = [of |-> job.sel, tok |-> newest[job.sel]]
          BY <2>1, <2>2, <3>3 DEF HeldNew
      <4>2. job.path = "live" <=> live.of = job.sel
          BY <2>1, <2>2, <3>3 DEF OwnFile, Asking
      <4>3. job.held.of = job.sel /\ job.held.tok = newest[job.sel]
          BY <4>1
      <4>4. i # job.sel => Current(i) = newest[i]
          BY <2>a, <3>3, <4>3
      <4>5. CASE job.path = "live"
          BY <2>1, <4>2, <4>3, <4>4, <4>5 DEF Current
      <4>6. CASE job.path = "profile"
          BY <1>0, <2>1, <2>2, <4>2, <4>3, <4>4, <4>6 DEF Current
      <4> QED
          BY <2>2, <4>5, <4>6
    <3> QED
        BY <3>1, <3>2, <3>3
  <2> QED
      BY <2>1, <2>3 DEF HeldNew, NewestKept
<1>3. CASE Collect /\ ~Issue /\ ~Issued
  <2>1. /\ UNCHANGED <<files, world>>
        /\ pc # "write" /\ pc' # "write"
      BY <1>3 DEF Collect, ChoosePath, ReadAuth, NothingIssued, Refused, ReRead, Unauthorized, On401,
             Answered, CommandPath, CommandRun, SessionMatch, SessionRead, AccountRecord, Persist
  <2> QED
      BY <2>1, KeptJobOnly
<1> QED
    BY <1>1, <1>2, <1>3

LEMMA InvDisturbance ==
    ASSUME IInv, TypeOK', Disturbance \/ Tick \/ \E i \in Account : List(i)
    PROVE  OwnFile' /\ OwnRecord' /\ HeldNew' /\ NewestKept'
<1> USE DEF Go, OwnFile, OwnRecord, MeasuredOwn, Asking
<1>0. /\ job \in Job /\ live \in Auth /\ live.of \in Account
      /\ profile \in [Account -> Nat] /\ newest \in [Account -> Nat]
      /\ OwnFile /\ OwnRecord /\ HeldNew /\ NewestKept
      /\ Again.sel = job.sel /\ Again.active = job.active
    BY AgainType DEF IInv, TypeOK, Auth
<1>1. CASE APIFails
  <2>1. /\ UNCHANGED <<live, profile, newest, moved>> /\ pc' = "command"
        /\ job' = Again /\ pc # "idle" /\ spoiled \subseteq spoiled'
        /\ pc = "write" => job.held.of \in spoiled'
      BY <1>1 DEF APIFails, world
  <2>2. \A i \in Account : Current(i)' = Current(i)
      BY <2>1 DEF Current
  <2>3. NewestKept'
      BY <1>0, <2>1, <2>2, HeldOf DEF NewestKept
  <2> QED
      BY <1>0, <2>1, <2>3 DEF HeldNew
<1>2. CASE Denied
  <2>1. /\ UNCHANGED <<files, world>> /\ pc = "request" /\ pc' \in {"renew", "command"}
      BY <1>2 DEF Denied, On401
  <2>2. OwnFile' /\ OwnRecord'
      BY <1>0, <1>2 DEF Denied, On401, Job, files, world
  <2> QED
      BY <2>1, <2>2, KeptJobOnly
<1>3. CASE \E b \in Bodies : Unreadable(b)
  <2>1. /\ UNCHANGED <<files, world>> /\ pc = "request" /\ pc' = "command" /\ job' = Again
      BY <1>3 DEF Unreadable
  <2>2. OwnFile' /\ OwnRecord'
      BY <1>0, <2>1 DEF files, world
  <2> QED
      BY <2>1, <2>2, KeptJobOnly
<1>4. ASSUME NEW i \in Account, Switch(i)
      PROVE  OwnFile' /\ OwnRecord' /\ HeldNew' /\ NewestKept'
  <2>1. /\ profile' = Synced /\ live'.of = i /\ live'.tok = Synced[i]
        /\ UNCHANGED <<newest, spoiled, pc, job>>
        /\ pc # "idle" => (moved' <=> moved \/ live.of # i)
      BY <1>4 DEF Switch
  <2>2. /\ Synced[live.of] = live.tok
        /\ \A k \in Account : k # live.of => Synced[k] = profile[k]
      BY SyncedType DEF IInv
  <2>3. \A k \in Account : Current(k)' = Current(k)
      BY <1>0, <2>1, <2>2 DEF Current
  <2> QED
      BY <1>0, <2>1, <2>2, <2>3 DEF HeldNew, NewestKept
<1>5. ASSUME NEW i \in Account, CliLogin(i)
      PROVE  OwnFile' /\ OwnRecord' /\ HeldNew' /\ NewestKept'
  <2>1. /\ newest' = [newest EXCEPT ![i] = @ + 1]
        /\ live'.of = i /\ live'.tok = newest[i] + 1
        /\ moved' = (pc # "idle")
        /\ spoiled' = IF live.tok # profile[live.of] THEN spoiled \cup {live.of} ELSE spoiled
        /\ UNCHANGED <<profile, pc, job>>
      BY <1>5 DEF CliLogin
  <2>2. newest'[i] = newest[i] + 1 /\ \A k \in Account : k # i => newest'[k] = newest[k]
      BY <1>0, <2>1
  <2>3. NewestKept'
    <3>1. Current(i)' = newest'[i]
        BY <2>1, <2>2 DEF Current
    <3>2. ASSUME NEW k \in Account, k # i, k \notin spoiled'
          PROVE  Current(k)' = Current(k)
        BY <2>1, <3>2 DEF Current
    <3> QED
        BY <1>0, <2>1, <2>2, <3>1, <3>2 DEF NewestKept
  <2> QED
      BY <1>0, <2>1, <2>3 DEF HeldNew
<1>6. ASSUME NEW i \in Account, Age(i)
      PROVE  OwnFile' /\ OwnRecord' /\ HeldNew' /\ NewestKept'
    BY <1>0, <1>6 DEF Age, files, HeldNew, NewestKept, Current
<1>7. CASE CliRenew
  <2>1. /\ live.tok = newest[live.of]
        /\ newest' = [newest EXCEPT ![live.of] = @ + 1]
        /\ live'.of = live.of /\ live'.tok = live.tok + 1
        /\ UNCHANGED <<profile, spoiled, moved, pc, job>>
      BY <1>0, <1>7 DEF CliRenew, world, Auth
  <2>2. /\ newest'[live.of] = newest[live.of] + 1
        /\ \A k \in Account : k # live.of => newest'[k] = newest[k]
      BY <1>0, <2>1
  <2>3. \A k \in Account : k # live.of => Current(k)' = Current(k)
      BY <2>1 DEF Current
  <2>4. Current(live.of)' = newest'[live.of]
      BY <2>1, <2>2 DEF Current
  <2>5. NewestKept'
      BY <1>0, <2>1, <2>2, <2>3, <2>4 DEF NewestKept
  <2>6. HeldNew'
    <3>1. pc = "write" /\ ~moved => live.of # job.sel
        BY <1>0, <2>1 DEF HeldNew, Job
    <3> QED
        BY <1>0, <2>1, <2>2, <3>1 DEF HeldNew, Job
  <2> QED
      BY <1>0, <2>1, <2>5, <2>6
<1>8. CASE CliEvent
    BY <1>0, <1>8 DEF CliEvent, files, HeldNew, NewestKept, Current
<1>9. CASE Tick
    BY <1>0, <1>9 DEF Tick, files, HeldNew, NewestKept, Current
<1>10. ASSUME NEW i \in Account, List(i)
       PROVE  OwnFile' /\ OwnRecord' /\ HeldNew' /\ NewestKept'
  <2>1. /\ profile' = Synced /\ moved' = FALSE
        /\ job'.sel = i /\ job'.active = (live.of = i)
        /\ job'.source \in {"none", "account"}
        /\ pc = "idle" /\ pc' \in {"path", "persist"}
        /\ UNCHANGED <<live, newest, spoiled>>
      BY <1>10 DEF List, Listed
  <2>2. /\ Synced[live.of] = live.tok
        /\ \A k \in Account : k # live.of => Synced[k] = profile[k]
      BY SyncedType DEF IInv
  <2>3. NewestKept'
      BY <1>0, <2>1, <2>2 DEF NewestKept, Current
  <2> QED
      BY <1>0, <2>1, <2>3 DEF HeldNew
<1> QED
    BY <1>1, <1>2, <1>3, <1>4, <1>5, <1>6, <1>7, <1>8, <1>9, <1>10 DEF Disturbance

LEMMA InvHolds == Spec => []IInv
<1>1. IInv /\ [Next]_vars => IInv'
  <2> SUFFICES ASSUME IInv, [Next]_vars PROVE IInv'
      OBVIOUS
  <2>1. CASE Collect
      BY <2>1, TypeCollect, OwnCollect, KeptCollect DEF IInv
  <2>2. CASE Disturbance \/ Tick \/ \E i \in Account : List(i)
      BY <2>2, TypeDisturbance, InvDisturbance DEF IInv
  <2>3. CASE UNCHANGED vars
      BY <2>3 DEF vars, files, world, IInv, TypeOK, OwnFile, OwnRecord, MeasuredOwn, HeldNew,
                  NewestKept, Current, Asking
  <2> QED
      BY <2>1, <2>2, <2>3 DEF Next
<1> QED
    BY InvInit, <1>1, PTL DEF Spec

(* A record of the API or of the command is of the account it is stored    *)
(* for, unless auth.json changed hands during the refresh                  *)
(* (collectorAuthPath).                                                    *)
THEOREM RecordIsOwn == Spec => []MeasuredOwn
<1>1. IInv => MeasuredOwn
    BY DEF IInv, OwnRecord
<1> QED
    BY InvHolds, <1>1, PTL

(* The newest token of an account is in its profile, in auth.json or about *)
(* to be written, unless the renewal was killed or overlapped a change of  *)
(* auth.json, or codex login overwrote auth.json (RefreshCodexAuth).       *)
THEOREM NewestTokenKept == Spec => []TokenKept
<1>1. IInv => TokenKept
  <2> SUFFICES ASSUME IInv, NEW i \in Account, Current(i) = newest[i]
               PROVE  newest[i] = profile[i] \/ live = [of |-> i, tok |-> newest[i]]
      BY DEF IInv, TokenKept, NewestKept
  <2>1. CASE live.of = i
      BY <2>1 DEF Current, IInv, TypeOK, Auth
  <2>2. CASE live.of # i
      BY <2>2 DEF Current
  <2> QED
      BY <2>1, <2>2
<1> QED
    BY InvHolds, <1>1, PTL

-----------------------------------------------------------------------------
(* Whose event a session log may hold.  An account in auth.json got there  *)
(* by a switch, which set last_used_at, or is foreign: so an event of      *)
(* another is not later than last_used_at, neither that of the row now     *)
(* nor, while auth.json stays, that of the row as it was listed.           *)
Dated(of, since) == of \in foreign \/ log.time <= since

OfOther(i) == log.of \notin {NoAccount, i}

SessionDated ==
    /\ log.time <= clock
    /\ log.of # NoAccount => "session" \in conf
    /\ OfOther(live.of) => Dated(live.of, used[live.of])
    /\ pc # "idle" /\ ~moved /\ live.of = job.sel /\ OfOther(job.sel) =>
         Dated(job.sel, job.since)
    /\ pc = "log" /\ ~moved => live.of = job.sel

(* Steps that leave auth.json's owner, the logs and last_used_at alone and *)
(* go on with the same refresh, or end it.                                 *)
LEMMA DatedKept ==
    ASSUME SessionDated, live'.of = live.of,
           UNCHANGED <<conf, used, clock, log, foreign, moved>>,
           \/ pc' = "idle"
           \/ pc # "idle" /\ job'.sel = job.sel /\ job'.since = job.since,
           pc' = "log" /\ ~moved => live.of = job'.sel
    PROVE  SessionDated'
BY DEF SessionDated, Dated, OfOther

(* The steps of a refresh.  A codex doctor that was started before a       *)
(* switch makes the owner it brings back foreign.                          *)
LEMMA DatedCollect ==
    ASSUME IInv, SessionDated, Collect \/ APIFails \/ Denied \/ \E b \in Bodies : Unreadable(b)
    PROVE  SessionDated'
<1> USE DEF Go
<1>0. /\ job \in Job /\ Again \in Job /\ Again.sel = job.sel /\ Again.since = job.since
      /\ live \in Auth
    BY AgainType DEF IInv, TypeOK, Again, Listed
<1>1. CASE Issued
  <2>1. /\ pc = "write" /\ pc' = "reread"
        /\ job'.sel = job.sel /\ job'.since = job.since
        /\ IF job.path = "live" THEN live' = job.held ELSE live' = live
        /\ foreign' = IF live'.of # live.of THEN foreign \cup Unswitched(live'.of) ELSE foreign
        /\ UNCHANGED <<conf, used, clock, log, moved>>
      BY <1>0, <1>1 DEF Issued, Job
  <2>2. CASE live'.of = live.of
      BY <2>1, <2>2, DatedKept
  <2>3. CASE live'.of # live.of
    <3>1. moved
      <4>1. job.path = "live" /\ live' = job.held
          BY <2>1, <2>3
      <4>2. ~moved => job.held.of = job.sel /\ live.of = job.sel
          BY <2>1, <4>1 DEF IInv, HeldNew, OwnFile, Asking
      <4> QED
          BY <2>3, <4>1, <4>2
    <3>2. log.of # NoAccount => live'.of \in foreign'
        BY <2>1, <2>3 DEF SessionDated, Unswitched
    <3> QED
        BY <2>1, <3>1, <3>2 DEF SessionDated, Dated, OfOther
  <2> QED
      BY <2>2, <2>3
<1>2. CASE Issue
  <2>1. /\ pc = "renew" /\ pc' = "write" /\ job'.sel = job.sel /\ job'.since = job.since
        /\ UNCHANGED <<live, conf, used, clock, log, foreign, moved>>
      BY <1>0, <1>2 DEF Issue, world, Job
  <2> QED
      BY <2>1, DatedKept
<1>3. CASE SessionMatch
  <2>1. /\ pc = "session" /\ UNCHANGED <<job, live, conf, used, clock, log, foreign, moved>>
        /\ pc' = "log" => live.of = job.sel
      BY <1>3 DEF SessionMatch, files, world
  <2> QED
      BY <2>1, DatedKept
<1>4. CASE Persist
    BY <1>4, DatedKept DEF Persist, files, world
<1>5. CASE APIFails
  <2>1. /\ pc # "idle" /\ pc' = "command" /\ job' = Again
        /\ UNCHANGED <<live, conf, used, clock, log, foreign, moved>>
      BY <1>5 DEF APIFails, world
  <2> QED
      BY <1>0, <2>1, DatedKept
<1>6. CASE ~Issued /\ ~Issue /\ ~SessionMatch /\ ~Persist /\ ~APIFails
  <2>1. /\ pc # "idle" /\ pc' # "log" /\ UNCHANGED <<files, world>>
        /\ job'.sel = job.sel /\ job'.since = job.since
    <3>1. CASE ChoosePath \/ ReadAuth \/ NothingIssued \/ Refused \/ ReRead
        BY <1>0, <3>1 DEF ChoosePath, ReadAuth, NothingIssued, Refused, ReRead, Job
    <3>2. CASE Unauthorized \/ Denied
        BY <1>0, <3>2 DEF Unauthorized, Denied, On401, Job
    <3>3. CASE (\E b \in Bodies : Answered(b)) \/ \E b \in Bodies : Unreadable(b)
        BY <1>0, <3>3 DEF Answered, Unreadable, Job
    <3>4. CASE CommandPath \/ CommandRun \/ SessionRead \/ AccountRecord
        BY <1>0, <3>4 DEF CommandPath, CommandRun, SessionRead, AccountRecord, Job
    <3> QED
        BY <1>6, <3>1, <3>2, <3>3, <3>4 DEF Collect
  <2> QED
      BY <2>1, DatedKept DEF files, world
<1> QED
    BY <1>1, <1>2, <1>3, <1>4, <1>5, <1>6

(* Listings, switches, the CLI and the clock.                              *)
LEMMA DatedWorld ==
    ASSUME IInv, SessionDated,
           \/ \E i \in Account : List(i) \/ Switch(i) \/ CliLogin(i) \/ Age(i)
           \/ CliRenew \/ CliEvent \/ Tick
    PROVE  SessionDated'
<1>0. /\ live.of \in Account /\ log.time \in Nat /\ clock \in Nat
      /\ \A i \in Account : used[i] \in Nat
      /\ used \in [Account -> 0 .. MaxTime]
  <2>1. /\ live \in Auth /\ log.time \in 0 .. MaxTime /\ clock \in 1 .. MaxTime
        /\ used \in [Account -> 0 .. MaxTime]
      BY DEF IInv, TypeOK
  <2> QED
      BY <2>1 DEF Auth
<1>1. ASSUME NEW i \in Account, List(i) PROVE SessionDated'
  <2> DEFINE observed == [used EXCEPT ![live.of] = IF @ = 0 THEN clock ELSE @]
  <2>1. /\ used' = observed /\ pc' # "log" /\ pc = "idle"
        /\ job'.sel = i /\ job'.since = observed[i]
        /\ UNCHANGED <<live, conf, clock, log, foreign>>
      BY <1>1 DEF List, Go, Listed
  <2>2. /\ observed[live.of] = IF used[live.of] = 0 THEN clock ELSE used[live.of]
      BY <1>0
  <2> HIDE DEF observed
  <2>3. OfOther(live.of) => Dated(live.of, observed[live.of])
      BY <2>2, <1>0 DEF SessionDated, Dated
  <2> QED
      BY <2>1, <2>3 DEF SessionDated, Dated, OfOther
<1>2. ASSUME NEW i \in Account, Switch(i) PROVE SessionDated'
  <2>1. /\ live'.of = i /\ used'[i] = clock
        /\ moved' = (pc # "idle" /\ (moved \/ live.of # i))
        /\ foreign' = IF pc = "idle" THEN foreign \ {i} ELSE foreign
        /\ UNCHANGED <<conf, clock, log, pc, job>>
      BY <1>0, <1>2 DEF Switch
  <2>2. Dated(i, used[i])' /\ log'.time <= clock'
      BY <2>1 DEF SessionDated, Dated
  <2>3. pc' # "idle" /\ ~moved' => pc # "idle" /\ ~moved /\ live.of = i /\ foreign' = foreign
      BY <2>1
  <2> QED
      BY <2>1, <2>2, <2>3 DEF SessionDated, Dated, OfOther
<1>3. ASSUME NEW i \in Account, CliLogin(i) PROVE SessionDated'
  <2>1. /\ live'.of = i /\ moved' = (pc # "idle")
        /\ foreign' = foreign \cup Unswitched(i)
        /\ UNCHANGED <<conf, used, clock, log, pc, job>>
      BY <1>3 DEF CliLogin
  <2>2. log.of # NoAccount => i \in foreign'
      BY <2>1 DEF SessionDated, Unswitched
  <2> QED
      BY <2>1, <2>2 DEF SessionDated, Dated, OfOther
<1>4. ASSUME NEW i \in Account, Age(i) PROVE SessionDated'
    BY <1>4 DEF Age, files, SessionDated, Dated, OfOther
<1>5. CASE CliRenew
  <2>1. live'.of = live.of /\ UNCHANGED <<world, pc, job>>
      BY <1>5 DEF CliRenew, IInv, TypeOK, Auth
  <2> QED
      BY <2>1 DEF world, SessionDated, Dated, OfOther
<1>6. CASE CliEvent
  <2>1. /\ "session" \in conf /\ log'.of = live.of /\ log'.time = clock
        /\ UNCHANGED <<live, conf, used, clock, moved, foreign, pc, job>>
      BY <1>6 DEF CliEvent, files
  <2> QED
      BY <1>0, <2>1 DEF SessionDated, Dated, OfOther
<1>7. CASE Tick
  <2>1. /\ clock' = clock + 1
        /\ UNCHANGED <<live, conf, used, log, moved, foreign, pc, job>>
      BY <1>7 DEF Tick, files
  <2> QED
      BY <1>0, <2>1 DEF SessionDated, Dated, OfOther
<1> QED
    BY <1>1, <1>2, <1>3, <1>4, <1>5, <1>6, <1>7

(* A session event counts for the account that caused it, with the named   *)
(* exceptions, for every set of collectors (sessionEventFreshForAccount).  *)
THEOREM SessionEventIsOwn == Spec => []SessionOwn
<1>1. Init => SessionDated
  <2> SUFFICES ASSUME Init PROVE SessionDated
      OBVIOUS
  <2>1. log.of = NoAccount /\ log.time = 0 /\ clock = 1 /\ pc = "idle"
      BY DEF Init
  <2> QED
      BY <2>1 DEF SessionDated, OfOther
<1>2. IInv /\ SessionDated /\ [Next]_vars => SessionDated'
  <2> SUFFICES ASSUME IInv, SessionDated, [Next]_vars PROVE SessionDated'
      OBVIOUS
  <2>1. CASE Next
      BY <2>1, DatedCollect, DatedWorld DEF Next, Disturbance
  <2>2. CASE UNCHANGED vars
      BY <2>2 DEF vars, files, world, SessionDated, Dated, OfOther
  <2> QED
      BY <2>1, <2>2
<1>3. IInv /\ SessionDated => SessionOwn
  <2> SUFFICES ASSUME IInv, SessionDated, pc = "log", FreshEvent, ~moved,
                      log.of # job.sel, job.sel \notin foreign
               PROVE  log.time = job.since
      BY DEF SessionOwn
  <2>1. log.time <= job.since /\ job.since <= log.time
      BY DEF SessionDated, FreshEvent, Dated, OfOther
  <2>2. log.time \in 0 .. MaxTime /\ job.since \in 0 .. MaxTime
      BY DEF IInv, TypeOK, Job
  <2>3. log.time \in Int /\ job.since \in Int
      BY <2>2
  <2> QED
      BY <2>1, <2>3
<1> QED
    BY <1>1, <1>2, <1>3, InvHolds, PTL DEF Spec
=============================================================================
