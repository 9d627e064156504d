---------------------------- MODULE LoginSession ----------------------------
(***************************************************************************)
(* A device-code login of couswee: the row of the login_sessions table,    *)
(* the `codex login` child process, the goroutine that waits for it        *)
(* (finishCodexLogin), the cancel and status requests of the dashboard,    *)
(* and the one usage refresh a successful login triggers.                  *)
(*                                                                         *)
(* The row is read and later written whole by the goroutine and by every   *)
(* cancel request; the store's lock covers each access alone.              *)
(***************************************************************************)
EXTENDS Naturals

CONSTANTS
    Session,   \* login sessions
    Client,    \* concurrent requests of the dashboard
    IOFaults   \* TRUE: accesses to files and the database may fail

ASSUME LoginAssumption == Session # {} /\ IOFaults \in BOOLEAN

VARIABLES
    row,        \* the session's row: status and whether account_id is set
    late,       \* expires_at has passed
    child,      \* the codex login process
    account,    \* the account the session added
    cancels,    \* sessions with an entry in loginCancels
    fin,        \* where StartLogin, then finishCodexLogin, is
    finrow,     \* the row as finishCodexLogin read it
    pc, job,    \* where each client is, and its session and copy of the row
    refreshed,  \* sessions marked in refreshedLoginUsage
    fetched     \* usage refreshes done for the session since the last start

vars == <<row, late, child, account, cancels, fin, finrow, pc, job, refreshed, fetched>>

RowStatus == {"none", "waiting_user", "succeeded", "failed", "cancelled"}
SessionRow == [status : RowStatus, acct : BOOLEAN]
NoSession == [status |-> "none", acct |-> FALSE]
Terminal == {"succeeded", "failed", "cancelled", "expired"}

(* expireIfNeeded: the status a reader sees; "expired" is never stored.    *)
Seen(s) == IF late[s] /\ row[s].status = "waiting_user" THEN "expired"
           ELSE row[s].status

Idle == [sess |-> CHOOSE s \in Session : TRUE, row |-> NoSession]

TypeOK ==
    /\ row \in [Session -> SessionRow]
    /\ late \in [Session -> BOOLEAN]
    /\ child \in [Session -> {"none", "running", "ok", "failed", "killed"}]
    /\ account \in [Session -> {"none", "listed", "removed"}]
    /\ cancels \in SUBSET Session
    /\ fin \in [Session -> {"none", "start", "register", "create", "wait", "read",
                            "fail", "write", "add", "succeed", "done", "lost"}]
    /\ finrow \in [Session -> SessionRow]
    /\ pc \in [Client -> {"idle", "cancel.take", "cancel.kill", "cancel.write",
                          "poll.mark", "poll.fetch", "poll.unmark"}]
    /\ job \in [Client -> [sess : Session, row : SessionRow]]
    /\ refreshed \in SUBSET Session
    /\ fetched \in [Session -> 0 .. 2]

Init ==
    /\ row = [s \in Session |-> NoSession]
    /\ late = [s \in Session |-> FALSE]
    /\ child = [s \in Session |-> "none"]
    /\ account = [s \in Session |-> "none"]
    /\ cancels = {}
    /\ fin = [s \in Session |-> "none"]
    /\ finrow = [s \in Session |-> NoSession]
    /\ pc = [c \in Client |-> "idle"]
    /\ job = [c \in Client |-> Idle]
    /\ refreshed = {}
    /\ fetched = [s \in Session |-> 0]

-----------------------------------------------------------------------------
FinGo(s, from, to) == fin[s] = from /\ fin' = [fin EXCEPT ![s] = to]

Killed(s) == IF child[s] = "running" THEN [child EXCEPT ![s] = "killed"] ELSE child

(* StartLogin runs codex login and waits until it has printed a URL and a  *)
(* user code; when it does not, the child is killed.                       *)
Spawn(s) ==
    /\ FinGo(s, "none", "start")
    /\ child' = [child EXCEPT ![s] = "running"]
    /\ UNCHANGED <<row, late, account, cancels, finrow, pc, job, refreshed, fetched>>

Started(s) ==
    /\ FinGo(s, "start", "register")
    /\ UNCHANGED <<row, late, child, account, cancels, finrow, pc, job, refreshed, fetched>>

(* Definitions named Wrong... are plausible mistakes in the definition they *)
(* precede; the checks of this module must notice each of them.            *)
WrongStartFails(s) ==
    /\ FinGo(s, "start", "done")
    /\ UNCHANGED <<row, late, child, account, cancels, finrow, pc, job, refreshed, fetched>>

StartFails(s) ==
    /\ FinGo(s, "start", "done")
    /\ child' = Killed(s)
    /\ UNCHANGED <<row, late, account, cancels, finrow, pc, job, refreshed, fetched>>

Register(s) ==
    /\ FinGo(s, "register", "create")
    /\ cancels' = cancels \cup {s}
    /\ UNCHANGED <<row, late, child, account, finrow, pc, job, refreshed, fetched>>

WrongCreate(s) ==
    /\ FinGo(s, "create", "wait")
    /\ row' = [row EXCEPT ![s].status = "pending"]
    /\ UNCHANGED <<late, child, account, cancels, finrow, pc, job, refreshed, fetched>>

(* When the insert fails the child is killed; the entry in loginCancels    *)
(* stays.                                                                  *)
Create(s) ==
    /\ \/ /\ FinGo(s, "create", "wait")
          /\ row' = [row EXCEPT ![s].status = "waiting_user"]
          /\ UNCHANGED child
       \/ /\ IOFaults
          /\ FinGo(s, "create", "done")
          /\ child' = Killed(s)
          /\ UNCHANGED row
    /\ UNCHANGED <<late, account, cancels, finrow, pc, job, refreshed, fetched>>

(* finishCodexLogin: the child has exited.                                 *)
FinDone(s) ==
    /\ FinGo(s, "wait", "read")
    /\ child[s] # "running"
    /\ cancels' = cancels \ {s}
    /\ UNCHANGED <<row, late, child, account, finrow, pc, job, refreshed, fetched>>

WrongFinReadAnyExit(s) ==
    /\ FinGo(s, "read", IF Seen(s) \in {"cancelled", "expired"} THEN "done" ELSE "write")
    /\ finrow' = [finrow EXCEPT ![s] = row[s]]
    /\ UNCHANGED <<row, late, child, account, cancels, pc, job, refreshed, fetched>>

WrongFinReadStops(s) ==
    /\ FinGo(s, "read", IF child[s] = "ok" THEN "done" ELSE "fail")
    /\ finrow' = [finrow EXCEPT ![s] = row[s]]
    /\ UNCHANGED <<row, late, child, account, cancels, pc, job, refreshed, fetched>>

(* Without the row the goroutine just returns.                             *)
FinRead(s) ==
    /\ \/ /\ FinGo(s, "read", IF Seen(s) \in {"cancelled", "expired"} THEN "done"
                              ELSE IF child[s] = "ok" THEN "write" ELSE "fail")
          /\ finrow' = [finrow EXCEPT ![s] = row[s]]
       \/ IOFaults /\ FinGo(s, "read", "lost") /\ UNCHANGED finrow
    /\ UNCHANGED <<row, late, child, account, cancels, pc, job, refreshed, fetched>>

(* The last write of the goroutine; its failure is ignored, and nobody is  *)
(* left to settle the session.                                             *)
FinUpdate(s, from, status, acct) ==
    /\ \/ FinGo(s, from, "done") /\ row' = [row EXCEPT ![s] = [status |-> status, acct |-> acct]]
       \/ IOFaults /\ FinGo(s, from, "lost") /\ UNCHANGED row
    /\ UNCHANGED <<late, child, account, cancels, finrow, pc, job, refreshed, fetched>>

FinFail(s) == FinUpdate(s, "fail", "failed", finrow[s].acct)

(* completeLogin: profile, account, session, in that order.                *)
FinWrite(s) ==
    /\ FinGo(s, "write", "add") \/ (IOFaults /\ FinGo(s, "write", "fail"))
    /\ UNCHANGED <<row, late, child, account, cancels, finrow, pc, job, refreshed, fetched>>

WrongFinAdd(s) ==
    /\ FinGo(s, "add", "succeed")
    /\ account' = [account EXCEPT ![s] = "listed"] \/ (IOFaults /\ UNCHANGED account)
    /\ UNCHANGED <<row, late, child, cancels, finrow, pc, job, refreshed, fetched>>

FinAdd(s) ==
    /\ \/ FinGo(s, "add", "succeed") /\ account' = [account EXCEPT ![s] = "listed"]
       \/ IOFaults /\ FinGo(s, "add", "fail") /\ UNCHANGED account
    /\ UNCHANGED <<row, late, child, cancels, finrow, pc, job, refreshed, fetched>>

FinSucceed(s) == FinUpdate(s, "succeed", "succeeded", TRUE)

Settle(s) ==
    \/ Register(s) \/ Create(s) \/ FinRead(s) \/ FinFail(s)
    \/ FinWrite(s) \/ FinAdd(s) \/ FinSucceed(s)

Finisher(s) == Started(s) \/ StartFails(s) \/ FinDone(s) \/ Settle(s)

-----------------------------------------------------------------------------
Go(c, from, to) == pc[c] = from /\ pc' = [pc EXCEPT ![c] = to]

(* CancelLoginSession                                                      *)
Cancellable(s) ==
    row[s].status # "none" /\ Seen(s) \notin {"succeeded", "failed", "expired"}

CancelRead(c, s) ==
    /\ Cancellable(s)
    /\ Go(c, "idle", "cancel.take")
    /\ job' = [job EXCEPT ![c] = [sess |-> s, row |-> row[s]]]
    /\ UNCHANGED <<row, late, child, account, cancels, fin, finrow, refreshed, fetched>>

WrongCancelTake(c) ==
    /\ Go(c, "cancel.take", "cancel.write")
    /\ cancels' = cancels \ {job[c].sess}
    /\ UNCHANGED <<row, late, child, account, fin, finrow, job, refreshed, fetched>>

CancelTake(c) ==
    LET s == job[c].sess
    IN  /\ Go(c, "cancel.take", IF s \in cancels THEN "cancel.kill" ELSE "cancel.write")
        /\ cancels' = cancels \ {s}
        /\ UNCHANGED <<row, late, child, account, fin, finrow, job, refreshed, fetched>>

CancelKill(c) ==
    /\ Go(c, "cancel.kill", "cancel.write")
    /\ child' = Killed(job[c].sess)
    /\ UNCHANGED <<row, late, account, cancels, fin, finrow, job, refreshed, fetched>>

CancelWrite(c) ==
    /\ Go(c, "cancel.write", "idle")
    /\ \/ row' = [row EXCEPT ![job[c].sess] = [job[c].row EXCEPT !.status = "cancelled"]]
       \/ IOFaults /\ UNCHANGED row
    /\ job' = [job EXCEPT ![c] = Idle]
    /\ UNCHANGED <<late, child, account, cancels, fin, finrow, refreshed, fetched>>

(* getLoginSession and refreshLoginUsage: the first reader of a success    *)
(* marks the session and refreshes the usage of its account; when the      *)
(* account is not listed the mark is taken back.                           *)
PollRead(c, s) ==
    /\ Seen(s) = "succeeded" /\ row[s].acct
    /\ Go(c, "idle", "poll.mark")
    /\ job' = [job EXCEPT ![c].sess = s]
    /\ UNCHANGED <<row, late, child, account, cancels, fin, finrow, refreshed, fetched>>

WrongPollMark(c) ==
    /\ Go(c, "poll.mark", "poll.fetch")
    /\ refreshed' = refreshed \cup {job[c].sess}
    /\ UNCHANGED <<row, late, child, account, cancels, fin, finrow, job, fetched>>

PollMark(c) ==
    LET s == job[c].sess
    IN  /\ Go(c, "poll.mark", IF s \in refreshed THEN "idle" ELSE "poll.fetch")
        /\ refreshed' = refreshed \cup {s}
        /\ UNCHANGED <<row, late, child, account, cancels, fin, finrow, job, fetched>>

PollFetch(c) ==
    LET s == job[c].sess
    IN  /\ \/ /\ account[s] = "listed"
              /\ Go(c, "poll.fetch", "idle")
              /\ fetched' = [fetched EXCEPT ![s] = IF @ < 2 THEN @ + 1 ELSE 2]
           \/ /\ account[s] # "listed"
              /\ Go(c, "poll.fetch", "poll.unmark")
              /\ UNCHANGED fetched
        /\ UNCHANGED <<row, late, child, account, cancels, fin, finrow, job, refreshed>>

PollUnmark(c) ==
    /\ Go(c, "poll.unmark", "idle")
    /\ refreshed' = refreshed \ {job[c].sess}
    /\ UNCHANGED <<row, late, child, account, cancels, fin, finrow, job, fetched>>

ClientStep(c) ==
    \/ CancelTake(c) \/ CancelKill(c) \/ CancelWrite(c)
    \/ PollMark(c) \/ PollFetch(c) \/ PollUnmark(c)

-----------------------------------------------------------------------------
(* The user approves the login or lets it fail; the clock passes           *)
(* expires_at; the added account is deleted.                               *)
ChildExit(s) ==
    /\ child[s] = "running"
    /\ \E result \in {"ok", "failed"} : child' = [child EXCEPT ![s] = result]
    /\ UNCHANGED <<row, late, account, cancels, fin, finrow, pc, job, refreshed, fetched>>

Expire(s) ==
    /\ row[s].status # "none" /\ ~late[s]
    /\ late' = [late EXCEPT ![s] = TRUE]
    /\ UNCHANGED <<row, child, account, cancels, fin, finrow, pc, job, refreshed, fetched>>

DeleteAccount(s) ==
    /\ account[s] = "listed"
    /\ account' = [account EXCEPT ![s] = "removed"]
    /\ UNCHANGED <<row, late, child, cancels, fin, finrow, pc, job, refreshed, fetched>>

(* couswee dies and starts again.  The child is in a process group of its  *)
(* own and lives on; nobody waits for it any more.                         *)
Restart ==
    /\ fin' = [s \in Session |-> IF fin[s] \in {"none", "done"} THEN fin[s] ELSE "lost"]
    /\ finrow' = [s \in Session |-> NoSession]
    /\ cancels' = {}
    /\ pc' = [c \in Client |-> "idle"]
    /\ job' = [c \in Client |-> Idle]
    /\ refreshed' = {}
    /\ fetched' = [s \in Session |-> 0]
    /\ UNCHANGED <<row, late, child, account>>

Next ==
    \/ \E s \in Session : Spawn(s) \/ Finisher(s) \/ ChildExit(s) \/ Expire(s)
                            \/ DeleteAccount(s)
    \/ \E c \in Client, s \in Session : CancelRead(c, s) \/ PollRead(c, s)
    \/ \E c \in Client : ClientStep(c)
    \/ Restart

Spec == Init /\ [][Next]_vars

(* Goroutines that can run do run.  Neither the user nor the child has to  *)
(* do anything, and a login may be over before its expires_at: were time   *)
(* fair, expiry would settle every session the goroutine forgets.          *)
Fairness ==
    /\ \A s \in Session : WF_vars(Finisher(s))
    /\ \A c \in Client : WF_vars(ClientStep(c))

FairSpec == Spec /\ Fairness

-----------------------------------------------------------------------------
(* A session that says succeeded has added an account and names it, also   *)
(* when writes fail or the process dies between the three steps of         *)
(* completeLogin.                                                          *)
SucceededHasAccount ==
    \A s \in Session : row[s].status = "succeeded" => row[s].acct /\ account[s] # "none"

(* No account comes from a login whose child was killed, failed or is      *)
(* still running.                                                          *)
AccountNeedsApproval ==
    \A s \in Session : account[s] # "none" => child[s] = "ok"

(* However many status requests race, a successful login refreshes usage   *)
(* at most once per run of the server.                                     *)
UsageFetchedOnce == \A s \in Session : fetched[s] <= 1

(* While codex login runs, somebody can still end it: the request that     *)
(* started it, a cancel request that has taken the entry of loginCancels,  *)
(* or one that would still get to the entry.  It is left alone in two      *)
(* cases only: once its session has expired, when cancelling returns before*)
(* it looks for the entry and the goroutine is the last to wait for the    *)
(* child, and after a restart, when nobody is.                             *)
ChildHasOwner ==
    \A s \in Session : child[s] = "running" =>
        \/ fin[s] \in {"start", "register", "create"}
        \/ \E c \in Client : pc[c] = "cancel.kill" /\ job[c].sess = s
        \/ fin[s] = "wait" /\ ((Cancellable(s) /\ s \in cancels) \/ Seen(s) = "expired")
        \/ fin[s] = "lost"

(* Cancelling ends the child, even when two cancel requests race for its   *)
(* entry in loginCancels; only a restart can leave it running.             *)
CancelEndsChild ==
    \A s \in Session :
        row[s].status = "cancelled" ~> child[s] # "running" \/ fin[s] = "lost"

(* A login the user approved ends as an account, unless it was cancelled,  *)
(* expired or failed first, the server was restarted, or the row could not *)
(* be read or stored.                                                      *)
ApprovalSettles ==
    \A s \in Session :
        child[s] = "ok" /\ fin[s] = "wait"
            ~> account[s] # "none" \/ Seen(s) \in Terminal \/ fin[s] = "lost"

(* A status in which the dashboard stops polling is never left.            *)
FinalStatesStay ==
    [][\A s \in Session : Seen(s) \in Terminal => (Seen(s))' = Seen(s)]_vars
=============================================================================
