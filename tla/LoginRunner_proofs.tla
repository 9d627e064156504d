------------------------- MODULE LoginRunner_proofs -------------------------
(***************************************************************************)
(* Proofs about LoginRunner, for any number of sessions and clients: the   *)
(* runner's goroutines and channels implement the steps of LoginSession,   *)
(* and the exit status of the child reaches the goroutine that needs it.   *)
(*                                                                         *)
(* That the exit status arrives is not inductive: it rests on where the    *)
(* one value of the channel done may be (Delivery).                        *)
(***************************************************************************)
EXTENDS LoginRunner, LoginSession_proofs

RunRecord == [printed : Nat, read : Nat,
              scanner : {"none", "scan", "send", "drain", "end"},
              waiter : {"none", "wait", "send", "close", "end"},
              ready : BOOLEAN, parseErr : BOOLEAN,
              done : {"empty", "value", "taken"}, timer : BOOLEAN,
              got : {"nothing", "exit", "closed"}]

(* Where finishCodexLogin is while it has not received, and after it has.  *)
Before == {"none", "start", "register", "create", "wait"}
After == {"read", "write", "add", "succeed"}

(* The channel is closed after its value was sent; until the finisher      *)
(* receives, nobody else has taken the value.                              *)
Delivery(r, at) ==
    /\ r.waiter \in {"close", "end"} => r.done # "empty"
    /\ at \in Before => r.done # "taken"
    /\ at \in After => r.got = "exit"

RInv ==
    /\ run \in [Session -> RunRecord]
    /\ \A s \in Session : Delivery(run[s], fin[s])

-----------------------------------------------------------------------------
(* LoginRunner implements LoginSession: its select, its receipt of the     *)
(* exit status and its restart are steps there, the rest stutters.         *)
LEMMA RunnerStep == [RunnerNext]_rvars => [Next]_vars
  <1> SUFFICES ASSUME [RunnerNext]_rvars PROVE [Next]_vars
    OBVIOUS
  <1>1. ASSUME NEW s \in Session, Runs(s) PROVE Next
    BY <1>1 DEF Runs, Next
  <1>2. ASSUME NEW s \in Session, PrintLine(s) \/ Goroutine(s) PROVE UNCHANGED vars
    BY <1>2 DEF PrintLine, Goroutine, Scan, SendReady, ScanEnds, Wait, SendDone,
                CloseDone, TimerFires
  <1>3. ASSUME NEW s \in Session, Request(s) PROVE Next
    <2>1. Finisher(s)
      BY <1>3 DEF Request, StartReady, StartGivesUp, Receive, Finisher
    <2> QED BY <2>1 DEF Next
  <1>4. CASE \/ \E s \in Session : ChildExit(s) \/ Expire(s) \/ DeleteAccount(s)
             \/ \E c \in Client, s \in Session : CancelRead(c, s) \/ PollRead(c, s)
             \/ \E c \in Client : ClientStep(c)
    BY <1>4 DEF Next
  <1>5. CASE RunnerRestart
    BY <1>5 DEF RunnerRestart, Next
  <1>6. CASE UNCHANGED rvars
    BY <1>6 DEF rvars
  <1> QED BY <1>1, <1>2, <1>3, <1>4, <1>5, <1>6 DEF RunnerNext

(* Whatever the runner's goroutines do, a login goes through the states of *)
(* LoginSession.                                                           *)
THEOREM RunnerImplementsSession == RunnerSpec => Spec
  <1>1. RunnerInit => Init
    BY DEF RunnerInit
  <1> QED BY <1>1, RunnerStep, PTL DEF RunnerSpec, Spec

(* With the real start and exit of the child, too, success means an        *)
(* account, an account an approved login, usage is fetched once, and a     *)
(* child that is left alone has expired or outlived a restart.             *)
THEOREM RunnerKeepsSession ==
    RunnerSpec => [](/\ TypeOK /\ SucceededHasAccount /\ AccountNeedsApproval
                     /\ UsageFetchedOnce /\ ChildHasOwner)
  <1> QED BY RunnerImplementsSession, LoginTypes, SuccessMeansAccount,
             AccountMeansApproval, FetchedOnce, ChildOwned, PTL

-----------------------------------------------------------------------------
(* A step of one session's run keeps the invariant if what it leaves of    *)
(* that run agrees with where the session is then.                         *)
LEMMA RunUpdated ==
    ASSUME RInv, NEW s \in Session, NEW r \in RunRecord,
           run' = [run EXCEPT ![s] = r],
           \A u \in Session \ {s} : fin'[u] = fin[u],
           Delivery(r, fin'[s])
    PROVE  RInv'
  <1>1. /\ run' \in [Session -> RunRecord] /\ run'[s] = r
        /\ \A u \in Session \ {s} : run'[u] = run[u]
    BY DEF RInv
  <1>2. ASSUME NEW u \in Session PROVE Delivery(run'[u], fin'[u])
    <2>1. CASE u = s
      BY <1>1, <2>1
    <2>2. CASE u # s
      BY <1>1, <2>2 DEF RInv
    <2> QED BY <2>1, <2>2
  <1> QED BY <1>1, <1>2 DEF RInv

(* The steps of the request that starts a login, and of the finisher.      *)
LEMMA RequestDelivers ==
    ASSUME TypeOK, RInv, NEW s \in Session, Runs(s) \/ Request(s)
    PROVE  RInv'
  <1> DEFINE r == run[s]
  <1>0. r \in RunRecord /\ Delivery(r, fin[s]) /\ run = [run EXCEPT ![s] = r]
    BY DEF RInv
  <1>1. ASSUME NEW from, NEW to, FinGo(s, from, to)
        PROVE  fin[s] = from /\ fin'[s] = to /\ \A u \in Session \ {s} : fin'[u] = fin[u]
    BY <1>1 DEF FinGo, TypeOK
  <1>2. CASE Runs(s)
    <2> DEFINE q == [r EXCEPT !.scanner = "scan", !.waiter = "wait"]
    <2>1. run' = [run EXCEPT ![s] = q]
      BY <1>2, <1>0 DEF Runs, RInv
    <2>2. q \in RunRecord /\ q.done = r.done /\ q.waiter = "wait"
      BY <1>0 DEF RunRecord
    <2>3. /\ fin[s] = "none" /\ fin'[s] = "start"
          /\ \A u \in Session \ {s} : fin'[u] = fin[u]
      BY <1>1, <1>2 DEF Runs, Spawn
    <2> HIDE DEF q, r
    <2>4. Delivery(q, fin'[s])
      BY <1>0, <2>2, <2>3 DEF Delivery, Before, After
    <2> QED BY <2>1, <2>2, <2>3, <2>4, RunUpdated
  <1>3. CASE StartReady(s)
    <2> DEFINE q == [r EXCEPT !.ready = FALSE]
    <2>1. run' = [run EXCEPT ![s] = q]
      BY <1>3, <1>0 DEF StartReady, RInv
    <2>2. q \in RunRecord /\ q.done = r.done /\ q.waiter = r.waiter
      BY <1>0 DEF RunRecord
    <2>3. /\ fin[s] = "start" /\ fin'[s] = "register"
          /\ \A u \in Session \ {s} : fin'[u] = fin[u]
      BY <1>1, <1>3 DEF StartReady, Started
    <2> HIDE DEF q, r
    <2>4. Delivery(q, fin'[s])
      BY <1>0, <2>2, <2>3 DEF Delivery, Before, After
    <2> QED BY <2>1, <2>2, <2>3, <2>4, RunUpdated
  <1>4. CASE StartGivesUp(s)
    <2> DEFINE q == [r EXCEPT !.done = "taken"]
    <2>1. /\ fin'[s] = "done" /\ \A u \in Session \ {s} : fin'[u] = fin[u]
      BY <1>1, <1>4 DEF StartGivesUp, StartFails
    <2>2. run' = [run EXCEPT ![s] = r] \/ run' = [run EXCEPT ![s] = q]
      BY <1>4, <1>0 DEF StartGivesUp, RInv
    <2>3. q \in RunRecord /\ q.done = "taken"
      BY <1>0 DEF RunRecord
    <2> HIDE DEF q, r
    <2>4. Delivery(q, fin'[s]) /\ Delivery(r, fin'[s])
      BY <1>0, <2>1, <2>3 DEF Delivery, Before, After
    <2> QED BY <1>0, <2>1, <2>2, <2>3, <2>4, RunUpdated
  <1>5. CASE Receive(s)
    <2> DEFINE q == [r EXCEPT !.done = "taken", !.got = "exit"]
    <2>1. /\ fin[s] = "wait" /\ fin'[s] = "read"
          /\ \A u \in Session \ {s} : fin'[u] = fin[u]
      BY <1>1, <1>5 DEF Receive, FinDone
    <2>2. r.done = "value"
      <3>1. r.done = "value" \/ r.waiter = "end"
        BY <1>5 DEF Receive
      <3>2. r.done # "taken" /\ (r.waiter = "end" => r.done # "empty")
        BY <1>0, <2>1 DEF Delivery, Before
      <3> QED BY <1>0, <3>1, <3>2 DEF RunRecord
    <2>3. run' = [run EXCEPT ![s] = q]
      BY <1>0, <1>5, <2>2 DEF Receive, RInv
    <2>4. q \in RunRecord /\ q.done = "taken" /\ q.got = "exit"
      BY <1>0 DEF RunRecord
    <2> HIDE DEF q, r
    <2>5. Delivery(q, fin'[s])
      BY <2>1, <2>4 DEF Delivery, Before
    <2> QED BY <2>1, <2>3, <2>4, <2>5, RunUpdated
  <1>6. CASE Settle(s) /\ UNCHANGED run
    <2>1. /\ \A u \in Session \ {s} : fin'[u] = fin[u]
          /\ \/ fin[s] \in {"register", "create"} /\ fin'[s] \in {"create", "wait", "done"}
             \/ fin[s] \in After /\ fin'[s] \in After \cup {"fail", "done", "lost"}
             \/ fin[s] = "fail" /\ fin'[s] \in {"done", "lost"}
      BY <1>1, <1>6 DEF Settle, Register, Create, FinRead, FinFail, FinUpdate, FinWrite,
                        FinAdd, FinSucceed, After
    <2> HIDE DEF r
    <2>2. Delivery(r, fin'[s])
      BY <1>0, <2>1 DEF Delivery, Before, After
    <2> QED BY <1>0, <1>6, <2>1, <2>2, RunUpdated
  <1> QED BY <1>2, <1>3, <1>4, <1>5, <1>6 DEF Request

(* The reader, the waiter and the timer of the runner.  Of what the        *)
(* invariant is about they change the waiter and the channel only.         *)
LEMMA GoroutineDelivers ==
    ASSUME RInv, NEW s \in Session, PrintLine(s) \/ Goroutine(s)
    PROVE  RInv'
  <1> DEFINE r == run[s]
  <1>0. r \in RunRecord /\ Delivery(r, fin[s]) /\ run \in [Session -> RunRecord]
    BY DEF RInv
  <1>1. UNCHANGED fin
    BY DEF PrintLine, Goroutine, Scan, SendReady, ScanEnds, Wait, SendDone,
           CloseDone, TimerFires, vars
  <1>2. ASSUME NEW q \in RunRecord, run' = [run EXCEPT ![s] = q],
               \/ q.waiter = r.waiter /\ q.done = r.done
               \/ q.waiter = "send" /\ q.done = r.done
               \/ q.waiter = "close" /\ q.done = "value"
               \/ r.waiter = "close" /\ q.done = r.done,
               q.got = r.got
        PROVE  RInv'
    <2> HIDE DEF r
    <2>1. Delivery(q, fin'[s])
      BY <1>0, <1>1, <1>2 DEF Delivery, Before
    <2> QED BY <1>1, <1>2, <2>1, RunUpdated
  <1>3. CASE PrintLine(s)
    <2> DEFINE q == [r EXCEPT !.printed = @ + 1]
    <2>1. q \in RunRecord /\ q.waiter = r.waiter /\ q.done = r.done /\ q.got = r.got
      BY <1>0 DEF RunRecord
    <2>2. run' = [run EXCEPT ![s] = q]
      BY <1>0, <1>3 DEF PrintLine
    <2> QED BY <1>2, <2>1, <2>2
  <1>4. CASE Scan(s)
    <2>1. PICK to \in {"none", "scan", "send", "drain", "end"}, n \in Nat :
            run' = [run EXCEPT ![s].read = n, ![s].scanner = to]
      <3>1. run[s].read + 1 \in Nat
        BY <1>0 DEF RunRecord
      <3> QED BY <1>4, <3>1 DEF Scan
    <2> DEFINE q == [r EXCEPT !.read = n, !.scanner = to]
    <2>2. q \in RunRecord /\ q.waiter = r.waiter /\ q.done = r.done /\ q.got = r.got
      BY <1>0 DEF RunRecord
    <2>3. run' = [run EXCEPT ![s] = q]
      BY <1>0, <2>1
    <2> QED BY <1>2, <2>2, <2>3
  <1>5. CASE SendReady(s)
    <2> DEFINE q == [r EXCEPT !.ready = TRUE, !.scanner = "drain"]
    <2>1. q \in RunRecord /\ q.waiter = r.waiter /\ q.done = r.done /\ q.got = r.got
      BY <1>0 DEF RunRecord
    <2>2. run' = [run EXCEPT ![s] = q]
      BY <1>0, <1>5 DEF SendReady
    <2> QED BY <1>2, <2>1, <2>2
  <1>6. CASE ScanEnds(s)
    <2>1. PICK e \in BOOLEAN :
            run' = [run EXCEPT ![s].scanner = "end", ![s].parseErr = e]
      BY <1>6 DEF ScanEnds
    <2> DEFINE q == [r EXCEPT !.scanner = "end", !.parseErr = e]
    <2>2. q \in RunRecord /\ q.waiter = r.waiter /\ q.done = r.done /\ q.got = r.got
      BY <1>0 DEF RunRecord
    <2>3. run' = [run EXCEPT ![s] = q]
      BY <1>0, <2>1
    <2> QED BY <1>2, <2>2, <2>3
  <1>7. CASE Wait(s)
    <2> DEFINE q == [r EXCEPT !.waiter = "send"]
    <2>1. q \in RunRecord /\ q.waiter = "send" /\ q.done = r.done /\ q.got = r.got
      BY <1>0 DEF RunRecord
    <2>2. run' = [run EXCEPT ![s] = q]
      BY <1>0, <1>7 DEF Wait
    <2> QED BY <1>2, <2>1, <2>2
  <1>8. CASE SendDone(s)
    <2> DEFINE q == [r EXCEPT !.waiter = "close", !.done = "value"]
    <2>1. q \in RunRecord /\ q.waiter = "close" /\ q.done = "value" /\ q.got = r.got
      BY <1>0 DEF RunRecord
    <2>2. run' = [run EXCEPT ![s] = q]
      BY <1>0, <1>8 DEF SendDone
    <2> QED BY <1>2, <2>1, <2>2
  <1>9. CASE CloseDone(s)
    <2> DEFINE q == [r EXCEPT !.waiter = "end"]
    <2>1. q \in RunRecord /\ r.waiter = "close" /\ q.done = r.done /\ q.got = r.got
      BY <1>0, <1>9 DEF CloseDone, RunRecord
    <2>2. run' = [run EXCEPT ![s] = q]
      BY <1>0, <1>9 DEF CloseDone
    <2> QED BY <1>2, <2>1, <2>2
  <1>10. CASE TimerFires(s)
    <2> DEFINE q == [r EXCEPT !.timer = TRUE]
    <2>1. q \in RunRecord /\ q.waiter = r.waiter /\ q.done = r.done /\ q.got = r.got
      BY <1>0 DEF RunRecord
    <2>2. run' = [run EXCEPT ![s] = q]
      BY <1>0, <1>10 DEF TimerFires
    <2> QED BY <1>2, <2>1, <2>2
  <1> QED BY <1>3, <1>4, <1>5, <1>6, <1>7, <1>8, <1>9, <1>10 DEF Goroutine

(* A restart forgets the channels, and every login that used them.         *)
LEMMA RestartDelivers == ASSUME TypeOK, RInv, RunnerRestart PROVE RInv'
  <1>1. /\ \A s \in Session : fin'[s] \in {"none", "done", "lost"}
        /\ run' = [s \in Session |-> [NoRun EXCEPT !.printed = run[s].printed]]
    BY DEF RunnerRestart, Restart, TypeOK
  <1>2. \A s \in Session : run[s].printed \in Nat
    BY DEF RInv, RunRecord
  <1> QED BY <1>1, <1>2 DEF RInv, Delivery, Before, After, NoRun, RunRecord

(* The invariant of the channels holds in every reachable state.           *)
THEOREM RunnerInvariant == RunnerSpec => []RInv
  <1>1. RunnerInit => RInv
    BY DEF RunnerInit, Init, RInv, Delivery, Before, After, NoRun, RunRecord
  <1>2. TypeOK /\ RInv /\ [RunnerNext]_rvars => RInv'
    <2> SUFFICES ASSUME TypeOK, RInv, [RunnerNext]_rvars PROVE RInv'
      OBVIOUS
    <2>1. ASSUME NEW s \in Session, Runs(s) \/ PrintLine(s) \/ Goroutine(s) \/ Request(s)
          PROVE  RInv'
      BY <2>1, RequestDelivers, GoroutineDelivers
    <2>2. CASE /\ UNCHANGED run
               /\ \/ \E s \in Session : ChildExit(s) \/ Expire(s) \/ DeleteAccount(s)
                  \/ \E c \in Client, s \in Session : CancelRead(c, s) \/ PollRead(c, s)
                  \/ \E c \in Client : ClientStep(c)
      <3>1. UNCHANGED <<fin, run>>
        BY <2>2 DEF ChildExit, Expire, DeleteAccount, CancelRead, PollRead, ClientStep,
                    CancelTake, CancelKill, CancelWrite, PollMark, PollFetch, PollUnmark
      <3> QED BY <3>1 DEF RInv, Delivery
    <2>3. CASE RunnerRestart
      BY <2>3, RestartDelivers
    <2>4. CASE UNCHANGED rvars
      BY <2>4 DEF rvars, vars, RInv, Delivery
    <2> QED BY <2>1, <2>2, <2>3, <2>4 DEF RunnerNext
  <1> QED BY <1>1, <1>2, RunnerKeepsSession, PTL DEF RunnerSpec

(* finishCodexLogin always gets the exit status of the child, never the    *)
(* nil of a channel that is closed and empty (CodexLoginRunner.Start).     *)
THEOREM ExitReceived == RunnerSpec => []ExitDelivered
  <1>1. RInv => ExitDelivered
    BY DEF RInv, Delivery, After, ExitDelivered
  <1> QED BY <1>1, RunnerInvariant, PTL
=============================================================================
