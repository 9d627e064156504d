------------------------ MODULE LoginSession_proofs ------------------------
(***************************************************************************)
(* Proofs about LoginSession, for any number of sessions and clients.      *)
(*                                                                         *)
(* The safety properties are not inductive: that a succeeded session has   *)
(* an account rests on where finishCodexLogin stands (Flow), that usage is *)
(* fetched once on the mark a client holds (Polls).                        *)
(***************************************************************************)
EXTENDS LoginSession, TLAPS

Flow(s) ==
    /\ fin[s] = "none" => child[s] = "none"
    /\ fin[s] \in {"read", "fail", "write", "add", "succeed", "done"} => child[s] # "running"
    /\ fin[s] \in {"write", "add", "succeed"} => child[s] = "ok"
    /\ fin[s] = "succeed" => account[s] # "none"
    /\ account[s] # "none" => child[s] = "ok"
    /\ row[s].status = "succeeded" => row[s].acct /\ account[s] # "none"
    /\ row[s].status = "failed" => child[s] # "running" /\ fin[s] # "none"
    /\ fin[s] = "wait" => row[s].status # "none"

(* Client c holds the mark of its session.                                 *)
Holds(c) == pc[c] \in {"poll.fetch", "poll.unmark"}

Marked(s) == fetched[s] <= 1 /\ (fetched[s] = 1 => s \in refreshed)

Polls ==
    /\ \A s \in Session : Marked(s)
    /\ \A c \in Client : Holds(c) =>
         job[c].sess \in refreshed /\ fetched[job[c].sess] = 0
    /\ \A c, d \in Client :
         Holds(c) /\ Holds(d) /\ job[c].sess = job[d].sess => c = d

(* Whether the entry of loginCancels can still be reached or not, it is    *)
(* there for every child that StartLogin or a cancel request has not got   *)
(* hold of.                                                                *)
Owned ==
    \A s \in Session : child[s] = "running" =>
        \/ fin[s] \in {"start", "register", "lost"}
        \/ s \in cancels
        \/ \E c \in Client : pc[c] = "cancel.kill" /\ job[c].sess = s

LInv == TypeOK /\ (\A s \in Session : Flow(s)) /\ Polls /\ Owned

-----------------------------------------------------------------------------
(* The record of a client that serves no request is well typed.            *)
LEMMA IdleType == Idle \in [sess : Session, row : SessionRow]
  <1>1. (CHOOSE s \in Session : TRUE) \in Session
    BY LoginAssumption
  <1>2. NoSession \in SessionRow
    BY DEF NoSession, SessionRow, RowStatus
  <1> QED BY <1>1, <1>2 DEF Idle

(* The invariant holds before any login is started.                        *)
LEMMA InitInv == Init => LInv
  <1> SUFFICES ASSUME Init PROVE LInv
    OBVIOUS
  <1>1. TypeOK
    BY IdleType DEF Init, TypeOK, NoSession, SessionRow, RowStatus
  <1>2. \A s \in Session : Flow(s)
    BY DEF Init, Flow, NoSession
  <1>3. Polls
    BY DEF Init, Polls, Holds, Marked
  <1>4. Owned
    BY DEF Init, Owned
  <1> QED BY <1>1, <1>2, <1>3, <1>4 DEF LInv

(* The steps of StartLogin and finishCodexLogin keep the types.            *)
LEMMA FinisherType ==
    ASSUME TypeOK, NEW s \in Session, Spawn(s) \/ Finisher(s)
    PROVE  TypeOK'
  <1>1. CASE Spawn(s)
    BY <1>1 DEF TypeOK, Spawn, FinGo
  <1>11. CASE Started(s) \/ StartFails(s)
    BY <1>11 DEF TypeOK, Started, StartFails, FinGo, Killed
  <1>2. CASE Register(s)
    BY <1>2 DEF TypeOK, Register, FinGo
  <1>3. CASE Create(s)
    <2>1. [row[s] EXCEPT !.status = "waiting_user"] \in SessionRow
      BY DEF TypeOK, SessionRow, RowStatus
    <2>2. row' \in [Session -> SessionRow]
      BY <1>3, <2>1 DEF TypeOK, Create
    <2> QED BY <1>3, <2>2 DEF TypeOK, Create, FinGo, Killed
  <1>4. CASE FinDone(s)
    BY <1>4 DEF TypeOK, FinDone, FinGo
  <1>5. CASE FinRead(s)
    <2>1. /\ fin' = [fin EXCEPT ![s] = fin'[s]]
          /\ fin'[s] \in {"done", "write", "fail", "lost"}
      BY <1>5 DEF TypeOK, FinRead, FinGo
    <2> QED BY <1>5, <2>1 DEF TypeOK, FinRead
  <1>6. ASSUME NEW from, NEW status \in RowStatus, NEW acct \in BOOLEAN,
               FinUpdate(s, from, status, acct)
        PROVE  TypeOK'
    <2>1. [status |-> status, acct |-> acct] \in SessionRow
      BY <1>6 DEF SessionRow
    <2>2. row' \in [Session -> SessionRow]
      BY <1>6, <2>1 DEF TypeOK, FinUpdate
    <2> QED BY <1>6, <2>2 DEF TypeOK, FinUpdate, FinGo
  <1>7. CASE FinFail(s)
    <2>1. finrow[s].acct \in BOOLEAN
      BY DEF TypeOK, SessionRow
    <2> QED BY <1>6, <1>7, <2>1 DEF FinFail, RowStatus
  <1>8. CASE FinWrite(s)
    BY <1>8 DEF TypeOK, FinWrite, FinGo
  <1>9. CASE FinAdd(s)
    BY <1>9 DEF TypeOK, FinAdd, FinGo
  <1>10. CASE FinSucceed(s)
    BY <1>6, <1>10 DEF FinSucceed, RowStatus
  <1> QED
    BY <1>1, <1>2, <1>3, <1>4, <1>5, <1>7, <1>8, <1>9, <1>10, <1>11
       DEF Finisher, Settle

(* The requests of the dashboard keep the types.                           *)
LEMMA ClientType ==
    ASSUME TypeOK, NEW c \in Client,
           ClientStep(c) \/ \E s \in Session : CancelRead(c, s) \/ PollRead(c, s)
    PROVE  TypeOK'
  <1>1. ASSUME NEW s \in Session, CancelRead(c, s) PROVE TypeOK'
    <2>1. [sess |-> s, row |-> row[s]] \in [sess : Session, row : SessionRow]
      BY DEF TypeOK
    <2> QED BY <1>1, <2>1 DEF TypeOK, CancelRead, Go
  <1>2. ASSUME NEW s \in Session, PollRead(c, s) PROVE TypeOK'
    <2>1. job' \in [Client -> [sess : Session, row : SessionRow]]
      BY <1>2 DEF TypeOK, PollRead
    <2> QED BY <1>2, <2>1 DEF TypeOK, PollRead, Go
  <1> job[c].sess \in Session /\ job[c].row \in SessionRow
    BY DEF TypeOK
  <1>3. CASE CancelTake(c)
    BY <1>3 DEF TypeOK, CancelTake, Go
  <1>4. CASE CancelKill(c)
    BY <1>4 DEF TypeOK, CancelKill, Go, Killed
  <1>5. CASE CancelWrite(c)
    <2>1. [job[c].row EXCEPT !.status = "cancelled"] \in SessionRow
      BY DEF SessionRow, RowStatus
    <2>2. row' \in [Session -> SessionRow]
      BY <1>5, <2>1 DEF TypeOK, CancelWrite
    <2> QED BY <1>5, <2>2, IdleType DEF TypeOK, CancelWrite, Go
  <1>6. CASE PollMark(c)
    BY <1>6 DEF TypeOK, PollMark, Go
  <1>7. CASE PollFetch(c)
    BY <1>7 DEF TypeOK, PollFetch, Go
  <1>8. CASE PollUnmark(c)
    BY <1>8 DEF TypeOK, PollUnmark, Go
  <1> QED
    BY <1>1, <1>2, <1>3, <1>4, <1>5, <1>6, <1>7, <1>8 DEF ClientStep

(* The child, the clock, a deletion and a restart keep the types.          *)
LEMMA WorldType ==
    ASSUME TypeOK,
           Restart \/ \E s \in Session : ChildExit(s) \/ Expire(s) \/ DeleteAccount(s)
    PROVE  TypeOK'
  <1>1. ASSUME NEW s \in Session, ChildExit(s) PROVE TypeOK'
    BY <1>1 DEF TypeOK, ChildExit
  <1>2. ASSUME NEW s \in Session, Expire(s) PROVE TypeOK'
    BY <1>2 DEF TypeOK, Expire
  <1>3. ASSUME NEW s \in Session, DeleteAccount(s) PROVE TypeOK'
    BY <1>3 DEF TypeOK, DeleteAccount
  <1>4. CASE Restart
    <2>1. NoSession \in SessionRow
      BY DEF NoSession, SessionRow, RowStatus
    <2> QED BY <1>4, <2>1, IdleType DEF TypeOK, Restart
  <1> QED BY <1>1, <1>2, <1>3, <1>4

-----------------------------------------------------------------------------
(* Every step keeps the order of the three steps of completeLogin behind a *)
(* child that has ended well.                                              *)
LEMMA FlowStep ==
    ASSUME TypeOK, \A s \in Session : Flow(s), Next
    PROVE  \A s \in Session : Flow(s)'
  <1>1. ASSUME NEW s \in Session, Spawn(s) \/ Finisher(s)
        PROVE  \A u \in Session : Flow(u)'
    <2>0. ASSUME NEW from, NEW status, NEW acct, FinUpdate(s, from, status, acct),
                 from \in {"fail", "succeed"},
                 status = "succeeded" => acct /\ account[s] # "none"
          PROVE  \A u \in Session : Flow(u)'
      <3>1. /\ fin[s] = from /\ fin'[s] \in {"done", "lost"}
            /\ \A u \in Session \ {s} : fin'[u] = fin[u]
            /\ UNCHANGED <<child, account>>
        BY <2>0 DEF FinUpdate, FinGo, TypeOK
      <3>2. /\ \A u \in Session \ {s} : row'[u] = row[u]
            /\ row'[s] = row[s] \/ (row'[s].status = status /\ row'[s].acct = acct)
        BY <2>0 DEF FinUpdate, TypeOK
      <3>3. \A u \in Session : row'[u].status = "succeeded" => row'[u].acct /\ account[u] # "none"
        BY <2>0, <3>2 DEF Flow
      <3>4. child[s] # "running"
        BY <2>0, <3>1 DEF Flow
      <3>5. ASSUME NEW u \in Session PROVE Flow(u)'
        <4>1. CASE u = s
          BY <3>1, <3>3, <3>4, <4>1 DEF Flow
        <4>2. CASE u # s
          BY <3>1, <3>2, <3>3, <4>2 DEF Flow
        <4> QED BY <4>1, <4>2
      <3> QED BY <3>5
    <2> USE DEF TypeOK, SessionRow, RowStatus, Flow, FinGo
    <2>1. CASE Spawn(s)
      BY <2>1 DEF Spawn
    <2>10. CASE Started(s) \/ StartFails(s)
      BY <2>10 DEF Started, StartFails, Killed
    <2>2. CASE Register(s)
      BY <2>2 DEF Register
    <2>3. CASE Create(s)
      BY <2>3 DEF Create, Killed
    <2>4. CASE FinDone(s)
      BY <2>4 DEF FinDone
    <2>5. CASE FinRead(s)
      BY <2>5 DEF FinRead
    <2>6. CASE FinFail(s)
      BY <2>0, <2>6 DEF FinFail
    <2>7. CASE FinWrite(s)
      BY <2>7 DEF FinWrite
    <2>8. CASE FinAdd(s)
      BY <2>8 DEF FinAdd
    <2>9. CASE FinSucceed(s)
      <3>1. fin[s] = "succeed"
        BY <2>9 DEF FinSucceed, FinUpdate
      <3> QED BY <2>0, <2>9, <3>1 DEF FinSucceed
    <2> QED
      BY <1>1, <2>1, <2>2, <2>3, <2>4, <2>5, <2>6, <2>7, <2>8, <2>9, <2>10
         DEF Finisher, Settle
  <1>2. ASSUME NEW c \in Client, ClientStep(c)
        PROVE  \A u \in Session : Flow(u)'
    <2> job[c].sess \in Session /\ job[c].row \in SessionRow
      BY DEF TypeOK
    <2>1. CASE CancelTake(c)
      BY <2>1 DEF CancelTake, Flow
    <2>2. CASE CancelKill(c)
      BY <2>2 DEF CancelKill, Killed, Flow, TypeOK
    <2>3. CASE CancelWrite(c)
      <3>1. /\ UNCHANGED <<fin, child, account>>
            /\ \A u \in Session : row'[u] = row[u] \/ row'[u].status = "cancelled"
        BY <2>3 DEF CancelWrite, TypeOK, SessionRow
      <3> QED BY <3>1 DEF Flow
    <2>4. CASE PollMark(c) \/ PollFetch(c) \/ PollUnmark(c)
      BY <2>4 DEF PollMark, PollFetch, PollUnmark, Flow
    <2> QED BY <1>2, <2>1, <2>2, <2>3, <2>4 DEF ClientStep
  <1>3. ASSUME NEW c \in Client, NEW s \in Session, CancelRead(c, s) \/ PollRead(c, s)
        PROVE  \A u \in Session : Flow(u)'
    BY <1>3 DEF CancelRead, PollRead, Flow
  <1>4. ASSUME NEW s \in Session, ChildExit(s) \/ Expire(s) \/ DeleteAccount(s)
        PROVE  \A u \in Session : Flow(u)'
    BY <1>4 DEF ChildExit, Expire, DeleteAccount, Flow, TypeOK
  <1>5. CASE Restart
    BY <1>5 DEF Restart, Flow, TypeOK
  <1> QED BY <1>1, <1>2, <1>3, <1>4, <1>5 DEF Next

(* Only the client that marked a session fetches its usage or takes the    *)
(* mark back.                                                              *)
LEMMA PollsStep ==
    ASSUME TypeOK, Polls, Next
    PROVE  Polls'
  <1>1. ASSUME NEW s \in Session,
               \/ Spawn(s) \/ Finisher(s)
               \/ ChildExit(s) \/ Expire(s) \/ DeleteAccount(s)
        PROVE  Polls'
    <2>1. UNCHANGED <<pc, job, refreshed, fetched>>
      BY <1>1 DEF Spawn, Started, StartFails, Finisher, Settle, Register, Create, FinDone, FinRead, FinFail,
                  FinUpdate, FinWrite, FinAdd, FinSucceed, ChildExit, Expire,
                  DeleteAccount
    <2> QED BY <2>1 DEF Polls, Holds, Marked
  <1>2. ASSUME NEW c \in Client, NEW s \in Session, CancelRead(c, s) \/ PollRead(c, s)
        PROVE  Polls'
    <2>1. /\ \A d \in Client \ {c} : pc'[d] = pc[d] /\ job'[d] = job[d]
          /\ pc'[c] \in {"cancel.take", "poll.mark"}
          /\ UNCHANGED <<refreshed, fetched>>
      BY <1>2 DEF CancelRead, PollRead, Go, TypeOK
    <2> QED BY <2>1 DEF Polls, Holds, Marked
  <1>3. ASSUME NEW c \in Client, ClientStep(c) PROVE Polls'
    <2> USE DEF Go, TypeOK
    <2> job[c].sess \in Session
      OBVIOUS
    <2>1. CASE CancelTake(c) \/ CancelKill(c) \/ CancelWrite(c)
      <3>1. /\ \A d \in Client \ {c} : pc'[d] = pc[d] /\ job'[d] = job[d]
            /\ pc'[c] \in {"cancel.kill", "cancel.write", "idle"}
            /\ UNCHANGED <<refreshed, fetched>>
        BY <2>1 DEF CancelTake, CancelKill, CancelWrite
      <3> QED BY <3>1 DEF Polls, Holds, Marked
    <2>2. CASE PollMark(c) /\ job[c].sess \in refreshed
      <3>1. /\ \A d \in Client \ {c} : pc'[d] = pc[d]
            /\ pc'[c] = "idle"
            /\ refreshed' = refreshed
            /\ UNCHANGED <<job, fetched>>
        BY <2>2 DEF PollMark
      <3> QED BY <3>1 DEF Polls, Holds, Marked
    <2>3. CASE PollMark(c) /\ job[c].sess \notin refreshed
      <3>1. /\ \A d \in Client \ {c} : pc'[d] = pc[d]
            /\ refreshed' = refreshed \cup {job[c].sess}
            /\ UNCHANGED <<job, fetched>>
        BY <2>3 DEF PollMark
      <3>2. fetched[job[c].sess] = 0
        BY <2>3 DEF Polls, Marked
      <3>3. \A d \in Client : Holds(d) => job[d].sess # job[c].sess
        BY <2>3 DEF Polls
      <3> QED BY <3>1, <3>2, <3>3 DEF Polls, Holds, Marked
    <2>4. CASE PollFetch(c)
      <3>1. Holds(c)
        BY <2>4 DEF PollFetch, Holds
      <3>2. job[c].sess \in refreshed /\ fetched[job[c].sess] = 0
        BY <3>1 DEF Polls
      <3>3. \A d \in Client \ {c} : Holds(d) => job[d].sess # job[c].sess
        BY <3>1 DEF Polls
      <3>4. /\ \A d \in Client \ {c} : pc'[d] = pc[d]
            /\ UNCHANGED <<job, refreshed>>
            /\ \/ pc'[c] = "idle" /\ fetched' = [fetched EXCEPT ![job[c].sess] = 1]
               \/ pc'[c] = "poll.unmark" /\ UNCHANGED fetched
        BY <2>4, <3>2 DEF PollFetch
      <3> QED BY <3>1, <3>2, <3>3, <3>4 DEF Polls, Holds, Marked
    <2>5. CASE PollUnmark(c)
      <3>1. Holds(c)
        BY <2>5 DEF PollUnmark, Holds
      <3>2. fetched[job[c].sess] = 0
        BY <3>1 DEF Polls
      <3>3. \A d \in Client \ {c} : Holds(d) => job[d].sess # job[c].sess
        BY <3>1 DEF Polls
      <3>4. /\ \A d \in Client \ {c} : pc'[d] = pc[d]
            /\ pc'[c] = "idle"
            /\ refreshed' = refreshed \ {job[c].sess}
            /\ UNCHANGED <<job, fetched>>
        BY <2>5 DEF PollUnmark
      <3> QED BY <3>2, <3>3, <3>4 DEF Polls, Holds, Marked
    <2> QED BY <1>3, <2>1, <2>2, <2>3, <2>4, <2>5 DEF ClientStep
  <1>4. CASE Restart
    BY <1>4 DEF Restart, Polls, Holds, Marked
  <1> QED BY <1>1, <1>2, <1>3, <1>4 DEF Next

(* A running child changes hands from the starting request to loginCancels *)
(* and from there to the one cancel request that took the entry.           *)
LEMMA OwnerStep ==
    ASSUME TypeOK, \A s \in Session : Flow(s), Owned, Next
    PROVE  Owned'
  <1> USE DEF TypeOK, FinGo, Go
  <1>1. ASSUME NEW s \in Session, Spawn(s) \/ Finisher(s)
        PROVE  Owned'
    <2>1. CASE Spawn(s)
      BY <2>1 DEF Spawn, Owned
    <2>2. CASE Started(s) \/ Register(s)
      BY <2>2 DEF Started, Register, Owned
    <2>3. CASE StartFails(s)
      BY <2>3 DEF StartFails, Killed, Owned
    <2>4. CASE Create(s)
      BY <2>4 DEF Create, Killed, Owned
    <2>5. CASE FinDone(s)
      BY <2>5 DEF FinDone, Owned
    <2>6. CASE FinRead(s) \/ FinFail(s) \/ FinWrite(s) \/ FinAdd(s) \/ FinSucceed(s)
      <3>1. /\ fin[s] \in {"read", "fail", "write", "add", "succeed"}
            /\ \A u \in Session \ {s} : fin'[u] = fin[u]
            /\ UNCHANGED <<child, cancels, pc, job>>
        BY <2>6 DEF FinRead, FinFail, FinUpdate, FinWrite, FinAdd, FinSucceed
      <3> QED BY <3>1 DEF Owned
    <2> QED BY <1>1, <2>1, <2>2, <2>3, <2>4, <2>5, <2>6 DEF Finisher, Settle
  <1>2. ASSUME NEW c \in Client, ClientStep(c) PROVE Owned'
    <2>1. CASE CancelTake(c)
      BY <2>1 DEF CancelTake, Owned
    <2>2. CASE CancelKill(c)
      <3>1. /\ child'[job[c].sess] # "running"
            /\ \A u \in Session \ {job[c].sess} : child'[u] = child[u]
            /\ \A d \in Client \ {c} : pc'[d] = pc[d]
            /\ UNCHANGED <<fin, cancels, job>>
        BY <2>2 DEF CancelKill, Killed
      <3> QED BY <3>1 DEF Owned
    <2>3. CASE CancelWrite(c) \/ PollMark(c) \/ PollFetch(c) \/ PollUnmark(c)
      <3>1. /\ pc[c] # "cancel.kill"
            /\ \A d \in Client \ {c} : pc'[d] = pc[d] /\ job'[d] = job[d]
            /\ UNCHANGED <<fin, child, cancels>>
        BY <2>3 DEF CancelWrite, PollMark, PollFetch, PollUnmark
      <3> QED BY <3>1 DEF Owned
    <2> QED BY <1>2, <2>1, <2>2, <2>3 DEF ClientStep
  <1>3. ASSUME NEW c \in Client, NEW s \in Session, CancelRead(c, s) \/ PollRead(c, s)
        PROVE  Owned'
    <2>1. /\ pc[c] # "cancel.kill"
          /\ \A d \in Client \ {c} : pc'[d] = pc[d] /\ job'[d] = job[d]
          /\ UNCHANGED <<fin, child, cancels>>
      BY <1>3 DEF CancelRead, PollRead
    <2> QED BY <2>1 DEF Owned
  <1>4. ASSUME NEW s \in Session, ChildExit(s) \/ Expire(s) \/ DeleteAccount(s)
        PROVE  Owned'
    BY <1>4 DEF ChildExit, Expire, DeleteAccount, Owned
  <1>5. CASE Restart
    <2> SUFFICES ASSUME NEW s \in Session, child'[s] = "running"
                 PROVE  fin'[s] = "lost"
      BY DEF Owned
    <2>1. child[s] = "running"
      BY <1>5 DEF Restart
    <2>2. fin[s] \notin {"none", "done"}
      BY <2>1 DEF Flow
    <2> QED BY <1>5, <2>1, <2>2 DEF Restart
  <1> QED BY <1>1, <1>2, <1>3, <1>4, <1>5 DEF Next

-----------------------------------------------------------------------------
(* The inductive invariant holds of every reachable state, whatever        *)
(* requests race, whichever writes fail, and wherever the process dies.    *)
THEOREM LoginInvariant == Spec => []LInv
  <1>1. LInv /\ [Next]_vars => LInv'
    <2> SUFFICES ASSUME LInv, [Next]_vars PROVE LInv'
      OBVIOUS
    <2>1. CASE Next
      <3>1. TypeOK'
        BY <2>1, FinisherType, ClientType, WorldType DEF Next, LInv
      <3>2. \A s \in Session : Flow(s)'
        BY <2>1, FlowStep DEF LInv
      <3>3. Polls'
        BY <2>1, PollsStep DEF LInv
      <3>4. Owned'
        BY <2>1, OwnerStep DEF LInv
      <3> QED BY <3>1, <3>2, <3>3, <3>4 DEF LInv
    <2>2. CASE UNCHANGED vars
      BY <2>2 DEF vars, LInv, TypeOK, Flow, Polls, Holds, Marked, Owned
    <2> QED BY <2>1, <2>2
  <1> QED BY <1>1, InitInv, PTL DEF Spec

(* Every variable keeps its type: no status but those of the login_sessions*)
(* table is ever stored.                                                   *)
THEOREM LoginTypes == Spec => []TypeOK
  <1>1. LInv => TypeOK
    BY DEF LInv
  <1> QED BY <1>1, LoginInvariant, PTL

(* A session that says succeeded has added an account and names it.        *)
THEOREM SuccessMeansAccount == Spec => []SucceededHasAccount
  <1>1. LInv => SucceededHasAccount
    BY DEF LInv, Flow, SucceededHasAccount
  <1> QED BY <1>1, LoginInvariant, PTL

(* Accounts come only from logins whose child has ended well.              *)
THEOREM AccountMeansApproval == Spec => []AccountNeedsApproval
  <1>1. LInv => AccountNeedsApproval
    BY DEF LInv, Flow, AccountNeedsApproval
  <1> QED BY <1>1, LoginInvariant, PTL

(* A successful login refreshes usage at most once per run of the server.  *)
THEOREM FetchedOnce == Spec => []UsageFetchedOnce
  <1>1. LInv => UsageFetchedOnce
    BY DEF LInv, Polls, Marked, UsageFetchedOnce
  <1> QED BY <1>1, LoginInvariant, PTL

(* A running child can be ended by somebody unless its session has expired *)
(* or couswee was restarted: no step of another request or of the goroutine*)
(* takes it out of reach.                                                  *)
THEOREM ChildOwned == Spec => []ChildHasOwner
  <1>1. LInv => ChildHasOwner
    <2> SUFFICES ASSUME LInv, NEW s \in Session, child[s] = "running"
                 PROVE  \/ fin[s] \in {"start", "register", "create", "lost"}
                        \/ \E c \in Client : pc[c] = "cancel.kill" /\ job[c].sess = s
                        \/ /\ fin[s] = "wait"
                           /\ (Cancellable(s) /\ s \in cancels) \/ Seen(s) = "expired"
      BY DEF ChildHasOwner
    <2>1. fin[s] \in {"start", "register", "create", "wait", "lost"}
      BY DEF LInv, TypeOK, Flow
    <2>2. ASSUME fin[s] = "wait" PROVE Cancellable(s) \/ Seen(s) = "expired"
      <3>1. row[s].status \notin {"none", "succeeded", "failed"}
        BY <2>2 DEF LInv, Flow
      <3> QED BY <3>1 DEF Cancellable, Seen
    <2>3. \/ fin[s] \in {"start", "register", "lost"}
          \/ s \in cancels
          \/ \E c \in Client : pc[c] = "cancel.kill" /\ job[c].sess = s
      BY DEF LInv, Owned
    <2> QED BY <2>1, <2>2, <2>3
  <1> QED BY <1>1, LoginInvariant, PTL
=============================================================================
