---------------------------- MODULE LoginRunner ----------------------------
(***************************************************************************)
(* CodexLoginRunner.Start: the child's output is read line by line by one  *)
(* goroutine, the child waited for by another, and the request waits for   *)
(* whichever of the URL and user code, a read error, the exit of the child *)
(* and a timer comes first.  Composed with LoginSession, whose start and   *)
(* whose receipt of the exit status it refines.                            *)
(*                                                                         *)
(* Channels ready, parseErr and done have room for one value, and done is  *)
(* closed after its value, so that no sender waits for a receiver.         *)
(***************************************************************************)
EXTENDS LoginSession

VARIABLE run    \* of every session: what its two goroutines and channels hold

rvars == <<vars, run>>

Details == 2    \* lines the child prints: the verification URL and the code

(* read <= printed: lines read and printed; where the scanner ("none",     *)
(* "scan", "send", "drain", "end") and the waiter ("none", "wait", "send", *)
(* "close", "end") are; the channels, done being "empty", with its "value" *)
(* or "taken"; got: what finishCodexLogin received.                        *)
NoRun == [printed |-> 0, read |-> 0, scanner |-> "none", waiter |-> "none",
          ready |-> FALSE, parseErr |-> FALSE, done |-> "empty", timer |-> FALSE,
          got |-> "nothing"]

RunnerInit == Init /\ run = [s \in Session |-> NoRun]

-----------------------------------------------------------------------------
Runs(s) ==
    /\ Spawn(s)
    /\ run' = [run EXCEPT ![s].scanner = "scan", ![s].waiter = "wait"]

(* The child prints a line.                                                *)
PrintLine(s) ==
    /\ child[s] = "running"
    /\ run[s].printed < Details
    /\ run' = [run EXCEPT ![s].printed = @ + 1]
    /\ UNCHANGED vars

(* The reader.  cmd.Wait closes its end of the pipe; what was not read by  *)
(* then is lost, and reading fails.                                        *)
Scan(s) ==
    /\ run[s].scanner = "scan" /\ run[s].waiter = "wait"
    /\ run[s].read < run[s].printed
    /\ run' = [run EXCEPT ![s].read = @ + 1,
                          ![s].scanner = IF run[s].read + 1 = Details THEN "send" ELSE "scan"]
    /\ UNCHANGED vars

(* Definitions named Wrong... are plausible mistakes, as in LoginSession.  *)
WrongSendReady(s) ==
    /\ run[s].scanner = "send" /\ fin[s] = "start"
    /\ run' = [run EXCEPT ![s].ready = TRUE, ![s].scanner = "drain"]
    /\ UNCHANGED vars

SendReady(s) ==
    /\ run[s].scanner = "send"
    /\ run' = [run EXCEPT ![s].ready = TRUE, ![s].scanner = "drain"]
    /\ UNCHANGED vars

ScanEnds(s) ==
    /\ \/ run[s].waiter # "wait"
          /\ run[s].scanner \in {"scan", "drain"}
          /\ run' = [run EXCEPT ![s].scanner = "end", ![s].parseErr = TRUE]
       \/ run[s].waiter = "wait" /\ child[s] # "running"
          /\ \/ run[s].scanner = "scan" /\ run[s].read = run[s].printed
             \/ run[s].scanner = "drain"
          /\ run' = [run EXCEPT ![s].scanner = "end",
                                ![s].parseErr = run[s].scanner = "scan"]
    /\ UNCHANGED vars

(* The goroutine that waits for the child.                                 *)
Wait(s) ==
    /\ run[s].waiter = "wait" /\ child[s] # "running"
    /\ run' = [run EXCEPT ![s].waiter = "send"]
    /\ UNCHANGED vars

WrongSendDone(s) ==
    /\ run[s].waiter = "send"
    /\ run' = [run EXCEPT ![s].waiter = "close"]
    /\ UNCHANGED vars

SendDone(s) ==
    /\ run[s].waiter = "send"
    /\ run' = [run EXCEPT ![s].waiter = "close", ![s].done = "value"]
    /\ UNCHANGED vars

CloseDone(s) ==
    /\ run[s].waiter = "close"
    /\ run' = [run EXCEPT ![s].waiter = "end"]
    /\ UNCHANGED vars

TimerFires(s) ==
    /\ fin[s] = "start" /\ ~run[s].timer
    /\ run' = [run EXCEPT ![s].timer = TRUE]
    /\ UNCHANGED vars

(* The select: any of the cases that can be taken.                         *)
StartReady(s) ==
    /\ run[s].ready
    /\ Started(s)
    /\ run' = [run EXCEPT ![s].ready = FALSE]

WrongStartGivesUp(s) ==
    /\ run[s].parseErr \/ run[s].done = "value"
    /\ StartFails(s)
    /\ run' = [run EXCEPT ![s].done = IF @ = "value" THEN "taken" ELSE @]

StartGivesUp(s) ==
    /\ StartFails(s)
    /\ \/ (run[s].parseErr \/ run[s].timer) /\ UNCHANGED run
       \/ run[s].done = "value" /\ run' = [run EXCEPT ![s].done = "taken"]

(* finishCodexLogin receives from done: the exit status, or, from a closed *)
(* channel that is empty, nil.                                             *)
Receive(s) ==
    /\ FinDone(s)
    /\ \/ run[s].done = "value"
          /\ run' = [run EXCEPT ![s].done = "taken", ![s].got = "exit"]
       \/ run[s].done # "value" /\ run[s].waiter = "end"
          /\ run' = [run EXCEPT ![s].got = "closed"]

RunnerRestart ==
    /\ Restart
    /\ run' = [s \in Session |-> [NoRun EXCEPT !.printed = run[s].printed]]

Goroutine(s) ==
    \/ Scan(s) \/ SendReady(s) \/ ScanEnds(s)
    \/ Wait(s) \/ SendDone(s) \/ CloseDone(s) \/ TimerFires(s)

Request(s) ==
    \/ StartReady(s) \/ StartGivesUp(s) \/ Receive(s)
    \/ Settle(s) /\ UNCHANGED run

RunnerNext ==
    \/ \E s \in Session : Runs(s) \/ PrintLine(s) \/ Goroutine(s) \/ Request(s)
    \/ /\ UNCHANGED run
       /\ \/ \E s \in Session : ChildExit(s) \/ Expire(s) \/ DeleteAccount(s)
          \/ \E c \in Client, s \in Session : CancelRead(c, s) \/ PollRead(c, s)
          \/ \E c \in Client : ClientStep(c)
    \/ RunnerRestart

RunnerSpec == RunnerInit /\ [][RunnerNext]_rvars

(* Each goroutine that can run does, the timer fires; the child may hang.  *)
RunnerFairness ==
    /\ \A s \in Session :
         /\ WF_rvars(Scan(s) \/ SendReady(s) \/ ScanEnds(s))
         /\ WF_rvars(Wait(s) \/ SendDone(s) \/ CloseDone(s))
         /\ WF_rvars(TimerFires(s)) /\ WF_rvars(Request(s))
    /\ \A c \in Client : WF_rvars(ClientStep(c) /\ UNCHANGED run)

RunnerFairSpec == RunnerSpec /\ RunnerFairness

-----------------------------------------------------------------------------
(* finishCodexLogin gets the exit status of the child: the select of Start *)
(* and the finisher never share the one value, and a closed channel is not *)
(* taken for success.                                                      *)
ExitDelivered ==
    \A s \in Session : fin[s] \in {"read", "write", "add", "succeed"} => run[s].got = "exit"

(* Start comes back even when the child prints nothing and never ends.     *)
StartReturns == \A s \in Session : fin[s] = "start" ~> fin[s] # "start"

(* When the child has ended both goroutines end, also when the request has *)
(* given up and nobody receives from their channels.                       *)
GoroutinesEnd ==
    \A s \in Session :
        run[s].scanner # "none" /\ child[s] # "running"
            ~> run[s].scanner \in {"none", "end"} /\ run[s].waiter \in {"none", "end"}
=============================================================================
