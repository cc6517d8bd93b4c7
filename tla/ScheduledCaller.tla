--------------------------- MODULE ScheduledCaller ---------------------------
(***************************************************************************)
(* ScheduledCaller: a worker thread that sleeps until the next scheduled   *)
(* time on a condition variable and then calls a function, and the thread  *)
(* that owns the object, which starts it, stops it, asks for an early call *)
(* or calls the function itself.                                           *)
(*                                                                         *)
(* The function runs under _mutex, and may ask its own caller to stop or   *)
(* to call again early.  When the scheduled time comes is left open: here  *)
(* it is a timeout that may fire whenever the worker sleeps.  Module       *)
(* Schedule has the arithmetic of that time.                               *)
(***************************************************************************)
EXTENDS Naturals

CONSTANT MaxOps        \* bound: operations the owner performs

ASSUME MaxOpsAssumption == MaxOps \in Nat

VARIABLES
    running,           \* _is_running
    stop,              \* the stop token of _thread
    mutex,             \* the owner of _mutex: "none", "worker" or "owner"
    early,             \* _optional_call_time: "none", or a request that was made while
                       \* the worker was in a wait ("late") or was not ("timely")
    armed,             \* what the worker's last wait is for: "schedule" or "early"
    wpc,               \* where the worker is
    opc,               \* where the owner is
    ops                \* operations the owner performed

vars == <<running, stop, mutex, early, armed, wpc, opc, ops>>

Init ==
    /\ running = FALSE
    /\ stop = FALSE
    /\ mutex = "none"
    /\ early = "none"
    /\ armed = "schedule"
    /\ wpc = "none"
    /\ opc = "idle"
    /\ ops = 0

-----------------------------------------------------------------------------
(* The worker.                                                             *)

(* From the choice of the timeout to the reset of the request the worker   *)
(* is in its wait.                                                         *)
InWait == wpc \in {"check", "block", "sleep", "woken", "expired", "due"}

(* Request_call_early, by whoever makes it: the request is stored, and     *)
(* nobody is notified.                                                     *)
AskEarly == early' = IF InWait THEN "late" ELSE "timely"

(* Stop_after_call: a request to the thread that there is.                 *)
AskStop == stop' = (IF wpc # "none" THEN TRUE ELSE stop)

(* The head of the loop: lock, set the time to now, choose the timeout.    *)
Worker_arm ==
    /\ wpc = "lock"
    /\ mutex = "none"
    /\ mutex' = "worker"
    /\ armed' = IF early = "none" THEN "schedule" ELSE "early"
    /\ wpc' = "check"
    /\ UNCHANGED <<running, stop, early, opc, ops>>

(* wait_for looks at the predicate before it blocks, under the mutex.      *)
Worker_check ==
    /\ wpc = "check"
    /\ wpc' = IF stop THEN "exit" ELSE "block"
    /\ mutex' = IF stop THEN "none" ELSE mutex
    /\ UNCHANGED <<running, stop, early, armed, opc, ops>>

(* It blocks and gives the mutex back in one step.                         *)
Worker_block ==
    /\ wpc = "block"
    /\ wpc' = "sleep"
    /\ mutex' = "none"
    /\ UNCHANGED <<running, stop, early, armed, opc, ops>>

(* The time has come.                                                      *)
Worker_timeout ==
    /\ wpc = "sleep"
    /\ wpc' = "expired"
    /\ UNCHANGED <<running, stop, mutex, early, armed, opc, ops>>

(* A condition variable may wake up for no reason.                         *)
Worker_spurious ==
    /\ wpc = "sleep"
    /\ wpc' = "woken"
    /\ UNCHANGED <<running, stop, mutex, early, armed, opc, ops>>

(* Woken before the time: the mutex is taken and the predicate looked at.  *)
Worker_woken ==
    /\ wpc = "woken"
    /\ mutex = "none"
    /\ mutex' = "worker"
    /\ wpc' = "check"
    /\ UNCHANGED <<running, stop, early, armed, opc, ops>>

(* Mutant: the result of wait_for is not looked at.                        *)
Worker_expired_unchecked ==
    /\ wpc = "expired"
    /\ mutex = "none"
    /\ mutex' = "worker"
    /\ wpc' = "due"
    /\ UNCHANGED <<running, stop, early, armed, opc, ops>>

(* The time has come: with the mutex taken again, the last look at the     *)
(* predicate tells whether to stop.                                        *)
Worker_expired ==
    /\ wpc = "expired"
    /\ mutex = "none"
    /\ IF stop
       THEN wpc' = "exit" /\ UNCHANGED mutex
       ELSE wpc' = "due" /\ mutex' = "worker"
    /\ UNCHANGED <<running, stop, early, armed, opc, ops>>

(* The request is reset and the function called, whatever has been asked   *)
(* of the thread since that look: request_stop takes no mutex.             *)
Worker_call ==
    /\ wpc = "due"
    /\ early' = "none"
    /\ wpc' = "call"
    /\ UNCHANGED <<running, stop, mutex, armed, opc, ops>>

(* The function may call Stop_after_call or Request_call_early.            *)
Worker_func_asks ==
    /\ wpc = "call"
    /\ \/ AskStop /\ UNCHANGED early
       \/ AskEarly /\ UNCHANGED stop
    /\ UNCHANGED <<running, mutex, armed, wpc, opc, ops>>

(* Mutant: the request for an early call is reset after the call.          *)
Worker_return_resets ==
    /\ wpc = "call"
    /\ early' = "none"
    /\ wpc' = "lock"
    /\ mutex' = "none"
    /\ UNCHANGED <<running, stop, armed, opc, ops>>

(* The function returns; the lock goes with the round of the loop.         *)
Worker_return ==
    /\ wpc = "call"
    /\ wpc' = "lock"
    /\ mutex' = "none"
    /\ UNCHANGED <<running, stop, early, armed, opc, ops>>

-----------------------------------------------------------------------------
(* The owner.                                                              *)

Begin == opc = "idle" /\ ops < MaxOps /\ ops' = ops + 1

(* Start: nothing if Is_running, else a thread with a new stop token.      *)
Start ==
    /\ Begin
    /\ IF running
       THEN UNCHANGED <<running, stop, wpc>>
       ELSE running' = TRUE /\ stop' = FALSE /\ wpc' = "lock"
    /\ UNCHANGED <<mutex, early, armed, opc>>

(* Mutant: the stop is not requested, the worker only woken up.            *)
Stop_request_forgotten ==
    /\ Begin
    /\ opc' = "notify"
    /\ UNCHANGED <<running, stop, mutex, early, armed, wpc>>

(* Stop: request_stop ...                                                  *)
Stop_request ==
    /\ Begin
    /\ AskStop
    /\ opc' = "notify"
    /\ UNCHANGED <<running, mutex, early, armed, wpc>>

(* ... notify_all, which only a worker that is blocked already can hear ... *)
Stop_notify ==
    /\ opc = "notify"
    /\ wpc' = IF wpc = "sleep" THEN "woken" ELSE wpc
    /\ opc' = "join"
    /\ UNCHANGED <<running, stop, mutex, early, armed, ops>>

(* Mutant: Stop does not wait for the worker.                              *)
Stop_join_detached ==
    /\ opc = "join"
    /\ running' = FALSE
    /\ opc' = "idle"
    /\ UNCHANGED <<stop, mutex, early, armed, wpc, ops>>

(* ... and join.                                                           *)
Stop_join ==
    /\ opc = "join"
    /\ wpc \in {"none", "exit"}
    /\ wpc' = "none"
    /\ running' = FALSE
    /\ opc' = "idle"
    /\ UNCHANGED <<stop, mutex, early, armed, ops>>

Stop_after_call ==
    /\ Begin
    /\ AskStop
    /\ UNCHANGED <<running, mutex, early, armed, wpc, opc>>

Request_call_early ==
    /\ Begin
    /\ AskEarly
    /\ UNCHANGED <<running, stop, mutex, armed, wpc, opc>>

(* Mutant: the function is called without the mutex.                       *)
Call_immediately_unlocked ==
    /\ Begin
    /\ opc' = "call"
    /\ UNCHANGED <<running, stop, mutex, early, armed, wpc>>

(* Call_immediately: the function on the owner's thread, under the mutex,  *)
(* which a worker that is blocked in its wait does not hold.               *)
Call_immediately ==
    /\ Begin
    /\ mutex = "none"
    /\ mutex' = "owner"
    /\ opc' = "call"
    /\ UNCHANGED <<running, stop, early, armed, wpc>>

(* The same function: it may ask for the same things here.                 *)
Call_immediately_asks ==
    /\ opc = "call"
    /\ \/ AskStop /\ UNCHANGED early
       \/ AskEarly /\ UNCHANGED stop
    /\ UNCHANGED <<running, mutex, armed, wpc, opc, ops>>

Call_immediately_done ==
    /\ opc = "call"
    /\ mutex' = "none"
    /\ opc' = "idle"
    /\ UNCHANGED <<running, stop, early, armed, wpc, ops>>

-----------------------------------------------------------------------------

WorkerStep ==
    \/ Worker_arm \/ Worker_check \/ Worker_block \/ Worker_woken
    \/ Worker_expired \/ Worker_call \/ Worker_return

OwnerBegins ==
    \/ Start \/ Stop_request \/ Stop_after_call \/ Request_call_early \/ Call_immediately

OwnerContinues == Stop_notify \/ Stop_join \/ Call_immediately_done

(* The owner has nothing left to do and there is no worker to run.         *)
Terminated ==
    /\ opc = "idle" /\ ops = MaxOps
    /\ wpc \in {"none", "exit"}
    /\ UNCHANGED vars

Next ==
    \/ WorkerStep \/ Worker_timeout \/ Worker_spurious \/ Worker_func_asks
    \/ OwnerBegins \/ OwnerContinues \/ Call_immediately_asks
    \/ Terminated

Spec == Init /\ [][Next]_vars

(* Both threads run when they can; the scheduled time may be a day away.   *)
PromptSpec == Spec /\ WF_vars(WorkerStep) /\ WF_vars(OwnerContinues)

(* Both threads run when they can, and the scheduled time comes.           *)
FairSpec == PromptSpec /\ WF_vars(Worker_timeout)

-----------------------------------------------------------------------------
(* Properties.                                                             *)

(* The variables have their types.                                         *)
TypeOK ==
    /\ running \in BOOLEAN /\ stop \in BOOLEAN
    /\ mutex \in {"none", "worker", "owner"}
    /\ early \in {"none", "timely", "late"}
    /\ armed \in {"schedule", "early"}
    /\ wpc \in {"none", "lock", "check", "block", "sleep", "woken", "expired", "due", "call", "exit"}
    /\ opc \in {"idle", "notify", "join", "call"}
    /\ ops \in Nat

(* The function never runs on the worker and on the owner at once: what it *)
(* works on needs no lock of its own.                                      *)
FuncExclusive == ~(wpc = "call" /\ opc = "call")

(* When Is_running is false there is no worker: Start may assign _thread,  *)
(* and the object may be destroyed.                                        *)
StoppedMeansGone == ~running => wpc = "none"

(* A request for an early call that is made while the worker is not in a   *)
(* wait, by the function on whichever thread it runs or by the owner, is   *)
(* forgotten only at the end of a wait for it: it is not lost, nor put off *)
(* to the schedule.                                                        *)
TimelyRequestHonoured ==
    [][(early = "timely" /\ early' = "none") => (wpc = "due" /\ armed = "early")]_vars

(* Once Stop has made its request the worker does not decide on a call:    *)
(* one that goes on, or one for which the predicate was looked at before,  *)
(* is the last.                                                            *)
NoFurtherCall ==
    [][(opc \in {"notify", "join"} /\ wpc \notin {"due", "call"}) => wpc' \notin {"due", "call"}]_vars

(* Stop returns.                                                           *)
StopReturns == opc \in {"notify", "join"} ~> opc = "idle"

(* Stop returns without waiting for the scheduled time: the condition      *)
(* variable "allows for early wakeup in case we need to stop".             *)
StopIsPrompt == opc \in {"notify", "join"} ~> opc = "idle"

=============================================================================
