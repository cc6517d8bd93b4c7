------------------------------- MODULE Logger -------------------------------
(***************************************************************************)
(* The global logger (MessirLogger::Logger, the instance __logger): the    *)
(* record queue, the recursive mutex, the semaphore, the logging thread,   *)
(* the maintenance thread, and the calls application threads make:         *)
(* Log_entry, Start, Stop (also the destructor) and Reconfigure.           *)
(*                                                                         *)
(* Every step is one the threads can be preempted between: taking a lock,  *)
(* the body of a critical section, a join, the write of one record.  Which *)
(* targets a record goes to, and what a target does with it, is left to    *)
(* the modules Dispatch and FileTarget: here a record is `written' when    *)
(* Logger::Write_log has run for it.                                       *)
(***************************************************************************)
EXTENDS Naturals, Sequences

CONSTANTS Clients,        \* the application threads
          Maint,          \* the maintenance thread
          None,           \* the owner of a free mutex
          Record,         \* the values a log record can have
          TargetsLog,     \* whether a target logs when it is set up or rotated (file targets do)
          MaxCalls,       \* bound: calls the application threads make
          MaxRotations,   \* bound: rotations that log
          MaxRecords      \* bound: the records Delivery is checked for

ASSUME ThreadsAssumption == None \notin Clients \cup {Maint} /\ Maint \notin Clients
ASSUME TargetsLogAssumption == TargetsLog \in BOOLEAN
ASSUME BoundsAssumption == MaxCalls \in Nat /\ MaxRotations \in Nat /\ MaxRecords \in Nat

Threads == Clients \cup {Maint}

VARIABLES
    async,        \* _asynchronous_mode
    mutex,        \* the owner of _logger_mutex
    queue,        \* _log_records
    sem,          \* the count of _logging_smph
    lpc, lstop,   \* _logging_thread: where it is, its stop token
    batch,        \* tmp_records of Process_logs on the logging thread
    mstop,        \* the stop token of _maintenance_thread
    flush,        \* tmp_records of Process_logs on the thread that runs Stop
    pc,           \* where each application thread and the maintenance thread are
    call,         \* the call an application thread is in
    ret,          \* where a thread continues after Log_entry has the record
    calls,        \* calls made so far
    rotations,    \* rotations that logged
    accepted,     \* history: records taken in, in the order Log_entry got the mutex
    written       \* history: records Write_log has handed to the targets

threadVars == <<lpc, lstop, batch, mstop, flush>>
callVars   == <<call, calls, rotations>>
vars == <<async, mutex, queue, sem, threadVars, pc, callVars, ret, accepted, written>>

LoggingPcs == {"none", "check", "wait", "empty", "try", "write", "exit"}

LockedPcs == {"log_body", "unlock", "start_init", "start_threads", "info",
              "stop_lt", "join_lt", "stop_mt", "join_mt", "flush", "flush_write",
              "configure"}
ClientPcs == LockedPcs \cup {"idle", "lock"}
MaintPcs  == {"none", "check", "maintain", "lock", "log_body", "unlock", "sleep", "exit"}

Init ==
    /\ async \in BOOLEAN              \* Configure ran before the first Start
    /\ mutex = None
    /\ queue = <<>>
    /\ sem = 0
    /\ lpc = "none" /\ lstop = FALSE /\ batch = <<>>
    /\ mstop = FALSE
    /\ flush = <<>>
    /\ pc = [t \in Threads |-> IF t = Maint THEN "none" ELSE "idle"]
    /\ call = [c \in Clients |-> "none"]
    /\ ret = [t \in Threads |-> "unlock"]
    /\ calls = 0
    /\ rotations = 0
    /\ accepted = <<>>
    /\ written = <<>>

-----------------------------------------------------------------------------
(* Helpers.                                                                *)

Goto(t, label) == pc' = [pc EXCEPT ![t] = label]

(* Log_entry takes a record in on thread t, which owns the mutex, and goes *)
(* on at label `next' once the record is queued or written.                *)
TakeIn(t, next) ==
    /\ \E r \in Record : accepted' = Append(accepted, r)
    /\ ret' = [ret EXCEPT ![t] = next]
    /\ Goto(t, "log_body")

(* The record Log_entry holds between taking the mutex and queueing or     *)
(* writing it.                                                             *)
InHand == IF mutex # None /\ pc[mutex] = "log_body"
          THEN <<accepted[Len(accepted)]>> ELSE <<>>

-----------------------------------------------------------------------------
(* Log_entry, on an application thread, on the maintenance thread, and     *)
(* nested in Start and Reconfigure.                                        *)

(* Application threads enter the logger.                                   *)
Call(c) ==
    /\ pc[c] = "idle"
    /\ calls < MaxCalls
    /\ calls' = calls + 1
    /\ \E op \in {"log", "start", "stop", "reconfigure"} : call' = [call EXCEPT ![c] = op]
    /\ Goto(c, "lock")
    /\ UNCHANGED <<async, mutex, queue, sem, threadVars, rotations, ret, accepted, written>>

(* std::unique_lock<std::recursive_mutex> at the head of each call.        *)
Lock(t) ==
    /\ pc[t] = "lock"
    /\ mutex = None
    /\ mutex' = t
    /\ LET op == IF t = Maint THEN "log" ELSE call[t]
       IN  \/ op = "log" /\ TakeIn(t, "unlock")
           \/ op = "start" /\ Goto(t, "start_init") /\ UNCHANGED <<ret, accepted>>
           \/ op \in {"stop", "reconfigure"} /\ Goto(t, "stop_lt") /\ UNCHANGED <<ret, accepted>>
    /\ UNCHANGED <<async, queue, sem, threadVars, callVars, written>>

(* Asynchronous mode: emplace_back, then release of the semaphore.  When   *)
(* its count is 1 already the release breaks its precondition: the count   *)
(* grows in one library and stays at 1 in the other.                       *)
Log_queue(t) ==
    /\ pc[t] = "log_body"
    /\ async
    /\ queue' = Append(queue, accepted[Len(accepted)])
    /\ sem' \in {1, sem + 1}
    /\ Goto(t, ret[t])
    /\ UNCHANGED <<async, mutex, threadVars, callVars, ret, accepted, written>>

(* Synchronous mode: Write_log under the mutex.                            *)
Log_write(t) ==
    /\ pc[t] = "log_body"
    /\ ~async
    /\ written' = Append(written, accepted[Len(accepted)])
    /\ Goto(t, ret[t])
    /\ UNCHANGED <<async, mutex, queue, sem, threadVars, callVars, ret, accepted>>

Unlock(t) ==
    /\ pc[t] = "unlock"
    /\ mutex' = None
    /\ Goto(t, IF t = Maint THEN "sleep" ELSE "idle")
    /\ UNCHANGED <<async, queue, sem, threadVars, callVars, ret, accepted, written>>

-----------------------------------------------------------------------------
(* Start: Initialize, then the threads that are not there yet.             *)

(* Initialize sets the targets up; a file target logs while it does.       *)
Start_init(c) ==
    /\ pc[c] = "start_init"
    /\ IF TargetsLog
       THEN TakeIn(c, "start_threads")
       ELSE Goto(c, "start_threads") /\ UNCHANGED <<ret, accepted>>
    /\ UNCHANGED <<async, mutex, queue, sem, threadVars, callVars, written>>

Start_threads(c) ==
    /\ pc[c] = "start_threads"
    /\ LET startLogging == async /\ lpc = "none"
           startMaint   == pc[Maint] = "none"
       IN  /\ lpc' = IF startLogging THEN "check" ELSE lpc
           /\ lstop' = (IF startLogging THEN FALSE ELSE lstop)
           /\ mstop' = (IF startMaint THEN FALSE ELSE mstop)
           /\ pc' = [pc EXCEPT ![c] = IF call[c] = "reconfigure" THEN "info" ELSE "unlock",
                               ![Maint] = IF startMaint THEN "check" ELSE @]
    /\ UNCHANGED <<async, mutex, queue, sem, batch, flush, callVars, ret, accepted, written>>

-----------------------------------------------------------------------------
(* Stop, all of it under the mutex.                                        *)

(* Mutant: the thread is told to stop and not waited for.                  *)
Stop_logging_thread_no_join(c) ==
    /\ pc[c] = "stop_lt"
    /\ lstop' = (IF lpc # "none" THEN TRUE ELSE lstop)
    /\ Goto(c, "stop_mt")
    /\ UNCHANGED <<async, mutex, queue, sem, lpc, batch, mstop, flush, callVars, ret, accepted, written>>

(* Mutant: the thread is waited for and not told to stop.                  *)
Stop_logging_thread_no_request(c) ==
    /\ pc[c] = "stop_lt"
    /\ Goto(c, IF lpc # "none" THEN "join_lt" ELSE "stop_mt")
    /\ UNCHANGED <<async, mutex, queue, sem, threadVars, callVars, ret, accepted, written>>

(* Stop_logging_thread: request_stop if the thread is joinable ...         *)
Stop_logging_thread(c) ==
    /\ pc[c] = "stop_lt"
    /\ lstop' = (IF lpc # "none" THEN TRUE ELSE lstop)
    /\ Goto(c, IF lpc # "none" THEN "join_lt" ELSE "stop_mt")
    /\ UNCHANGED <<async, mutex, queue, sem, lpc, batch, mstop, flush, callVars, ret, accepted, written>>

(* ... and join it.                                                        *)
Join_logging_thread(c) ==
    /\ pc[c] = "join_lt"
    /\ lpc = "exit"
    /\ lpc' = "none"
    /\ Goto(c, "stop_mt")
    /\ UNCHANGED <<async, mutex, queue, sem, lstop, batch, mstop, flush, callVars, ret, accepted, written>>

(* Mutant: the maintenance thread is told to stop and not waited for.      *)
Stop_maintenance_thread_no_join(c) ==
    /\ pc[c] = "stop_mt"
    /\ mstop' = (IF pc[Maint] # "none" THEN TRUE ELSE mstop)
    /\ Goto(c, "flush")
    /\ UNCHANGED <<async, mutex, queue, sem, lpc, lstop, batch, flush, callVars, ret, accepted, written>>

Stop_maintenance_thread(c) ==
    /\ pc[c] = "stop_mt"
    /\ mstop' = (IF pc[Maint] # "none" THEN TRUE ELSE mstop)
    /\ Goto(c, IF pc[Maint] # "none" THEN "join_mt" ELSE "flush")
    /\ UNCHANGED <<async, mutex, queue, sem, lpc, lstop, batch, flush, callVars, ret, accepted, written>>

Join_maintenance_thread(c) ==
    /\ pc[c] = "join_mt"
    /\ pc[Maint] = "exit"
    /\ pc' = [pc EXCEPT ![c] = "flush", ![Maint] = "none"]
    /\ UNCHANGED <<async, mutex, queue, sem, threadVars, callVars, ret, accepted, written>>

(* Mutant: try_lock fails because the mutex is owned already, as it may    *)
(* with a mutex that is not recursive.                                     *)
Flush_lock_fails(c) ==
    /\ pc[c] = "flush"
    /\ Goto(c, "flush_write")
    /\ UNCHANGED <<async, mutex, queue, sem, threadVars, callVars, ret, accepted, written>>

(* Process_logs on the thread that stops the logger: it owns the recursive *)
(* mutex, so try_lock succeeds.                                            *)
Flush(c) ==
    /\ pc[c] = "flush"
    /\ flush' = queue
    /\ queue' = <<>>
    /\ Goto(c, "flush_write")
    /\ UNCHANGED <<async, mutex, sem, lpc, lstop, batch, mstop, callVars, ret, accepted, written>>

Flush_write(c) ==
    /\ pc[c] = "flush_write"
    /\ flush # <<>>
    /\ written' = Append(written, Head(flush))
    /\ flush' = Tail(flush)
    /\ UNCHANGED <<async, mutex, queue, sem, lpc, lstop, batch, mstop, pc, callVars, ret, accepted>>

(* Stop is over: the call ends, or Reconfigure goes on.                    *)
Flush_done(c) ==
    /\ pc[c] = "flush_write"
    /\ flush = <<>>
    /\ Goto(c, IF call[c] = "reconfigure" THEN "configure" ELSE "unlock")
    /\ UNCHANGED <<async, mutex, queue, sem, threadVars, callVars, ret, accepted, written>>

-----------------------------------------------------------------------------
(* Reconfigure: Stop, clear, Configure, Start, MSS_INFO, under the mutex.  *)

Configure(c) ==
    /\ pc[c] = "configure"
    /\ async' \in BOOLEAN
    /\ Goto(c, "start_init")
    /\ UNCHANGED <<mutex, queue, sem, threadVars, callVars, ret, accepted, written>>

Reconfigure_info(c) ==
    /\ pc[c] = "info"
    /\ TakeIn(c, "unlock")
    /\ UNCHANGED <<async, mutex, queue, sem, threadVars, callVars, written>>

-----------------------------------------------------------------------------
(* Logging_thread.                                                         *)

LoggingGoto(label) ==
    /\ lpc' = label
    /\ UNCHANGED <<async, mutex, lstop, mstop, flush, pc, callVars, ret, accepted>>

Logging_check ==
    /\ lpc = "check"
    /\ LoggingGoto(IF lstop THEN "exit" ELSE "wait")
    /\ UNCHANGED <<queue, sem, batch, written>>

(* Mutant: acquire() in the place of try_acquire_for: no timeout.          *)
Logging_timeout_never ==
    /\ FALSE
    /\ LoggingGoto("empty")
    /\ UNCHANGED <<queue, sem, batch, written>>

(* try_acquire_for(2s): a token, or the timeout; the result is not used.   *)
Logging_acquire ==
    /\ lpc = "wait"
    /\ sem > 0
    /\ sem' = sem - 1
    /\ LoggingGoto("empty")
    /\ UNCHANGED <<queue, batch, written>>

Logging_timeout ==
    /\ lpc = "wait"
    /\ sem = 0
    /\ LoggingGoto("empty")
    /\ UNCHANGED <<queue, sem, batch, written>>

(* _log_records.empty() is read without the mutex: while a thread is in    *)
(* Log_entry's critical section either answer can be read.                 *)
EmptyRead == IF mutex # None /\ pc[mutex] = "log_body" THEN BOOLEAN ELSE {queue = <<>>}

Logging_empty ==
    /\ lpc = "empty"
    /\ \E e \in EmptyRead : LoggingGoto(IF e THEN "check" ELSE "try")
    /\ UNCHANGED <<queue, sem, batch, written>>

(* Mutant: the queue is copied and not emptied.                            *)
Logging_swap_copies ==
    /\ lpc = "try"
    /\ mutex = None
    /\ batch' = queue
    /\ LoggingGoto("write")
    /\ UNCHANGED <<queue, sem, written>>

(* try_to_lock: with the mutex, the whole queue is swapped out and the     *)
(* mutex given back at once; without it, the round ends empty-handed.      *)
Logging_swap ==
    /\ lpc = "try"
    /\ mutex = None
    /\ batch' = queue
    /\ queue' = <<>>
    /\ LoggingGoto("write")
    /\ UNCHANGED <<sem, written>>

Logging_lock_failed ==
    /\ lpc = "try"
    /\ mutex # None
    /\ LoggingGoto("check")
    /\ UNCHANGED <<queue, sem, batch, written>>

(* Mutant: the batch is emptied from the back.                             *)
Logging_write_from_back ==
    /\ lpc = "write"
    /\ batch # <<>>
    /\ written' = Append(written, batch[Len(batch)])
    /\ batch' = SubSeq(batch, 1, Len(batch) - 1)
    /\ LoggingGoto("write")
    /\ UNCHANGED <<queue, sem>>

(* Write_log of one record of the batch, outside the mutex.                *)
Logging_write ==
    /\ lpc = "write"
    /\ batch # <<>>
    /\ written' = Append(written, Head(batch))
    /\ batch' = Tail(batch)
    /\ LoggingGoto("write")
    /\ UNCHANGED <<queue, sem>>

Logging_done ==
    /\ lpc = "write"
    /\ batch = <<>>
    /\ LoggingGoto("check")
    /\ UNCHANGED <<queue, sem, batch, written>>

-----------------------------------------------------------------------------
(* Maintenance_thread.                                                     *)

MaintGoto(label) ==
    /\ Goto(Maint, label)
    /\ UNCHANGED <<async, mutex, queue, sem, threadVars, call, calls, ret, accepted, written>>

Maintenance_check ==
    /\ pc[Maint] = "check"
    /\ MaintGoto(IF mstop THEN "exit" ELSE "maintain")
    /\ UNCHANGED rotations

(* Perform_maintenance finds nothing to rotate ...                         *)
Maintenance_quiet ==
    /\ pc[Maint] = "maintain"
    /\ MaintGoto("sleep")
    /\ UNCHANGED rotations

(* ... or rotates a file target, which logs through the global logger.     *)
Maintenance_rotate ==
    /\ pc[Maint] = "maintain"
    /\ TargetsLog
    /\ rotations < MaxRotations
    /\ rotations' = rotations + 1
    /\ MaintGoto("lock")

Maintenance_sleep ==
    /\ pc[Maint] = "sleep"
    /\ MaintGoto("check")
    /\ UNCHANGED rotations

-----------------------------------------------------------------------------

LogStep(t) == Lock(t) \/ Log_queue(t) \/ Log_write(t) \/ Unlock(t)

StartStep(c) == Start_init(c) \/ Start_threads(c)

StopStep(c) ==
    \/ Stop_logging_thread(c) \/ Join_logging_thread(c)
    \/ Stop_maintenance_thread(c) \/ Join_maintenance_thread(c)
    \/ Flush(c) \/ Flush_write(c) \/ Flush_done(c)

ReconfigureStep(c) == Configure(c) \/ Reconfigure_info(c)

(* What a thread does once it is inside a call.                            *)
ThreadStep(t) == LogStep(t) \/ (t \in Clients /\ (StartStep(t) \/ StopStep(t) \/ ReconfigureStep(t)))

LoggingStep ==
    \/ Logging_check \/ Logging_acquire \/ Logging_timeout \/ Logging_empty
    \/ Logging_swap \/ Logging_lock_failed \/ Logging_write \/ Logging_done

MaintenanceStep ==
    Maintenance_check \/ Maintenance_quiet \/ Maintenance_rotate \/ Maintenance_sleep

(* The program is over: no call is left to make and the logger is stopped. *)
Terminated ==
    /\ calls = MaxCalls
    /\ \A c \in Clients : pc[c] = "idle"
    /\ lpc = "none"
    /\ pc[Maint] = "none"
    /\ UNCHANGED vars

Next ==
    \/ \E c \in Clients : Call(c)
    \/ \E t \in Threads : ThreadStep(t)
    \/ LoggingStep
    \/ MaintenanceStep
    \/ Terminated

Spec == Init /\ [][Next]_vars

(* The operating system runs every thread that can run: a thread inside a  *)
(* call, the logging thread, whose wait is bounded by 2 seconds, and the   *)
(* maintenance thread, whose sleep is bounded by 10.  Nobody has to call.  *)
FairSpec ==
    /\ Spec
    /\ \A t \in Threads : WF_vars(ThreadStep(t))
    /\ WF_vars(LoggingStep)
    /\ WF_vars(MaintenanceStep)

-----------------------------------------------------------------------------
(* Properties.                                                             *)

(* Every variable has its type: thread positions are the ones of the code, *)
(* the semaphore never goes below zero, buffers hold records.              *)
TypeOK ==
    /\ async \in BOOLEAN
    /\ mutex \in Threads \cup {None}
    /\ queue \in Seq(Record)
    /\ sem \in Nat
    /\ lpc \in LoggingPcs /\ lstop \in BOOLEAN
    /\ batch \in Seq(Record)
    /\ mstop \in BOOLEAN
    /\ flush \in Seq(Record)
    /\ pc \in [Threads -> ClientPcs \cup MaintPcs]
    /\ \A c \in Clients : pc[c] \in ClientPcs
    /\ pc[Maint] \in MaintPcs
    /\ call \in [Clients -> {"none", "log", "start", "stop", "reconfigure"}]
    /\ ret \in [Threads -> {"unlock", "start_threads"}]
    /\ ret[Maint] = "unlock"
    /\ calls \in Nat /\ rotations \in Nat
    /\ accepted \in Seq(Record)
    /\ written \in Seq(Record)

(* The records between Log_entry and the targets are, oldest first, those  *)
(* Stop is flushing, the logging thread's batch, the queue and the record  *)
(* in hand: none is lost, written twice or overtaken, across batches, the  *)
(* flush of Stop and changes of mode.                                      *)
FifoHandOver == accepted = written \o flush \o batch \o queue \o InHand

(* The logger implements the channel: Log_entry, Process_logs, Stop and    *)
(* Reconfigure together hand each record over once, in order.              *)
Channel == INSTANCE LogChannel WITH delivered <- written
ImplementsChannel == Channel!Spec

(* Stop "flushes the remaining log records": when it gives the mutex back  *)
(* every record taken in before has been written and both threads are      *)
(* gone, whatever the logging thread was doing when Stop was called.       *)
StopFlushes ==
    \A c \in Clients : pc[c] = "unlock" /\ call[c] = "stop" =>
        written = accepted /\ lpc = "none" /\ pc[Maint] = "none"

(* Write_log runs on one thread at a time although the logging thread runs *)
(* it without the mutex: targets have no lock of their own.  This is said  *)
(* of Write_log of the logger: the record that a file target writes when   *)
(* its name changes goes past it (module FileTarget), and so does the one  *)
(* that tells the fallback target of a target that could not be set up.    *)
Writes(t) == pc[t] = "flush_write" \/ (pc[t] = "log_body" /\ ~async)
OneWriter ==
    \A t \in Threads : Writes(t) =>
        lpc # "write" /\ \A s \in Threads \ {t} : ~Writes(s)

(* Reconfigure clears _targets and _dispatch_keys, which both threads read *)
(* without the mutex: when it does, neither thread exists and no record    *)
(* is left that was logged under the old configuration.                    *)
ReconfigureQuiescent ==
    \A c \in Clients :
        pc[c] = "configure" \/ (pc[c] = "start_init" /\ call[c] = "reconfigure") =>
            lpc = "none" /\ pc[Maint] = "none" /\ written = accepted

(* Every call into the logger returns.                                     *)
CallReturns == \A c \in Clients : pc[c] # "idle" ~> pc[c] = "idle"

(* Reconfigure "preemptively stops the logger, and restarts after applying *)
(* the new configuration".                                                 *)
ReconfigureRestarts ==
    \A c \in Clients :
        call[c] = "reconfigure" /\ pc[c] = "stop_lt" ~> pc[c] = "start_threads"

(* Once the logging thread exists, every record taken in is written, though *)
(* tokens can be consumed by rounds that find the queue empty or the mutex  *)
(* taken.                                                                   *)
Delivery ==
    \A n \in 1 .. MaxRecords :
        lpc # "none" /\ Len(accepted) >= n ~> Len(written) >= n

=============================================================================
