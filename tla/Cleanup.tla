------------------------------- MODULE Cleanup -------------------------------
(***************************************************************************)
(* The cleanup worker of a file target: Setup starts a ScheduledCaller     *)
(* that purges old log files at every midnight, and calls it once itself.  *)
(*                                                                         *)
(* Four threads: the owner, which starts and reconfigures the logger and   *)
(* holds _logger_mutex meanwhile; the worker, which holds the caller's     *)
(* _mutex while it purges; the maintenance thread; the writer, a step of   *)
(* which writes a record (module FileTarget shows its steps, on a disk     *)
(* that may refuse them; here it takes what is written).  All but the      *)
(* writer log, which takes _logger_mutex for a moment.  Time passes in     *)
(* half days.                                                              *)
(***************************************************************************)
EXTENDS Naturals

CONSTANTS Owner, Worker, Free,   \* who may hold a lock
          Logs,                  \* names that match the pattern, in the order of their time: 1 .. n
          NoFile,
          Duration,              \* _log_storage_duration, in days
          MaxFilesize,           \* whether _max_filesize_bytes is not zero
          RemoveFails, OpensFail, DirsFail,   \* what the file system may refuse
          MaxTime                \* bound: half days

ASSUME LockAssumption == Owner # Worker /\ Free \notin {Owner, Worker}
ASSUME FilesAssumption == Logs \subseteq Nat \ {0} /\ NoFile \notin Logs
ASSUME DurationAssumption == Duration \in Nat \ {0}
ASSUME CleanupFlagsAssumption == {MaxFilesize, RemoveFails, OpensFail, DirsFail} \subseteq BOOLEAN
ASSUME TimeAssumption == MaxTime \in Nat

Threads == {Owner, Worker}
Day == 2

VARIABLES
    logger, mutex,     \* who holds _logger_mutex, the caller's _mutex
    pc,                \* where each thread is
    stop,              \* whether the worker is asked to stop
    running,           \* whether the threads of the logger are there
    maint,             \* where the maintenance thread is; "off": the slot is not maintained
    now,               \* the time
    present,           \* the log files in the directory
    mtime,             \* when each log file was last written
    current,           \* _current_filename
    stream,            \* the file that _file is open on
    broken,            \* whether an error bit of the open stream is set
    todo,              \* what each purge has not looked at yet
    found,             \* the file it is about to remove
    failed,            \* whether something threw in it
    due,               \* history: the old files that were there when it began
    written,           \* history: those of them, and of found, that were written or made since
    disturbed,         \* history: what CurrentFileIsSafe excepts has happened
    lost               \* history: before that, a record reported as written went to no file that is there

locks == <<logger, mutex>>
threads == <<stop, running, maint>>
directory == <<present, mtime>>
file == <<current, stream, broken>>
purge == <<todo, found, failed, due, written>>
history == <<lost, disturbed>>
vars == <<locks, pc, threads, now, directory, file, purge, history>>

(* last_write_time in whole days, as duration_cast has it.                 *)
DaysOld(f) == (now - mtime[f]) \div Day

Init ==
    /\ logger = Free /\ mutex = Free
    /\ pc = [t \in Threads |-> IF t = Owner THEN "idle" ELSE "gone"]
    /\ stop = FALSE /\ running = FALSE
    /\ maint = "off"
    /\ now = 0
    /\ present \in {{}, {1} \cap Logs}
    /\ mtime = [f \in Logs |-> 0]
    /\ current = NoFile /\ stream = NoFile /\ broken = FALSE
    /\ todo = [t \in Threads |-> {}]
    /\ found = [t \in Threads |-> NoFile]
    /\ failed = [t \in Threads |-> FALSE]
    /\ due = [t \in Threads |-> {}]
    /\ written = [t \in Threads |-> {}]
    /\ lost = FALSE /\ disturbed = FALSE

-----------------------------------------------------------------------------
Goto(t, label) == pc' = [pc EXCEPT ![t] = label]

(* A file that is not there has no time.                                   *)
Remove(f) ==
    /\ present' = present \ {f}
    /\ mtime' = [g \in Logs |-> IF g = f THEN 0 ELSE mtime[g]]

(* Logging takes the recursive _logger_mutex, and gives it back.           *)
CanLog(t) == logger \in {Free, t}

(* The program has been ended by the maintenance thread, or by a regular   *)
(* expression that changed while it was used.                              *)
Ended == maint = "ended"

-----------------------------------------------------------------------------
(* Delete_regex_older_than_cpp and the function around it, on thread t.    *)

InPurge(t) == pc[t] \in {"begin", "entries", "remove", "tell", "finish"}

(* A file that is old, or was when it was looked at, is written or made.   *)
WrittenTo(f) == written' = [t \in Threads |-> written[t] \cup ({f} \cap (due[t] \cup {found[t]}))]

(* What a purge knows is gone when it is over.                             *)
Forget(t) ==
    /\ todo' = [todo EXCEPT ![t] = {}]
    /\ found' = [found EXCEPT ![t] = NoFile]
    /\ failed' = [failed EXCEPT ![t] = FALSE]
    /\ due' = [due EXCEPT ![t] = {}]
    /\ written' = [written EXCEPT ![t] = {}]

(* The two messages that come first, and the directory, but for what does  *)
(* not match (module Formatter says what does).                            *)
Purge_begin(t) ==
    /\ pc[t] = "begin" /\ CanLog(t)
    /\ todo' = [todo EXCEPT ![t] = present]
    /\ due' = [due EXCEPT ![t] = {f \in present : DaysOld(f) > Duration}]
    /\ Goto(t, "entries")
    /\ UNCHANGED <<locks, threads, now, directory, file, found, failed, written, history>>

(* Mutant: a file is old on the last day that it should be kept.           *)
Purge_look_at_least(t) ==
    /\ pc[t] = "entries"
    /\ \E f \in todo[t] :
           /\ todo' = [todo EXCEPT ![t] = @ \ {f}]
           /\ f \in present
           /\ IF Duration <= DaysOld(f)
              THEN Goto(t, "remove") /\ found' = [found EXCEPT ![t] = f]
              ELSE UNCHANGED <<pc, found>>
    /\ UNCHANGED <<locks, threads, now, directory, file, failed, due, written, history>>

(* A matching file: is it old?                                             *)
Purge_look(t) ==
    /\ pc[t] = "entries"
    /\ \E f \in todo[t] :
           /\ todo' = [todo EXCEPT ![t] = @ \ {f}]
           /\ f \in present
           /\ IF Duration < DaysOld(f)
              THEN Goto(t, "remove") /\ found' = [found EXCEPT ![t] = f]
              ELSE UNCHANGED <<pc, found>>
    /\ UNCHANGED <<locks, threads, now, directory, file, failed, due, written, history>>

(* An exception ends the iteration: nothing is looked at any more, and     *)
(* nothing is to be expected of this purge.                                *)
Throw(t) ==
    /\ failed' = [failed EXCEPT ![t] = TRUE]
    /\ todo' = [todo EXCEPT ![t] = {}]
    /\ due' = [due EXCEPT ![t] = {}]
    /\ written' = [written EXCEPT ![t] = {}]

(* One that is gone since: the iterator does not give it, or               *)
(* last_write_time throws.                                                 *)
Purge_gone(t) ==
    /\ pc[t] = "entries"
    /\ \E f \in todo[t] \ present :
           \/ todo' = [todo EXCEPT ![t] = @ \ {f}] /\ UNCHANGED <<pc, failed, due, written>>
           \/ Throw(t) /\ Goto(t, "tell")
    /\ UNCHANGED <<locks, threads, now, directory, file, found, history>>

(* remove: done, or not because the file is gone, or refused, which throws.*)
Purge_remove(t) ==
    /\ pc[t] = "remove"
    /\ \/ Remove(found[t]) /\ UNCHANGED <<failed, todo, due, written>>
       \/ RemoveFails /\ found[t] \in present /\ Throw(t) /\ UNCHANGED directory
    /\ found' = [found EXCEPT ![t] = NoFile]
    /\ Goto(t, "tell")
    /\ UNCHANGED <<locks, threads, now, file, history>>

(* What was done or not is logged; an exception ends the iteration.        *)
Purge_tell(t) ==
    /\ pc[t] = "tell" /\ CanLog(t)
    /\ Goto(t, IF failed[t] THEN "finish" ELSE "entries")
    /\ UNCHANGED <<locks, threads, now, directory, file, purge, history>>

(* Mutant: a purge is over after its first file.                           *)
Purge_counted_early(t) ==
    /\ pc[t] = "entries"
    /\ Goto(t, "finish")
    /\ UNCHANGED <<locks, threads, now, directory, file, purge, history>>

Purge_counted(t) ==
    /\ pc[t] = "entries" /\ todo[t] = {}
    /\ Goto(t, "finish")
    /\ UNCHANGED <<locks, threads, now, directory, file, purge, history>>

Purge(t) ==
    \/ Purge_begin(t) \/ Purge_look(t) \/ Purge_gone(t)
    \/ Purge_remove(t) \/ Purge_tell(t) \/ Purge_counted(t)

-----------------------------------------------------------------------------
(* The stream, which Write_log, Setup and the rotation share.              *)

WrittenNow(f) == mtime' = [mtime EXCEPT ![f] = now] /\ WrittenTo(f)

(* A purge is about to remove the file, or would.                          *)
Stale(f) == (f \in present /\ DaysOld(f) > Duration) \/ \E t \in Threads : found[t] = f

(* The closed stream is opened, on a file that is made or is there from an *)
(* earlier run, perhaps, with its time; a record may follow.               *)
Opened(record) ==
    /\ stream' = current /\ broken' = FALSE
    /\ present' = present \cup {current}
    /\ IF record \/ current \notin present THEN WrittenNow(current) ELSE UNCHANGED <<mtime, written>>
    /\ lost' = FALSE
    /\ disturbed' = Stale(current)

Refused ==
    /\ OpensFail
    /\ stream' = NoFile /\ broken' = FALSE
    /\ UNCHANGED <<directory, written, history>>

(* A record goes to the file of the stream; on one that has been removed,  *)
(* or with an error bit set, it goes nowhere.                              *)
Put ==
    /\ stream # NoFile
    /\ IF stream \in present /\ ~broken
       THEN WrittenNow(stream) /\ UNCHANGED lost
       ELSE lost' = (lost \/ ~disturbed) /\ UNCHANGED <<mtime, written>>
    /\ UNCHANGED <<present, stream, broken, disturbed>>

(* Write_log of the target opens a stream that is not open; when that is   *)
(* refused the result says so, and the record is for the fallback target.  *)
Record == Put \/ (stream = NoFile /\ (Opened(TRUE) \/ Refused))

(* The name follows the time: the same file again, or another one.         *)
Assign(f) ==
    /\ current # NoFile => f >= current
    /\ current' = f

-----------------------------------------------------------------------------
(* Start and Reconfigure of the logger, as far as the target is concerned. *)

Start ==
    /\ pc[Owner] = "idle" /\ logger = Free
    /\ logger' = Owner
    /\ Goto(Owner, "setup")
    /\ UNCHANGED <<mutex, threads, now, directory, file, purge, history>>

(* The threads of the logger are joined, then the target is destroyed,     *)
(* which asks the worker to stop, notifies it and joins it.                *)
Reconfigure ==
    /\ pc[Owner] = "idle" /\ logger = Free
    /\ logger' = Owner
    /\ Goto(Owner, "join")
    /\ UNCHANGED <<mutex, threads, now, directory, file, purge, history>>

(* Mutant: the worker is not asked to stop.                                *)
Destroy_silent ==
    /\ pc[Owner] = "join" /\ maint \in {"off", "idle"}
    /\ running' = FALSE
    /\ Goto(Owner, "notify")
    /\ UNCHANGED <<locks, stop, maint, now, directory, file, purge, history>>

Destroy ==
    /\ pc[Owner] = "join" /\ maint \in {"off", "idle"}
    /\ running' = FALSE
    /\ stop' = TRUE
    /\ Goto(Owner, "notify")
    /\ UNCHANGED <<locks, maint, now, directory, file, purge, history>>

(* notify_all, without the mutex: a worker that does not wait yet misses   *)
(* it; one that waits finds its predicate true.                            *)
Notify ==
    /\ pc[Owner] = "notify"
    /\ pc' = [pc EXCEPT ![Owner] = "destroy", ![Worker] = IF @ = "waiting" /\ stop THEN "woken" ELSE @]
    /\ UNCHANGED <<locks, threads, now, directory, file, purge, history>>

Joined ==
    /\ pc[Owner] = "destroy" /\ pc[Worker] = "gone"
    /\ stop' = FALSE /\ maint' = "off"
    /\ current' = NoFile /\ stream' = NoFile /\ broken' = FALSE
    /\ lost' = FALSE /\ disturbed' = FALSE
    /\ Goto(Owner, "setup")
    /\ UNCHANGED <<locks, running, now, directory, purge>>

(* Setup: Update_filename tells the old file, if there is one.             *)
Setup_transfer ==
    /\ pc[Owner] = "setup"
    /\ IF current # NoFile THEN Record ELSE UNCHANGED <<stream, broken, directory, written, history>>
    /\ Goto(Owner, "pattern")
    /\ UNCHANGED <<locks, threads, now, current, todo, found, failed, due>>

(* It makes the directories, and the pattern, which is logged.  Initialize *)
(* catches what is thrown when they cannot be made, and Start goes on.     *)
Setup_pattern ==
    /\ pc[Owner] = "pattern"
    /\ \/ Goto(Owner, "assign") /\ UNCHANGED <<logger, running>>
       \/ DirsFail /\ Goto(Owner, "idle") /\ logger' = Free /\ running' = TRUE
    /\ UNCHANGED <<mutex, stop, maint, now, directory, file, purge, history>>

(* It assigns the expression and the name.  A target that is set up again  *)
(* is disturbed.                                                           *)
Setup_assign ==
    /\ pc[Owner] = "assign"
    /\ \E f \in Logs :
           Assign(f) /\ disturbed' = (disturbed \/ current # NoFile \/ Stale(f))
    /\ Goto(Owner, "open")
    /\ UNCHANGED <<locks, threads, now, directory, stream, broken, purge, lost>>

(* Setup opens the stream without a close: when it is open already that    *)
(* makes no file, leaves the stream where it is and sets an error bit.     *)
(* Then the worker is started.  A second Setup assigns to the worker,      *)
(* which does nothing, and starts it, which does nothing either.           *)
Setup ==
    /\ pc[Owner] = "open"
    /\ \/ /\ stream # NoFile
          /\ broken' = TRUE /\ disturbed' = TRUE
          /\ UNCHANGED <<stream, directory, written, lost>>
       \/ stream = NoFile /\ (Opened(FALSE) \/ Refused)
    /\ pc' = [pc EXCEPT ![Owner] = "call", ![Worker] = IF @ = "gone" THEN "entering" ELSE @]
    /\ UNCHANGED <<locks, threads, now, current, todo, found, failed, due>>

(* Mutant: the function is called without the lock.                        *)
Call_immediately_unlocked ==
    /\ pc[Owner] = "call"
    /\ mutex' = Owner
    /\ Goto(Owner, "begin")
    /\ UNCHANGED <<logger, threads, now, directory, file, purge, history>>

Call_immediately ==
    /\ pc[Owner] = "call" /\ mutex = Free
    /\ mutex' = Owner
    /\ Goto(Owner, "begin")
    /\ UNCHANGED <<logger, threads, now, directory, file, purge, history>>

(* Call_immediately and Start return: the slot is maintained, the threads  *)
(* are there.                                                              *)
Returned ==
    /\ pc[Owner] = "finish" /\ CanLog(Owner)
    /\ mutex' = Free /\ logger' = Free
    /\ running' = TRUE /\ maint' = IF maint = "off" THEN "idle" ELSE maint
    /\ Goto(Owner, "idle")
    /\ Forget(Owner)
    /\ UNCHANGED <<stop, now, directory, file, history>>

OwnerContinues ==
    \/ Destroy \/ Notify \/ Joined
    \/ Setup_transfer \/ Setup_pattern \/ Setup_assign \/ Setup
    \/ Call_immediately \/ Purge(Owner) \/ Returned

-----------------------------------------------------------------------------
(* The worker (module ScheduledCaller shows the requests it may be given). *)

(* Under the mutex it evaluates the predicate of wait_for and leaves, ...  *)
Worker_check ==
    /\ pc[Worker] = "entering" /\ mutex = Free
    /\ IF stop THEN Goto(Worker, "gone") /\ UNCHANGED mutex
               ELSE Goto(Worker, "checked") /\ mutex' = Worker
    /\ UNCHANGED <<logger, threads, now, directory, file, purge, history>>

(* ... or gives the mutex up and waits for midnight, or a notification.    *)
Worker_wait ==
    /\ pc[Worker] = "checked"
    /\ mutex' = Free
    /\ Goto(Worker, "waiting")
    /\ UNCHANGED <<logger, threads, now, directory, file, purge, history>>

Worker_leave ==
    /\ pc[Worker] = "woken" /\ stop /\ mutex = Free
    /\ Goto(Worker, "gone")
    /\ UNCHANGED <<locks, threads, now, directory, file, purge, history>>

Worker_call ==
    /\ pc[Worker] = "woken" /\ ~stop /\ mutex = Free
    /\ mutex' = Worker
    /\ Goto(Worker, "begin")
    /\ UNCHANGED <<logger, threads, now, directory, file, purge, history>>

Worker_done ==
    /\ pc[Worker] = "finish" /\ CanLog(Worker)
    /\ mutex' = Free
    /\ Goto(Worker, "entering")
    /\ Forget(Worker)
    /\ UNCHANGED <<logger, threads, now, directory, file, history>>

WorkerStep ==
    Worker_check \/ Worker_wait \/ Worker_leave \/ Worker_call \/ Purge(Worker) \/ Worker_done

-----------------------------------------------------------------------------
(* The maintenance thread, the writers, the user of the directory, time.   *)

(* FileTarget::Maintenance: exists, then file_size, which throws when the  *)
(* file is not there any more.  The time or the size asks for a new file,  *)
(* or not.                                                                 *)
Maintenance ==
    /\ maint = "idle" /\ pc[Owner] \notin {"join", "notify", "destroy"}
    /\ maint' = IF MaxFilesize /\ current \in present THEN "size" ELSE "update"
    /\ UNCHANGED <<locks, pc, stop, running, now, directory, file, purge, history>>

Maintenance_size ==
    /\ maint = "size"
    /\ maint' \in (IF current \in present THEN {"idle", "update"} ELSE {"ended"})
    /\ UNCHANGED <<locks, pc, stop, running, now, directory, file, purge, history>>

(* Update_filename on this thread: nobody catches what it throws.          *)
Update_transfer ==
    /\ maint = "update"
    /\ Record
    /\ maint' = "pattern"
    /\ UNCHANGED <<locks, pc, stop, running, now, current, todo, found, failed, due>>

Update_pattern ==
    /\ maint = "pattern"
    /\ \/ logger = Free /\ maint' = "assign" /\ UNCHANGED disturbed
       \/ DirsFail /\ maint' = "ended" /\ disturbed' = TRUE
    /\ UNCHANGED <<locks, pc, stop, running, now, directory, file, purge, lost>>

Update_assign ==
    /\ maint = "assign"
    /\ \E f \in Logs : Assign(f) /\ disturbed' = (disturbed \/ Stale(f))
    /\ maint' = "reopen"
    /\ UNCHANGED <<locks, pc, stop, running, now, directory, stream, broken, purge, lost>>

(* Reopen_file closes the stream and opens it; that it could not is logged.*)
Reopen ==
    /\ maint = "reopen"
    /\ \/ Opened(FALSE) /\ maint' = "idle"
       \/ Refused /\ maint' = "warn"
    /\ UNCHANGED <<locks, pc, stop, running, now, current, todo, found, failed, due>>

Reopen_warn ==
    /\ maint = "warn" /\ logger = Free
    /\ maint' = "idle"
    /\ UNCHANGED <<locks, pc, stop, running, now, directory, file, purge, history>>

(* The expression is used by a purge, or assigned by another thread, while *)
(* it is assigned: anything may happen, the end of the program as well.    *)
Pattern_race ==
    /\ LET purging(t) == pc[t] = "entries" /\ todo[t] # {}
       IN  \/ maint = "assign" /\ (pc[Owner] = "assign" \/ \E t \in Threads : purging(t))
           \/ pc[Owner] = "assign" /\ purging(Worker)
    /\ maint' = "ended"
    /\ disturbed' = TRUE
    /\ UNCHANGED <<locks, pc, stop, running, now, directory, file, purge, lost>>

MaintenanceStep ==
    \/ Maintenance_size
    \/ Update_transfer \/ Update_pattern \/ Update_assign \/ Reopen \/ Reopen_warn

(* A record of the logging thread, or of a thread that logs without one,   *)
(* which the purge in a first Start does as well.                          *)
Write ==
    /\ current # NoFile /\ (running \/ pc[Owner] \notin {"open", "notify", "destroy"})
    /\ Record
    /\ UNCHANGED <<locks, pc, threads, now, current, todo, found, failed, due>>

RemoveByHand ==
    /\ \E f \in present :
           /\ Remove(f)
           /\ disturbed' = (disturbed \/ f \in {current, stream})
    /\ UNCHANGED <<locks, pc, threads, now, file, purge, lost>>

(* Half a day passes, which nobody spends between a predicate and a wait;  *)
(* every second time it is midnight.                                       *)
Tick ==
    /\ now < MaxTime /\ pc[Worker] # "checked"
    /\ now' = now + 1
    /\ pc' = [pc EXCEPT ![Worker] = IF @ = "waiting" /\ now' % Day = 0 THEN "woken" ELSE @]
    /\ disturbed' = \/ disturbed
                    \/ \E f \in {current, stream} \cap present : (now' - mtime[f]) \div Day > Duration
    /\ UNCHANGED <<locks, threads, directory, file, purge, lost>>

-----------------------------------------------------------------------------

(* Nothing follows the end of the program.                                 *)
Lives(action) == ~Ended /\ action

Next ==
    \/ Lives(Start) \/ Lives(Reconfigure)
    \/ Lives(OwnerContinues)
    \/ Lives(WorkerStep)
    \/ Lives(Maintenance) \/ Lives(MaintenanceStep) \/ Lives(Pattern_race)
    \/ Lives(Write) \/ Lives(RemoveByHand) \/ Lives(Tick)
    \/ Ended /\ UNCHANGED vars

Spec == Init /\ [][Next]_vars

(* Threads that can go on do; nobody has to call, write or remove, and no  *)
(* time has to pass.                                                       *)
FairSpec ==
    /\ Spec
    /\ WF_vars(Lives(OwnerContinues))
    /\ WF_vars(Lives(WorkerStep))
    /\ WF_vars(Lives(MaintenanceStep))

-----------------------------------------------------------------------------
(* Properties.                                                             *)

(* Every variable has its type; a stop request is for the worker that is   *)
(* being joined.                                                           *)
TypeOK ==
    /\ logger \in {Free, Owner} /\ mutex \in {Free, Owner, Worker}
    /\ pc[Owner] \in {"idle", "join", "notify", "destroy", "setup", "pattern", "assign", "open", "call",
                      "begin", "entries", "remove", "tell", "finish"}
    /\ pc[Worker] \in {"gone", "entering", "checked", "waiting", "woken",
                       "begin", "entries", "remove", "tell", "finish"}
    /\ stop => pc[Owner] \in {"notify", "destroy"}
    /\ {stop, running, broken, lost, disturbed} \subseteq BOOLEAN
    /\ maint \in {"off", "idle", "size", "update", "pattern", "assign", "reopen", "warn", "ended"}
    /\ now \in 0 .. MaxTime
    /\ present \subseteq Logs
    /\ mtime \in [Logs -> 0 .. MaxTime]
    /\ {current, stream} \subseteq Logs \cup {NoFile}
    /\ todo \in [Threads -> SUBSET Logs] /\ due \in [Threads -> SUBSET Logs] /\ written \in [Threads -> SUBSET Logs]
    /\ found \in [Threads -> Logs \cup {NoFile}] /\ failed \in [Threads -> BOOLEAN]

(* Two threads purge the same directory one after the other, although each *)
(* Start purges on its own thread as well; beside a purge the worker holds *)
(* the mutex only before it waits.                                         *)
PurgesExclude ==
    \A t \in Threads : mutex = t <=> InPurge(t) \/ pc[t] = "checked"

(* A purge removes log files that have not been written for more than      *)
(* Duration whole days, but for an old one that is written or made after   *)
(* the purge has begun: between the look at its time and the removal that  *)
(* can happen, and then the new record goes with it.                       *)
RemovesOnlyOld ==
    [][\A t \in Threads : pc[t] = "remove" /\ pc'[t] = "tell" =>
           \A f \in present \ present' : f \notin written[t] => DaysOld(f) > Duration]_vars

(* A purge in which nothing fails leaves none of the files that were old   *)
(* when it began, but for what is written or made anew meanwhile.          *)
PurgeIsComplete ==
    \A t \in Threads : pc[t] = "finish" /\ ~failed[t] => due[t] \cap present \subseteq written[t]

(* Neither does the maintenance thread end the program nor are records     *)
(* reported as written that go to a file that is not there, unless, since  *)
(* the stream was last opened: the file was removed by hand; it was not    *)
(* written for longer than files are kept (or was an old one when it was   *)
(* opened); the target was set up again; the directories of the next file  *)
(* could not be made; or the expression was assigned during a purge.  No   *)
(* purge takes away the file of a target that has written to it in time,   *)
(* and a file that cannot be opened loses nothing silently.                *)
CurrentFileIsSafe == Ended \/ lost => disturbed

(* The locks are taken in opposite order: under _logger_mutex the owner    *)
(* waits for _mutex or for the worker's end, or for the maintenance        *)
(* thread's, while these want to log.                                      *)
Crossed ==
    /\ logger = Owner
    /\ \/ pc[Owner] \in {"call", "destroy"} /\ InPurge(Worker)
       \/ pc[Owner] = "join" /\ maint \in {"pattern", "warn"}

(* The worker began to wait after it had been notified: it sleeps until    *)
(* the next midnight.                                                      *)
Missed == pc[Owner] = "destroy" /\ stop /\ pc[Worker] = "waiting"

(* Start and Reconfigure return, whatever the purges find and whatever     *)
(* fails in them, unless the locks cross or the notification is missed:    *)
(* again and again the owner is in no call.                                *)
CallsReturn == []<>(pc[Owner] = "idle" \/ Crossed \/ Missed \/ Ended)

=============================================================================
