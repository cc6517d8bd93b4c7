---------------------------- MODULE CleanupProofs ----------------------------
(* Theorems about module Cleanup: what purges remove and leave, for any    *)
(* number of files, any storage duration and any time.                     *)
EXTENDS Cleanup, TLAPS

Old(f) == DaysOld(f) > Duration

Types ==
    /\ pc = [t \in Threads |-> pc[t]]
    /\ now \in Nat /\ mtime \in [Logs -> Nat] /\ (\A f \in Logs : mtime[f] <= now)
    /\ present \subseteq Logs
    /\ current \in Logs \cup {NoFile} /\ stream \in Logs \cup {NoFile} /\ broken \in BOOLEAN
    /\ running \in BOOLEAN
    /\ todo \in [Threads -> SUBSET Logs] /\ due \in [Threads -> SUBSET Logs]
    /\ written \in [Threads -> SUBSET Logs]
    /\ found \in [Threads -> Logs \cup {NoFile}] /\ failed \in [Threads -> BOOLEAN]
    /\ disturbed \in BOOLEAN /\ lost \in BOOLEAN

(* What a thread knows in its purge, and outside of one.                   *)
Knows(t) ==
    /\ pc[t] # "remove" => found[t] = NoFile
    /\ ~InPurge(t) \/ pc[t] = "begin" =>
          todo[t] = {} /\ due[t] = {} /\ ~failed[t]
    /\ \A f \in present : f \in due[t] \cup {found[t]} /\ f \notin written[t] => Old(f)
    /\ ~failed[t] => due[t] \cap present \subseteq written[t] \cup todo[t] \cup {found[t]}
    /\ pc[t] = "finish" /\ ~failed[t] => todo[t] = {}

(* The current file and the one that the stream is on: what is missing,    *)
(* old or about to be removed has been noticed.                            *)
Noticed ==
    /\ stream # NoFile => (stream \in present /\ ~broken) \/ disturbed
    /\ current # NoFile /\ Stale(current) => disturbed
    /\ stream # NoFile /\ Stale(stream) => disturbed
    /\ maint = "size" /\ current \notin present => disturbed
    /\ Ended \/ lost => disturbed

(* A target that is maintained, or set up, has a file.                     *)
Named ==
    /\ maint \notin {"off", "ended"} => current # NoFile
    /\ pc[Owner] \in {"open", "call"} \/ InPurge(Owner) => current # NoFile

Inv == Types /\ PurgesExclude /\ (\A t \in Threads : Knows(t)) /\ Noticed /\ Named

LEMMA InvInit == Init => Inv
<1> SUFFICES ASSUME Init PROVE Inv
  OBVIOUS
<1> USE LockAssumption, FilesAssumption, DurationAssumption DEF Init
<1>1. Types
  <2>1. pc = [t \in Threads |-> pc[t]] /\ present \subseteq Logs
    OBVIOUS
  <2>2. mtime \in [Logs -> Nat] /\ \A f \in Logs : mtime[f] <= now
    OBVIOUS
  <2>3. /\ todo \in [Threads -> SUBSET Logs] /\ due \in [Threads -> SUBSET Logs]
        /\ written \in [Threads -> SUBSET Logs]
        /\ found \in [Threads -> Logs \cup {NoFile}] /\ failed \in [Threads -> BOOLEAN]
    OBVIOUS
  <2> QED BY <2>1, <2>2, <2>3 DEF Types
<1>2. PurgesExclude
  BY DEF PurgesExclude, InPurge, Threads
<1>3. \A t \in Threads : Knows(t)
  BY DEF Knows, Threads, InPurge
<1>4. Noticed /\ Named
  BY DEF Noticed, Named, Ended, Threads, InPurge
<1> QED BY <1>1, <1>2, <1>3, <1>4 DEF Inv

(* The steps, grouped by what they may change.                             *)
FileAction == Setup_transfer \/ Setup \/ Update_transfer \/ Reopen \/ Write

OwnerAction ==
    Start \/ Reconfigure \/ Destroy \/ Notify \/ Joined \/ Setup_pattern \/ Setup_assign \/ Call_immediately

WorkerAction == Worker_check \/ Worker_wait \/ Worker_leave \/ Worker_call

MaintAction ==
    Maintenance \/ Maintenance_size \/ Update_pattern \/ Update_assign \/ Reopen_warn \/ Pattern_race

LEMMA Steps ==
    ASSUME [Next]_vars
    PROVE  \/ UNCHANGED vars
           \/ /\ ~Ended
              /\ \/ FileAction \/ OwnerAction \/ WorkerAction \/ MaintAction
                 \/ Returned \/ Worker_done
                 \/ \E t \in Threads : Purge(t)
                 \/ RemoveByHand \/ Tick
BY DEF Next, Lives, OwnerContinues, WorkerStep, MaintenanceStep, Threads,
   FileAction, OwnerAction, WorkerAction, MaintAction

(* A file is written, and made if it is not there.                         *)
Touch(f) == present' = present \cup {f} /\ WrittenNow(f)

LEMMA FileActions ==
    ASSUME Types, Named, FileAction
    PROVE  /\ UNCHANGED <<logger, mutex, stop, running, now, current, todo, found, failed, due>>
           /\ current # NoFile \/ UNCHANGED <<stream, broken, lost, disturbed>>
           /\ \/ UNCHANGED <<present, mtime, written>>
              \/ \E f \in Logs : Touch(f)
           /\ \/ UNCHANGED <<pc, maint>>
              \/ maint = "update" /\ maint' = "pattern" /\ UNCHANGED pc
              \/ maint = "reopen" /\ maint' \in {"idle", "warn"} /\ UNCHANGED pc
              \/ pc[Owner] = "setup" /\ pc' = [pc EXCEPT ![Owner] = "pattern"] /\ UNCHANGED maint
              \/ /\ pc[Owner] = "open" /\ UNCHANGED maint
                 /\ pc' = [pc EXCEPT ![Owner] = "call", ![Worker] = IF @ = "gone" THEN "entering" ELSE @]
<1>1. ASSUME NEW record \in BOOLEAN, Opened(record), current # NoFile
      PROVE  UNCHANGED <<present, mtime, written>> \/ \E f \in Logs : Touch(f)
  <2>1. CASE record \/ current \notin present
    BY <1>1, <2>1 DEF Opened, Touch, Types
  <2>2. CASE ~(record \/ current \notin present)
    BY <1>1, <2>2 DEF Opened, Types
  <2> QED BY <2>1, <2>2
<1>2. ASSUME Put PROVE UNCHANGED <<present, mtime, written>> \/ \E f \in Logs : Touch(f)
  <2>1. CASE stream \in present /\ ~broken
    <3>1. present' = present \cup {stream} /\ WrittenNow(stream)
      BY <1>2, <2>1 DEF Put
    <3> QED BY <3>1, <2>1 DEF Touch, Types
  <2>2. CASE ~(stream \in present /\ ~broken)
    BY <1>2, <2>2 DEF Put
  <2> QED BY <2>1, <2>2
<1>3. ASSUME Refused PROVE UNCHANGED <<present, mtime, written>>
  BY <1>3 DEF Refused, directory
<1>4. ASSUME Record, current # NoFile
      PROVE  UNCHANGED <<present, mtime, written>> \/ \E f \in Logs : Touch(f)
  BY <1>1, <1>2, <1>3, <1>4 DEF Record
<1> USE FilesAssumption DEF locks, threads, Goto, directory
<1>5. CASE Setup_transfer
  BY <1>4, <1>5 DEF Setup_transfer, history
<1>6. CASE Setup
  <2>1. current # NoFile
    BY <1>6 DEF Setup, Named
  <2> QED BY <1>1, <1>3, <1>6, <2>1 DEF Setup
<1>7. CASE Update_transfer
  <2>1. current # NoFile
    BY <1>7 DEF Update_transfer, Named
  <2> QED BY <1>4, <1>7, <2>1 DEF Update_transfer
<1>8. CASE Reopen
  <2>1. current # NoFile
    BY <1>8 DEF Reopen, Named
  <2> QED BY <1>1, <1>3, <1>8, <2>1 DEF Reopen
<1>9. CASE Write
  BY <1>4, <1>9 DEF Write
<1> QED BY <1>5, <1>6, <1>7, <1>8, <1>9 DEF FileAction

(* The stream after it: opened on the current file, closed, or as it was.  *)
LEMMA Streams ==
    ASSUME Types, Named, FileAction
    PROVE  \/ \E record \in BOOLEAN : Opened(record)
           \/ Refused
           \/ Put
           \/ UNCHANGED <<stream, broken, present, mtime, written, lost, disturbed>>
           \/ /\ broken' = TRUE /\ disturbed' = TRUE
              /\ UNCHANGED <<stream, present, mtime, written, lost>>
BY DEF FileAction, Setup_transfer, Setup, Update_transfer, Reopen, Write, Record, directory, history

LEMMA TypesNext == Inv /\ [Next]_vars => Types'
<1> SUFFICES ASSUME Inv, [Next]_vars PROVE Types'
  OBVIOUS
<1> USE FilesAssumption, TimeAssumption DEF Inv
<1>1. CASE FileAction
  <2>1. UNCHANGED <<running, now, current, todo, found, failed, due>> /\ pc' = [t \in Threads |-> pc'[t]]
    BY <1>1, FileActions DEF Types
  <2>2. \/ UNCHANGED <<present, mtime, written>>
        \/ \E f \in Logs : Touch(f)
    BY <1>1, FileActions
  <2>3. /\ mtime' \in [Logs -> Nat] /\ (\A g \in Logs : mtime'[g] <= now)
        /\ written' \in [Threads -> SUBSET Logs] /\ present' \subseteq Logs
    <3>1. CASE UNCHANGED <<present, mtime, written>>
      BY <3>1 DEF Types
    <3>2. ASSUME NEW f \in Logs, Touch(f)
          PROVE  /\ mtime' \in [Logs -> Nat] /\ (\A g \in Logs : mtime'[g] <= now)
                 /\ written' \in [Threads -> SUBSET Logs] /\ present' \subseteq Logs
      BY <3>2 DEF Types, Touch, WrittenNow, WrittenTo
    <3> QED BY <2>2, <3>1, <3>2
  <2>4. stream' \in Logs \cup {NoFile} /\ {broken', lost', disturbed'} \subseteq BOOLEAN
    <3>1. Stale(current) \in BOOLEAN
      BY DEF Stale
    <3> QED BY <1>1, <3>1, Streams DEF Types, Opened, Refused, Put, history
  <2> QED BY <2>1, <2>3, <2>4 DEF Types
<1>2. CASE OwnerAction
  <2>1. pc' = [t \in Threads |-> pc'[t]] /\ UNCHANGED <<now, present, mtime, purge>>
    BY <1>2 DEF OwnerAction, Start, Reconfigure, Destroy, Notify, Joined, Setup_pattern, Setup_assign,
       Call_immediately, directory, Goto, Types
  <2>2. /\ current' \in Logs \cup {NoFile} /\ stream' \in Logs \cup {NoFile}
        /\ broken' \in BOOLEAN /\ running' \in BOOLEAN /\ lost' \in BOOLEAN
    BY <1>2 DEF OwnerAction, Start, Reconfigure, Destroy, Notify, Joined, Setup_pattern, Setup_assign,
       Call_immediately, threads, file, history, Assign, Types
  <2>3. disturbed' \in BOOLEAN
    <3>1. CASE Setup_assign
      BY <3>1 DEF Setup_assign, Stale, Types
    <3>2. CASE ~Setup_assign
      BY <1>2, <3>2 DEF OwnerAction, Start, Reconfigure, Destroy, Notify, Joined, Setup_pattern,
         Call_immediately, history, Types
    <3> QED BY <3>1, <3>2
  <2> QED BY <2>1, <2>2, <2>3 DEF Types, purge
<1>3. CASE WorkerAction \/ UNCHANGED vars
  BY <1>3 DEF WorkerAction, Worker_check, Worker_wait, Worker_leave, Worker_call,
     vars, threads, directory, file, purge, history, Goto, Types
<1>4. CASE MaintAction
  <2>1. UNCHANGED <<pc, running, now, present, mtime, stream, broken, purge, lost>>
    BY <1>4 DEF MaintAction, Maintenance, Maintenance_size, Update_pattern, Update_assign, Reopen_warn,
       Pattern_race, directory, file, history
  <2>2. current' \in Logs \cup {NoFile}
    BY <1>4 DEF MaintAction, Maintenance, Maintenance_size, Update_pattern, Update_assign, Reopen_warn,
       Pattern_race, file, Assign, Types
  <2>3. disturbed' \in BOOLEAN
    <3>1. CASE Update_assign
      BY <3>1 DEF Update_assign, Stale, Types
    <3>2. CASE ~Update_assign
      BY <1>4, <3>2 DEF MaintAction, Maintenance, Maintenance_size, Update_pattern, Reopen_warn,
         Pattern_race, history, Types
    <3> QED BY <3>1, <3>2
  <2> QED BY <2>1, <2>2, <2>3 DEF Types, purge
<1>5. CASE Returned \/ Worker_done
  <2>1. PICK t \in Threads : Forget(t)
    BY <1>5 DEF Returned, Worker_done, Threads
  <2>2. failed' \in [Threads -> BOOLEAN]
    BY <2>1 DEF Forget, Types
  <2>3. /\ todo' \in [Threads -> SUBSET Logs] /\ due' \in [Threads -> SUBSET Logs]
        /\ written' \in [Threads -> SUBSET Logs]
        /\ found' \in [Threads -> Logs \cup {NoFile}]
    BY <2>1 DEF Forget, Types
  <2>4. /\ pc' = [u \in Threads |-> pc'[u]] /\ UNCHANGED <<now, directory, file, history>>
        /\ running' \in BOOLEAN
    BY <1>5 DEF Returned, Worker_done, Goto, threads, Types
  <2> QED BY <2>2, <2>3, <2>4 DEF Types, directory, file, history
<1>6. ASSUME NEW t \in Threads, Purge(t) PROVE Types'
  <2>1. CASE Purge_begin(t)
    BY <2>1 DEF Purge_begin, threads, directory, file, history, Goto, Types
  <2>2. CASE Purge_look(t)
    BY <2>2 DEF Purge_look, threads, directory, file, history, Goto, Types
  <2>3. CASE Purge_gone(t)
    <3>1. /\ failed' \in [Threads -> BOOLEAN]
          /\ due' \in [Threads -> SUBSET Logs] /\ written' \in [Threads -> SUBSET Logs]
      BY <2>3 DEF Purge_gone, Throw, Types
    <3>2. todo' \in [Threads -> SUBSET Logs] /\ pc' = [u \in Threads |-> pc'[u]]
      BY <2>3 DEF Purge_gone, Throw, Goto, Types
    <3> QED BY <2>3, <3>1, <3>2 DEF Purge_gone, threads, directory, file, history, Types
  <2>4. CASE Purge_remove(t)
    <3>1. /\ failed' \in [Threads -> BOOLEAN]
          /\ todo' \in [Threads -> SUBSET Logs] /\ due' \in [Threads -> SUBSET Logs]
          /\ written' \in [Threads -> SUBSET Logs]
      BY <2>4 DEF Purge_remove, Throw, Types
    <3>2. mtime' \in [Logs -> Nat] /\ (\A g \in Logs : mtime'[g] <= now) /\ present' \subseteq Logs
      BY <2>4 DEF Purge_remove, Remove, directory, Types
    <3>3. found' \in [Threads -> Logs \cup {NoFile}] /\ pc' = [u \in Threads |-> pc'[u]]
      BY <2>4 DEF Purge_remove, Goto, Types
    <3> QED BY <2>4, <3>1, <3>2, <3>3 DEF Purge_remove, threads, file, history, Types
  <2>5. CASE Purge_tell(t) \/ Purge_counted(t)
    BY <2>5 DEF Purge_tell, Purge_counted, threads, directory, file, purge, history, Goto, Types
  <2> QED BY <1>6, <2>1, <2>2, <2>3, <2>4, <2>5 DEF Purge
<1>7. CASE RemoveByHand
  <2>1. UNCHANGED <<pc, running, now, file, purge, lost>>
    BY <1>7 DEF RemoveByHand, threads
  <2>2. mtime' \in [Logs -> Nat] /\ (\A g \in Logs : mtime'[g] <= now) /\ present' \subseteq Logs
    BY <1>7 DEF RemoveByHand, Remove, Types
  <2>3. disturbed' \in BOOLEAN
    BY <1>7 DEF RemoveByHand, Types
  <2> QED BY <2>1, <2>2, <2>3 DEF Types, purge, file
<1>8. CASE Tick
  <2>1. UNCHANGED <<running, directory, file, purge, lost>> /\ now' = now + 1
    BY <1>8 DEF Tick, threads
  <2>2. pc' = [t \in Threads |-> pc'[t]]
    BY <1>8 DEF Tick, Types
  <2>3. disturbed' \in BOOLEAN
    BY <1>8 DEF Tick, Types
  <2> QED BY <2>1, <2>2, <2>3 DEF Types, purge, directory, file
<1> QED BY <1>1, <1>2, <1>3, <1>4, <1>5, <1>6, <1>7, <1>8, Steps

(* A step of a purge, as far as others see it.                             *)
LEMMA PurgeSteps ==
    ASSUME NEW t \in Threads, Purge(t), pc = [u \in Threads |-> pc[u]]
    PROVE  /\ InPurge(t) /\ UNCHANGED <<logger, mutex, threads, now>>
           /\ \E label \in {"entries", "remove", "tell", "finish"} : pc' = [pc EXCEPT ![t] = label]
<1> USE DEF InPurge, Goto, locks
<1>1. CASE Purge_begin(t)
  BY <1>1 DEF Purge_begin
<1>2. CASE Purge_look(t)
  <2>1. pc[t] = "entries" /\ (UNCHANGED pc \/ pc' = [pc EXCEPT ![t] = "remove"])
    BY <1>2 DEF Purge_look
  <2> QED BY <1>2, <2>1 DEF Purge_look
<1>3. CASE Purge_gone(t)
  <2>1. pc[t] = "entries" /\ (UNCHANGED pc \/ pc' = [pc EXCEPT ![t] = "tell"])
    BY <1>3 DEF Purge_gone
  <2> QED BY <1>3, <2>1 DEF Purge_gone
<1>4. CASE Purge_remove(t)
  BY <1>4 DEF Purge_remove
<1>5. CASE Purge_tell(t) \/ Purge_counted(t)
  BY <1>5 DEF Purge_tell, Purge_counted
<1> QED BY <1>1, <1>2, <1>3, <1>4, <1>5 DEF Purge

LEMMA ExcludeNext == Inv /\ [Next]_vars => PurgesExclude'
<1> SUFFICES ASSUME Inv, [Next]_vars PROVE PurgesExclude'
  OBVIOUS
<1> USE LockAssumption DEF Inv, PurgesExclude, InPurge, Goto, Types, Threads
<1>1. CASE FileAction
  <2>1. /\ mutex' = mutex
        /\ \/ UNCHANGED pc
           \/ pc[Owner] = "setup" /\ pc' = [pc EXCEPT ![Owner] = "pattern"]
           \/ /\ pc[Owner] = "open"
              /\ pc' = [pc EXCEPT ![Owner] = "call", ![Worker] = IF @ = "gone" THEN "entering" ELSE @]
    BY <1>1, FileActions
  <2> QED BY <2>1
<1>2. CASE OwnerAction \/ Returned
  BY <1>2 DEF OwnerAction, Start, Reconfigure, Destroy, Notify, Joined, Setup_pattern, Setup_assign,
     Call_immediately, Returned, locks
<1>3. CASE WorkerAction \/ Worker_done
  BY <1>3 DEF WorkerAction, Worker_check, Worker_wait, Worker_leave, Worker_call, Worker_done, locks
<1>4. CASE \E t \in Threads : Purge(t)
  BY <1>4, PurgeSteps
<1>5. CASE MaintAction \/ RemoveByHand \/ UNCHANGED vars
  BY <1>5 DEF MaintAction, Maintenance, Maintenance_size, Update_pattern, Update_assign, Reopen_warn,
     Pattern_race, RemoveByHand, vars, locks
<1>6. CASE Tick
  BY <1>6 DEF Tick, locks
<1> QED BY <1>1, <1>2, <1>3, <1>4, <1>5, <1>6, Steps

(* What a thread knows stays true when others change the directory: a file *)
(* that is there was there, and as old, or has been written.               *)
LEMMA KnowsKept ==
    ASSUME Types, NEW t \in Threads, Knows(t),
           pc'[t] = pc[t], todo'[t] = todo[t], due'[t] = due[t], found'[t] = found[t],
           failed'[t] = failed[t],
           InPurge(t) => written[t] \subseteq written'[t],
           InPurge(t) => \A f \in present' : f \in due[t] \cup {found[t]} =>
                             f \in written'[t] \/ (f \in present /\ (Old(f) => Old(f)')),
           NoFile \notin present'
    PROVE  Knows(t)'
<1>1. CASE ~InPurge(t)
  BY <1>1 DEF Knows, InPurge
<1>2. CASE InPurge(t)
  <2>1. InPurge(t)'
    BY <1>2 DEF InPurge
  <2>2. \A f \in present' : f \in due'[t] \cup {found'[t]} /\ f \notin written'[t] => Old(f)'
    BY <1>2 DEF Knows
  <2>3. ~failed'[t] => due'[t] \cap present' \subseteq written'[t] \cup todo'[t] \cup {found'[t]}
    BY <1>2 DEF Knows
  <2> QED BY <2>1, <2>2, <2>3 DEF Knows, InPurge
<1> QED BY <1>1, <1>2

(* The same for the changes there are.                                     *)
LEMMA KnowsTouched ==
    ASSUME Types, NEW t \in Threads, Knows(t), NEW f \in Logs, Touch(f),
           pc'[t] = pc[t], UNCHANGED <<now, todo, found, failed, due>>
    PROVE  Knows(t)'
<1>1. InPurge(t) => written[t] \subseteq written'[t]
  BY DEF Touch, WrittenNow, WrittenTo
<1>2. ASSUME InPurge(t), NEW g \in present', g \in due[t] \cup {found[t]}
      PROVE  g \in written'[t] \/ (g \in present /\ (Old(g) => Old(g)'))
  <2>1. CASE g = f
    BY <2>1, <1>2 DEF Touch, WrittenNow, WrittenTo
  <2>2. CASE g # f
    <3>1. g \in present /\ mtime'[g] = mtime[g]
      BY <2>2, <1>2 DEF Types, Touch, WrittenNow
    <3> QED BY <3>1 DEF Old, DaysOld
  <2> QED BY <2>1, <2>2
<1>3. NoFile \notin present'
  BY FilesAssumption DEF Types, Touch
<1> QED BY <1>1, <1>2, <1>3, KnowsKept

LEMMA KnowsRemoved ==
    ASSUME Types, NEW t \in Threads, Knows(t), NEW gone, Remove(gone),
           pc'[t] = pc[t], UNCHANGED now, todo'[t] = todo[t], due'[t] = due[t], found'[t] = found[t],
           failed'[t] = failed[t], written'[t] = written[t]
    PROVE  Knows(t)'
<1>1. ASSUME NEW g \in present'
      PROVE  g \in present /\ (Old(g) => Old(g)')
  <2>1. g \in present /\ mtime'[g] = mtime[g]
    BY <1>1 DEF Remove, Types
  <2> QED BY <2>1 DEF Old, DaysOld
<1>2. NoFile \notin present'
  BY FilesAssumption DEF Remove, Types
<1> QED BY <1>1, <1>2, KnowsKept

LEMMA Older == \A a, b, c \in Nat : a >= b => ((a + 1) - b) \div 2 >= (a - b) \div 2
OBVIOUS

LEMMA KnowsNext == Inv /\ [Next]_vars => \A t \in Threads : Knows(t)'
<1> SUFFICES ASSUME Inv, [Next]_vars, NEW t \in Threads PROVE Knows(t)'
  OBVIOUS
<1> USE DEF Inv
<1>1. CASE FileAction
  <2>0. /\ UNCHANGED <<now, todo, found, failed, due>>
        /\ UNCHANGED <<present, mtime, written>> \/ \E f \in Logs : Touch(f)
    BY <1>1, FileActions
  <2>1. pc'[t] = pc[t] \/ (~InPurge(t) /\ ~InPurge(t)')
    BY <1>1, FileActions, LockAssumption DEF InPurge, Types, Threads
  <2>2. NoFile \notin present'
    BY FilesAssumption, TypesNext DEF Types
  <2>3. CASE pc'[t] = pc[t]
    <3>1. CASE UNCHANGED <<present, mtime, written>>
      BY <2>0, <2>3, <3>1 DEF Knows, InPurge, Old, DaysOld
    <3> QED BY <2>0, <2>3, <3>1, KnowsTouched
  <2>4. CASE ~InPurge(t) /\ ~InPurge(t)'
    BY <2>0, <2>2, <2>4 DEF Knows, InPurge
  <2> QED BY <2>1, <2>3, <2>4
<1>2. CASE OwnerAction \/ WorkerAction
  <2>1. UNCHANGED <<present, mtime, now, purge>>
    BY <1>2 DEF OwnerAction, Start, Reconfigure, Destroy, Notify, Joined, Setup_pattern, Setup_assign,
       Call_immediately, WorkerAction, Worker_check, Worker_wait, Worker_leave, Worker_call, directory
  <2>2. pc'[t] = pc[t] \/ (~InPurge(t) /\ (InPurge(t)' => pc'[t] = "begin") /\ pc'[t] # "remove")
    BY <1>2, LockAssumption DEF OwnerAction, Start, Reconfigure, Destroy, Notify, Joined, Setup_pattern,
       Setup_assign, Call_immediately, WorkerAction, Worker_check, Worker_wait, Worker_leave, Worker_call,
       Goto, InPurge, Types, Threads
  <2> QED BY <2>1, <2>2 DEF Knows, InPurge, purge, Old, DaysOld
<1>3. CASE MaintAction \/ UNCHANGED vars
  <2>1. UNCHANGED <<pc, present, mtime, now, purge>>
    BY <1>3 DEF MaintAction, Maintenance, Maintenance_size, Update_pattern, Update_assign, Reopen_warn,
       Pattern_race, directory, vars
  <2> QED BY <2>1 DEF Knows, InPurge, purge, Old, DaysOld
<1>4. ASSUME NEW u \in Threads, pc[u] = "finish", Forget(u), pc'[u] \notin {"remove", "begin"},
             ~InPurge(u)', \A v \in Threads : v # u => pc'[v] = pc[v],
             UNCHANGED <<present, mtime, now>>
      PROVE  Knows(t)'
  <2>1. CASE t = u
    <3>1. todo'[t] = {} /\ due'[t] = {} /\ ~failed'[t] /\ written'[t] = {} /\ found'[t] = NoFile
      BY <2>1, <1>4 DEF Forget, Types
    <3>2. NoFile \notin present'
      BY <1>4, FilesAssumption DEF Types
    <3> QED BY <2>1, <3>1, <3>2, <1>4 DEF Knows, InPurge
  <2>2. CASE t # u
    <3>1. UNCHANGED <<pc[t], todo[t], due[t], failed[t], written[t], found[t]>>
      BY <2>2, <1>4 DEF Forget, Types
    <3> QED BY <3>1, <1>4 DEF Knows, InPurge, Old, DaysOld
  <2> QED BY <2>1, <2>2
<1>5. CASE Returned \/ Worker_done
  <2>1. PICK u \in Threads : /\ pc[u] = "finish" /\ Forget(u) /\ pc'[u] \in {"idle", "entering"}
                             /\ pc' = [pc EXCEPT ![u] = pc'[u]]
                             /\ UNCHANGED <<present, mtime, now>>
    BY <1>5 DEF Returned, Worker_done, Goto, Threads, Types, directory
  <2> QED BY <2>1, <1>4 DEF InPurge, Types
<1>6. ASSUME NEW u \in Threads, Purge(u), u # t PROVE Knows(t)'
  <2>1. ~InPurge(t) /\ InPurge(u)
    BY <1>6, PurgeSteps, LockAssumption DEF PurgesExclude, Types
  <2>2. UNCHANGED <<pc[t], todo[t], due[t], failed[t], written[t], found[t]>>
    BY <1>6 DEF Purge, Purge_begin, Purge_look, Purge_gone, Purge_remove, Purge_tell, Purge_counted,
       Throw, Goto, Types, purge
  <2>3. NoFile \notin present'
    BY TypesNext, FilesAssumption DEF Types
  <2> QED BY <2>1, <2>2, <2>3, KnowsKept
<1>7. CASE Purge(t)
  <2> USE DEF Knows, InPurge, Goto, Types
  <2>0. NoFile \notin present
    BY FilesAssumption
  <2>1. CASE Purge_begin(t)
    BY <2>0, <2>1 DEF Purge_begin, directory, Old, DaysOld
  <2>2. CASE Purge_look(t)
    <3>1. PICK f \in todo[t] :
            /\ todo'[t] = todo[t] \ {f} /\ f \in present
            /\ \/ pc'[t] = "remove" /\ found'[t] = f /\ Old(f)
               \/ pc'[t] = "entries" /\ found'[t] = NoFile /\ ~Old(f)
      BY <2>2 DEF Purge_look, Old
    <3>2. UNCHANGED <<now, present, mtime, due, failed, written>> /\ found[t] = NoFile
      BY <2>2 DEF Purge_look, directory
    <3> QED BY <2>0, <2>2, <3>1, <3>2 DEF Purge_look, Old, DaysOld
  <2>3. CASE Purge_gone(t)
    <3>1. UNCHANGED <<now, present, mtime, found>>
      BY <2>3 DEF Purge_gone, directory
    <3>2. CASE UNCHANGED <<pc, failed, due, written>> /\ \E f \in todo[t] \ present : todo'[t] = todo[t] \ {f}
      BY <2>0, <2>3, <3>1, <3>2 DEF Purge_gone, Old, DaysOld
    <3>3. CASE Throw(t) /\ pc'[t] = "tell"
      <4>1. failed'[t] /\ due'[t] = {} /\ found'[t] = NoFile
        BY <2>3, <3>1, <3>3 DEF Purge_gone, Throw
      <4> QED BY <2>0, <3>1, <3>3, <4>1
    <3> QED BY <2>3, <3>2, <3>3 DEF Purge_gone
  <2>4. CASE Purge_remove(t)
    <3>1. UNCHANGED now /\ found'[t] = NoFile /\ pc'[t] = "tell"
      BY <2>4 DEF Purge_remove
    <3>2. CASE Remove(found[t]) /\ UNCHANGED <<failed, todo, due, written>>
      <4>1. \A g \in present' : g \in present /\ g # found[t] /\ mtime'[g] = mtime[g]
        BY <3>2 DEF Remove
      <4> QED BY <2>0, <3>1, <3>2, <4>1 DEF Old, DaysOld
    <3>3. CASE Throw(t) /\ UNCHANGED directory
      <4>1. failed'[t] /\ due'[t] = {}
        BY <3>3 DEF Throw
      <4> QED BY <2>0, <3>1, <3>3, <4>1 DEF directory
    <3> QED BY <2>4, <3>2, <3>3 DEF Purge_remove
  <2>5. CASE Purge_tell(t) \/ Purge_counted(t)
    BY <2>5 DEF Purge_tell, Purge_counted, directory, purge, Old, DaysOld
  <2> QED BY <1>7, <2>1, <2>2, <2>3, <2>4, <2>5 DEF Purge
<1>8. CASE RemoveByHand
  <2>1. PICK f \in present : Remove(f)
    BY <1>8 DEF RemoveByHand
  <2>2. UNCHANGED <<pc, now, purge>>
    BY <1>8 DEF RemoveByHand
  <2> QED BY <2>1, <2>2, KnowsRemoved DEF purge
<1>9. CASE Tick
  <2>1. UNCHANGED <<present, mtime, purge>> /\ now' = now + 1
    BY <1>9 DEF Tick, directory
  <2>2. pc'[t] = pc[t] \/ (~InPurge(t) /\ ~InPurge(t)')
    BY <1>9 DEF Tick, InPurge, Types
  <2>3. \A f \in present : Old(f) => Old(f)'
    <3> SUFFICES ASSUME NEW f \in present, Old(f) PROVE Old(f)'
      OBVIOUS
    <3>1. now \in Nat /\ mtime[f] \in Nat /\ mtime[f] <= now
      BY DEF Types
    <3>2. ((now + 1) - mtime[f]) \div 2 >= (now - mtime[f]) \div 2
      BY <3>1, Older
    <3> QED BY <2>1, <3>1, <3>2, DurationAssumption DEF Old, DaysOld, Day
  <2>4. NoFile \notin present
    BY FilesAssumption DEF Types
  <2> QED BY <2>1, <2>2, <2>3, <2>4 DEF Knows, InPurge, purge
<1> QED BY <1>1, <1>2, <1>3, <1>5, <1>6, <1>7, <1>8, <1>9, Steps

(* What a stream does to the files leaves what must be noticed so.         *)
LEMMA NoticedOpened ==
    ASSUME Types, Noticed, NEW record \in BOOLEAN, Opened(record), current # NoFile,
           UNCHANGED <<now, current, found>>, maint' # "ended"
    PROVE  Noticed'
<1>1. /\ stream' = current /\ current' = current /\ current' \in present' /\ broken' = FALSE /\ lost' = FALSE
      /\ disturbed' = Stale(current)
  BY DEF Opened
<1>2. Stale(current)' => Stale(current)
  <2>1. CASE record \/ current \notin present
    <3>1. mtime'[current] = now /\ now \in Nat
      BY <2>1 DEF Opened, WrittenNow, Types
    <3>2. DaysOld(current)' = 0
      BY <3>1 DEF DaysOld, Day
    <3> QED BY <3>2, DurationAssumption DEF Stale
  <2>2. CASE ~(record \/ current \notin present)
    BY <2>2 DEF Opened, Stale, DaysOld
  <2> QED BY <2>1, <2>2
<1> QED BY <1>1, <1>2 DEF Noticed, Ended

LEMMA NoticedPut ==
    ASSUME Types, Noticed, Put, UNCHANGED <<now, current, found>>,
           maint' # "ended", maint' = "size" => maint = "size"
    PROVE  Noticed'
<1>1. /\ UNCHANGED <<present, stream, broken, disturbed>> /\ stream # NoFile
      /\ lost' => lost \/ disturbed
  BY DEF Put, Noticed
<1>2. ASSUME NEW f \in Logs PROVE Stale(f)' => Stale(f)
  <2>1. CASE mtime' = mtime
    BY <1>1, <2>1 DEF Stale, DaysOld
  <2>2. CASE WrittenNow(stream) /\ f # stream
    BY <1>1, <2>2 DEF WrittenNow, Stale, DaysOld, Types
  <2>3. CASE WrittenNow(stream) /\ f = stream
    <3>1. mtime'[f] = now /\ now \in Nat
      BY <2>3 DEF WrittenNow, Types
    <3>2. DaysOld(f)' = 0
      BY <3>1 DEF DaysOld, Day
    <3> QED BY <3>2, DurationAssumption DEF Stale
  <2> QED BY <2>1, <2>2, <2>3 DEF Put
<1>3. /\ current # NoFile => (Stale(current)' => Stale(current))
      /\ stream # NoFile => (Stale(stream)' => Stale(stream))
  BY <1>1, <1>2 DEF Types, Stale, DaysOld
<1>4. lost' => disturbed
  BY <1>1 DEF Noticed
<1> QED BY <1>1, <1>3, <1>4 DEF Noticed, Ended

(* Nothing about files changes, but a stream may have been closed.         *)
LEMMA NoticedKept ==
    ASSUME Noticed, UNCHANGED <<now, present, mtime, current, lost>>,
           stream' \in {stream, NoFile}, stream' # NoFile => broken' = broken \/ disturbed',
           disturbed => disturbed', \A t \in Threads : found'[t] \in {found[t], NoFile}, NoFile \notin Logs,
           Types,
           maint' = "ended" => disturbed', maint' = "size" => maint = "size" \/ current \in present
    PROVE  Noticed'
<1>1. \A f \in Logs : Stale(f)' => Stale(f)
  BY DEF Stale, DaysOld
<1> QED BY <1>1 DEF Noticed, Ended, Types

LEMMA NoticedNext == Inv /\ [Next]_vars => Noticed'
<1> SUFFICES ASSUME Inv, [Next]_vars PROVE Noticed'
  OBVIOUS
<1> USE FilesAssumption DEF Inv
<1>0. NoFile \notin present /\ NoFile \notin present'
  BY TypesNext DEF Types
<1>1. CASE ~Ended /\ FileAction
  <2>1. /\ UNCHANGED <<now, current, found>> /\ maint' # "ended"
        /\ maint' = "size" => maint = "size"
        /\ current # NoFile \/ UNCHANGED <<stream, broken, lost, disturbed>>
    BY <1>1, FileActions DEF Ended
  <2>2. CASE \E record \in BOOLEAN : Opened(record) /\ current # NoFile
    BY <2>1, <2>2, NoticedOpened
  <2>3. CASE Put
    BY <2>1, <2>3, NoticedPut
  <2>4. CASE Refused
    BY <2>1, <2>4, NoticedKept DEF Refused, directory, history
  <2>5. CASE \/ UNCHANGED <<stream, broken, present, mtime, written, lost, disturbed>>
             \/ /\ broken' = TRUE /\ disturbed' = TRUE
                /\ UNCHANGED <<stream, present, mtime, written, lost>>
    BY <2>1, <2>5, NoticedKept
  <2>6. CASE \E record \in BOOLEAN : Opened(record) /\ current = NoFile
    <3>1. FALSE
      BY <1>0, <2>6 DEF Opened
    <3> QED BY <3>1
  <2> QED BY <1>1, <2>2, <2>3, <2>4, <2>5, <2>6, Streams
<1>2. CASE ~Ended /\ OwnerAction
  <2>1. CASE Joined
    BY <2>1, <1>0 DEF Joined, Noticed, Ended
  <2>2. CASE Setup_assign
    <3>1. PICK f \in Logs : current' = f /\ disturbed' = (disturbed \/ current # NoFile \/ Stale(f))
      BY <2>2 DEF Setup_assign, Assign
    <3>2. /\ UNCHANGED <<now, present, mtime, stream, broken, lost, found, maint>>
      BY <2>2 DEF Setup_assign, threads, directory, purge
    <3>4. maint = "size" => disturbed'
      BY <3>1 DEF Named
    <3>5. current' # NoFile /\ Stale(current)' => disturbed'
      BY <3>1, <3>2 DEF Stale, DaysOld
    <3>6. stream' # NoFile /\ Stale(stream)' => disturbed'
      BY <3>1, <3>2 DEF Noticed, Types, Stale, DaysOld
    <3> QED BY <3>1, <3>2, <3>4, <3>5, <3>6 DEF Noticed, Ended, Stale, DaysOld
  <2>3. CASE Start \/ Reconfigure \/ Destroy \/ Notify \/ Setup_pattern \/ Call_immediately
    <3>1. UNCHANGED <<maint, now, present, mtime, current, stream, broken, found, lost, disturbed>>
      BY <2>3 DEF Start, Reconfigure, Destroy, Notify, Setup_pattern, Call_immediately,
         threads, directory, file, purge, history
    <3> QED BY <1>2, <3>1, NoticedKept DEF Ended
  <2> QED BY <1>2, <2>1, <2>2, <2>3 DEF OwnerAction
<1>3. CASE UNCHANGED vars
  BY <1>3 DEF vars, threads, directory, file, purge, history, Noticed, Ended, Stale, DaysOld
<1>4. CASE ~Ended /\ (WorkerAction \/ Returned \/ Worker_done)
  <2>1. /\ UNCHANGED <<now, present, mtime, current, stream, broken, lost, disturbed>>
        /\ maint' \in {maint, "idle"}
        /\ \A t \in Threads : found'[t] \in {found[t], NoFile}
    BY <1>4 DEF WorkerAction, Worker_check, Worker_wait, Worker_leave, Worker_call, Returned, Worker_done,
       Forget, threads, directory, file, purge, history, Types
  <2> QED BY <1>4, <2>1, NoticedKept DEF Ended
<1>5. ASSUME ~Ended, NEW t \in Threads, Purge(t) PROVE Noticed'
  <2>0. UNCHANGED <<maint, now, current, stream, broken, lost, disturbed>> /\ maint # "ended"
    BY <1>5 DEF Purge, Purge_begin, Purge_look, Purge_gone, Purge_remove, Purge_tell, Purge_counted,
       threads, file, history, Ended
  <2>1. CASE Purge_begin(t) \/ Purge_gone(t) \/ Purge_tell(t) \/ Purge_counted(t)
    <3>1. UNCHANGED <<present, mtime, found>>
      BY <2>1 DEF Purge_begin, Purge_gone, Purge_tell, Purge_counted, directory, purge
    <3> QED BY <2>0, <3>1, NoticedKept
  <2>2. CASE Purge_look(t)
    <3>1. /\ UNCHANGED <<present, mtime>>
          /\ \A u \in Threads : found'[u] = found[u] \/ Stale(found'[u])
      BY <2>2 DEF Purge_look, Types, Stale, directory
    <3>2. ASSUME NEW f, Stale(f)' PROVE Stale(f)
      BY <2>0, <3>1, <3>2 DEF Stale, DaysOld
    <3> QED BY <2>0, <3>1, <3>2 DEF Noticed, Ended, Stale, DaysOld
  <2>3. CASE Purge_remove(t)
    <3>1. \A u \in Threads : found'[u] \in {found[u], NoFile}
      BY <2>3 DEF Purge_remove, Types
    <3>2. CASE UNCHANGED directory
      BY <2>0, <3>1, <3>2, NoticedKept DEF directory
    <3>3. CASE Remove(found[t])
      <4>1. \A f \in Logs : f \in present /\ f \notin present' => Stale(f)
        BY <3>3 DEF Remove, Stale
      <4>2. \A f \in Logs : f \in present' => f \in present /\ mtime'[f] = mtime[f]
        BY <3>3 DEF Remove, Types
      <4>3. \A f \in Logs : Stale(f)' => Stale(f)
        BY <2>0, <3>1, <4>2 DEF Stale, DaysOld
      <4>4. stream # NoFile => (stream \in present' /\ ~broken) \/ disturbed
        BY <4>1 DEF Noticed, Types
      <4>5. maint = "size" /\ current \notin present' => disturbed
        BY <4>1 DEF Noticed, Types, Named
      <4>6. /\ current # NoFile /\ Stale(current)' => disturbed
            /\ stream # NoFile /\ Stale(stream)' => disturbed
        BY <2>0, <4>3 DEF Noticed, Types, Stale, DaysOld
      <4> QED BY <2>0, <4>4, <4>5, <4>6 DEF Noticed, Ended
    <3> QED BY <2>3, <3>2, <3>3 DEF Purge_remove
  <2> QED BY <1>5, <2>1, <2>2, <2>3 DEF Purge
<1>6. CASE ~Ended /\ MaintAction
  <2>1. CASE Update_assign
    <3>1. PICK f \in Logs : current' = f /\ disturbed' = (disturbed \/ Stale(f))
      BY <2>1 DEF Update_assign, Assign
    <3>2. UNCHANGED <<now, present, mtime, stream, broken, lost, found>> /\ maint' = "reopen"
      BY <2>1 DEF Update_assign, directory, purge
    <3>4. current' # NoFile /\ Stale(current)' => disturbed'
      BY <3>1, <3>2 DEF Stale, DaysOld
    <3>5. stream' # NoFile /\ Stale(stream)' => disturbed'
      BY <3>1, <3>2 DEF Noticed, Types, Stale, DaysOld
    <3> QED BY <1>6, <3>1, <3>2, <3>4, <3>5 DEF Noticed, Ended, Stale, DaysOld
  <2>2. CASE Maintenance \/ Maintenance_size \/ Update_pattern \/ Reopen_warn \/ Pattern_race
    <3>1. /\ UNCHANGED <<now, present, mtime, current, stream, broken, found, lost>>
          /\ disturbed => disturbed'
          /\ maint' = "ended" => disturbed'
          /\ maint' = "size" => current \in present
      BY <2>2 DEF Maintenance, Maintenance_size, Update_pattern, Reopen_warn, Pattern_race,
         directory, file, purge, history, Noticed
    <3> QED BY <3>1, NoticedKept
  <2> QED BY <1>6, <2>1, <2>2 DEF MaintAction
<1>7. CASE ~Ended /\ RemoveByHand
  <2>1. PICK f \in present : Remove(f) /\ disturbed' = (disturbed \/ f \in {current, stream})
    BY <1>7 DEF RemoveByHand
  <2>2. UNCHANGED <<maint, now, current, stream, broken, found, lost>>
    BY <1>7 DEF RemoveByHand, threads, file, purge
  <2>3. \A g \in Logs : g \in present' => g \in present /\ mtime'[g] = mtime[g]
    BY <2>1 DEF Remove, Types
  <2>4. \A g : g \in present /\ g \notin present' => g = f
    BY <2>1 DEF Remove
  <2>5. \A g \in Logs : Stale(g)' => Stale(g)
    BY <2>2, <2>3 DEF Stale, DaysOld
  <2>6. stream # NoFile => (stream \in present' /\ ~broken) \/ disturbed'
    BY <2>1, <2>4 DEF Noticed
  <2>7. maint = "size" /\ current \notin present' => disturbed'
    BY <2>1, <2>4 DEF Noticed
  <2>8. /\ current # NoFile /\ Stale(current)' => disturbed'
        /\ stream # NoFile /\ Stale(stream)' => disturbed'
    BY <2>1, <2>2, <2>5 DEF Noticed, Types, Stale, DaysOld
  <2> QED BY <1>7, <2>1, <2>2, <2>6, <2>7, <2>8 DEF Noticed, Ended
<1>8. CASE ~Ended /\ Tick
  <2>1. UNCHANGED <<maint, present, mtime, current, stream, broken, found, lost>> /\ (disturbed => disturbed')
    BY <1>8 DEF Tick, threads, directory, file, purge
  <2>2. ASSUME NEW f \in {current, stream}, f # NoFile, Stale(f)' PROVE disturbed'
    <3>1. CASE \E t \in Threads : found[t] = f
      BY <2>1, <2>2, <3>1 DEF Noticed, Stale
    <3>2. CASE f \in present /\ (now' - mtime[f]) \div Day > Duration
      BY <1>8, <2>2, <3>2 DEF Tick
    <3> QED BY <2>1, <2>2, <3>1, <3>2 DEF Stale, DaysOld
  <2>3. /\ current' # NoFile /\ Stale(current)' => disturbed'
        /\ stream' # NoFile /\ Stale(stream)' => disturbed'
    BY <2>1, <2>2
  <2> QED BY <1>8, <2>1, <2>3 DEF Noticed, Ended
<1> QED BY <1>1, <1>2, <1>3, <1>4, <1>5, <1>6, <1>7, <1>8, Steps

LEMMA NamedNext == Inv /\ [Next]_vars => Named'
<1> SUFFICES ASSUME Inv, [Next]_vars PROVE Named'
  OBVIOUS
<1> USE LockAssumption, FilesAssumption DEF Inv, Named, Goto, Types, Threads, InPurge
<1>1. CASE FileAction
  BY <1>1, FileActions
<1>2. CASE OwnerAction \/ Returned
  BY <1>2 DEF OwnerAction, Start, Reconfigure, Destroy, Notify, Joined, Setup_pattern, Setup_assign,
     Call_immediately, Returned, Assign, threads, file
<1>3. CASE WorkerAction \/ Worker_done
  BY <1>3 DEF WorkerAction, Worker_check, Worker_wait, Worker_leave, Worker_call, Worker_done, threads, file
<1>4. CASE \E t \in Threads : Purge(t)
  <2>1. current' = current
    BY <1>4 DEF Purge, Purge_begin, Purge_look, Purge_gone, Purge_remove, Purge_tell, Purge_counted, file
  <2> QED BY <1>4, <2>1, PurgeSteps DEF threads
<1>5. CASE MaintAction \/ RemoveByHand \/ Tick \/ UNCHANGED vars
  BY <1>5 DEF MaintAction, Maintenance, Maintenance_size, Update_pattern, Update_assign, Reopen_warn,
     Pattern_race, RemoveByHand, Tick, Assign, vars, threads, file
<1> QED BY <1>1, <1>2, <1>3, <1>4, <1>5, Steps

LEMMA InvNext == Inv /\ [Next]_vars => Inv'
BY TypesNext, ExcludeNext, KnowsNext, NoticedNext, NamedNext DEF Inv

-----------------------------------------------------------------------------
(* The invariant that the theorems below rest on.                          *)
THEOREM CleanupInvariant == Spec => []Inv
BY InvInit, InvNext, PTL DEF Spec

(* Every thread is where it can be, and only a worker that is joined is    *)
(* asked to stop.                                                          *)
OwnerPlaces == {"idle", "join", "notify", "destroy", "setup", "pattern", "assign", "open", "call",
                "begin", "entries", "remove", "tell", "finish"}
WorkerPlaces == {"gone", "entering", "checked", "waiting", "woken",
                 "begin", "entries", "remove", "tell", "finish"}
MaintPlaces == {"off", "idle", "size", "update", "pattern", "assign", "reopen", "warn", "ended"}

Places ==
    /\ logger \in {Free, Owner} /\ mutex \in {Free, Owner, Worker}
    /\ pc[Owner] \in OwnerPlaces /\ pc[Worker] \in WorkerPlaces /\ maint \in MaintPlaces
    /\ stop \in BOOLEAN /\ (stop => pc[Owner] \in {"notify", "destroy"})
    /\ now \in 0 .. MaxTime

LEMMA PlacesNext == Places /\ Inv /\ [Next]_vars => Places'
<1> SUFFICES ASSUME Places, Inv, [Next]_vars PROVE Places'
  OBVIOUS
<1>0. pc = [t \in Threads |-> pc[t]]
  BY DEF Inv, Types
<1> USE <1>0, LockAssumption, TimeAssumption DEF Places, Goto, Threads, locks,
        OwnerPlaces, WorkerPlaces, MaintPlaces
<1>1. CASE FileAction
  BY <1>1, FileActions DEF Inv
<1>2. CASE OwnerAction \/ Returned
  <2>1. CASE Start \/ Reconfigure
    BY <2>1 DEF Start, Reconfigure, threads
  <2>2. CASE Destroy \/ Joined
    BY <2>2 DEF Destroy, Joined
  <2>3. CASE Notify
    BY <2>3 DEF Notify, threads
  <2>4. CASE Setup_pattern
    BY <2>4 DEF Setup_pattern
  <2>5. CASE Setup_assign
    BY <2>5 DEF Setup_assign, threads
  <2>6. CASE Call_immediately
    BY <2>6 DEF Call_immediately, threads
  <2>7. CASE Returned
    BY <2>7 DEF Returned
  <2> QED BY <1>2, <2>1, <2>2, <2>3, <2>4, <2>5, <2>6, <2>7 DEF OwnerAction
<1>3. CASE WorkerAction \/ Worker_done
  <2>1. CASE Worker_check
    BY <2>1 DEF Worker_check, threads
  <2>2. CASE Worker_wait \/ Worker_leave
    BY <2>2 DEF Worker_wait, Worker_leave, threads
  <2>3. CASE Worker_call
    <3>1. /\ UNCHANGED <<logger, threads, now>> /\ mutex' = Worker
          /\ pc'[Worker] = "begin" /\ pc'[Owner] = pc[Owner]
      BY <2>3 DEF Worker_call
    <3> QED BY <3>1 DEF threads
  <2>4. CASE Worker_done
    BY <2>4 DEF Worker_done, threads
  <2> QED BY <1>3, <2>1, <2>2, <2>3, <2>4 DEF WorkerAction
<1>4. CASE \E t \in Threads : Purge(t)
  BY <1>4, PurgeSteps DEF InPurge, threads
<1>5. CASE MaintAction
  BY <1>5 DEF MaintAction, Maintenance, Maintenance_size, Update_pattern, Update_assign, Reopen_warn,
     Pattern_race
<1>6. CASE RemoveByHand \/ UNCHANGED vars
  BY <1>6 DEF RemoveByHand, vars, threads
<1>7. CASE Tick
  BY <1>7 DEF Tick, threads
<1> QED BY <1>1, <1>2, <1>3, <1>4, <1>5, <1>6, <1>7, Steps

LEMMA PlacesTyped == Places /\ Inv => TypeOK
<1> SUFFICES ASSUME Places, Inv PROVE TypeOK
  OBVIOUS
<1>1. mtime \in [Logs -> 0 .. MaxTime]
  BY TimeAssumption DEF Places, Inv, Types
<1> QED BY <1>1 DEF Places, Inv, Types, TypeOK, OwnerPlaces, WorkerPlaces, MaintPlaces

(* Every variable has its type.                                            *)
THEOREM TypesHold == Spec => []TypeOK
<1>1. ASSUME Init PROVE Places
  <2>1. pc[Owner] = "idle" /\ pc[Worker] = "gone"
    BY <1>1, LockAssumption DEF Init, Threads
  <2>2. logger = Free /\ mutex = Free /\ stop = FALSE /\ maint = "off" /\ now \in 0 .. MaxTime
    BY <1>1, TimeAssumption DEF Init
  <2> QED BY <2>1, <2>2 DEF Places, OwnerPlaces, WorkerPlaces, MaintPlaces
<1> QED BY <1>1, PlacesNext, PlacesTyped, CleanupInvariant, PTL DEF Spec

(* The two threads that purge do it one after the other, whatever they     *)
(* wait for.                                                               *)
THEOREM PurgesAlone == Spec => []PurgesExclude
<1>1. Inv => PurgesExclude
  BY DEF Inv
<1> QED BY <1>1, CleanupInvariant, PTL

(* A purge in which nothing fails leaves no file that was old when it      *)
(* began and was not written since.                                        *)
THEOREM PurgesEverything == Spec => []PurgeIsComplete
<1>1. Inv => PurgeIsComplete
  BY FilesAssumption DEF Inv, Types, Knows, PurgeIsComplete
<1> QED BY <1>1, CleanupInvariant, PTL

(* The current file gets lost, or ends the program, in the named cases     *)
(* only.                                                                   *)
THEOREM CurrentStays == Spec => []CurrentFileIsSafe
<1>1. Inv => CurrentFileIsSafe
  BY DEF Inv, Noticed, CurrentFileIsSafe
<1> QED BY <1>1, CleanupInvariant, PTL

(* Whatever happens to the directory while a purge goes on, the file that  *)
(* it removes is old, or was old and is written or made anew meanwhile.    *)
THEOREM OldIsRemoved == Spec => RemovesOnlyOld
<1> DEFINE A == \A t \in Threads : pc[t] = "remove" /\ pc'[t] = "tell" =>
                   \A f \in present \ present' : f \notin written[t] => DaysOld(f) > Duration
<1>1. Inv /\ [Next]_vars => A
  <2> SUFFICES ASSUME Inv, [Next]_vars, NEW t \in Threads, pc[t] = "remove", pc'[t] = "tell",
                      NEW f \in present \ present', f \notin written[t]
               PROVE  Old(f)
    BY DEF Old
  <2> USE LockAssumption DEF Inv, Types, Goto, InPurge, Threads
  <2>1. Purge(t)
    <3>1. \A u \in Threads : Purge(u) => u = t
      BY PurgeSteps DEF PurgesExclude
    <3>2. CASE FileAction
      BY <3>2, FileActions
    <3>3. CASE OwnerAction \/ Returned \/ WorkerAction \/ Worker_done
      BY <3>3 DEF OwnerAction, Start, Reconfigure, Destroy, Notify, Joined, Setup_pattern, Setup_assign,
         Call_immediately, Returned, WorkerAction, Worker_check, Worker_wait, Worker_leave, Worker_call,
         Worker_done
    <3>4. CASE MaintAction \/ RemoveByHand \/ Tick \/ UNCHANGED vars
      BY <3>4 DEF MaintAction, Maintenance, Maintenance_size, Update_pattern, Update_assign, Reopen_warn,
         Pattern_race, RemoveByHand, Tick, vars
    <3> QED BY <3>1, <3>2, <3>3, <3>4, Steps
  <2>2. Purge_remove(t)
    BY <2>1 DEF Purge, Purge_begin, Purge_look, Purge_gone, Purge_tell, Purge_counted
  <2>3. f = found[t]
    BY <2>2 DEF Purge_remove, Remove, directory
  <2> QED BY <2>3 DEF Knows
<1>2. Spec => [][A]_vars
  BY <1>1, CleanupInvariant, PTL DEF Spec
<1> QED BY <1>2 DEF RemovesOnlyOld

=============================================================================
