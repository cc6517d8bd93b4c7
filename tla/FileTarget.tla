----------------------------- MODULE FileTarget -----------------------------
(***************************************************************************)
(* FileTarget with Target::Write_log: the output stream, the name of the   *)
(* current file, the retry of a write after a refresh, the setup and the   *)
(* rotation by the maintenance thread.                                     *)
(*                                                                         *)
(* Three threads use a file target without a lock of its own: the one that *)
(* writes (module Logger shows that writers exclude each other), the one   *)
(* that calls Start, and the maintenance thread.  A step is one operation  *)
(* on the stream: these are data races in the code, and the outcomes       *)
(* modelled are those of operations that take effect one after the other.  *)
(***************************************************************************)
EXTENDS Naturals, Sequences

CONSTANTS Writer, Starter, Maint,   \* the three threads
          NoName,               \* _current_filename before the first setup
          Names,                \* the file names that follow each other in time: 1 .. n
          LogFrequency,         \* whether _log_frequency is not zero
          MaxFilesize,          \* whether _max_filesize_bytes is not zero
          StorageDuration,      \* whether _log_storage_duration is not zero
          OpensFail, DirsFail, WritesFail,   \* what the file system may refuse
          FilesVanish,          \* whether log files are removed, by a purge or by hand
          MaxRecords,           \* bound: records, after which only the target writes some
          MaxSetups,            \* bound: calls of Start
          MaxRotations          \* bound: rotations

ASSUME ThreadsAssumption == Writer # Maint /\ Writer # Starter /\ Starter # Maint
ASSUME NamesAssumption == Names \subseteq Nat /\ NoName \notin Names
ASSUME FlagsAssumption ==
    {LogFrequency, MaxFilesize, StorageDuration, OpensFail, DirsFail, WritesFail, FilesVanish}
        \subseteq BOOLEAN
ASSUME BoundsAssumption == {MaxRecords, MaxSetups, MaxRotations} \subseteq Nat

Threads == {Writer, Starter, Maint}

VARIABLES
    isOpen,            \* whether the stream's buffer is on a file
    good,              \* whether no error bit of the stream is set
    on,                \* the file the stream is on
    current,           \* _current_filename
    interval,          \* whether _filename_update_interval has a value
    maintained,        \* should_perform_maintenance of the target's slot
    pc,                \* where each thread is
    due,               \* update_filename of Maintenance: whether to rotate
    attempt,           \* which call of Try_write_log or Reopen_file it is in
    rec,               \* the record it writes
    files,             \* what has been written to each file, removed since or not
    records, setups, rotations,   \* counted
    reported, failed   \* history: records whose write was reported to have worked, to have failed

stream == <<isOpen, good, on>>
target == <<current, interval, maintained>>
history == <<reported, failed>>
counted == <<records, setups, rotations>>
vars == <<stream, target, pc, attempt, due, rec, files, counted, history>>

Init ==
    /\ isOpen = FALSE /\ good = TRUE /\ on = NoName
    /\ current = NoName
    /\ interval = FALSE
    /\ maintained = FALSE
    /\ pc = [t \in Threads |-> "idle"]
    /\ due = FALSE
    /\ attempt = [t \in Threads |-> "first"]
    /\ rec = [t \in Threads |-> 0]
    /\ files = [n \in Names |-> <<>>]
    /\ records = 0 /\ setups = 0 /\ rotations = 0
    /\ reported = {} /\ failed = {}

-----------------------------------------------------------------------------
(* std::ofstream.                                                          *)

(* close: an error when the stream is not open.                            *)
Close ==
    /\ isOpen' = FALSE
    /\ on' = NoName
    /\ good' = (good /\ isOpen)

(* open: an error when the stream is open already, which leaves it on its  *)
(* file, or when the system refuses; otherwise the error bits are cleared. *)
Open ==
    IF isOpen
    THEN good' = FALSE /\ UNCHANGED <<isOpen, on>>
    ELSE \/ /\ current # NoName
            /\ isOpen' = TRUE /\ on' = current /\ good' = TRUE
         \/ /\ current = NoName \/ OpensFail
            /\ good' = FALSE /\ UNCHANGED <<isOpen, on>>

(* operator<<: nothing is written when an error bit is set already.        *)
Put(record) ==
    \/ /\ isOpen /\ good
       /\ files' = [files EXCEPT ![on] = Append(@, record)]
       /\ UNCHANGED stream
    \/ /\ ~isOpen \/ ~good \/ WritesFail
       /\ good' = FALSE
       /\ UNCHANGED <<isOpen, on, files>>

-----------------------------------------------------------------------------
(* Target::Write_log, Try_write_log, Refresh and Reopen_file on thread t.  *)

(* No thread takes a step once the program has been terminated.            *)
Goto(t, label) == pc[Maint] # "terminated" /\ pc' = [pc EXCEPT ![t] = label]

(* The thread begins to write a new record.                                *)
BeginWrite(t) ==
    /\ records' = records + 1
    /\ rec' = [rec EXCEPT ![t] = records + 1]
    /\ attempt' = [attempt EXCEPT ![t] = "first"]
    /\ Goto(t, "try")

(* Write_log is over: back to the caller of the logger, or to              *)
(* Update_filename, which wrote the record itself.                         *)
EndWrite(t) == Goto(t, IF t = Writer THEN "idle" ELSE "directories")

(* Mutant: the stream is used without a look at is_open.                   *)
Try_unchecked(t) ==
    /\ pc[t] = "try"
    /\ Goto(t, "put")
    /\ UNCHANGED <<stream, target, attempt, due, rec, files, counted, history>>

Try(t) ==
    /\ pc[t] = "try"
    /\ Goto(t, IF isOpen THEN "put" ELSE "close")
    /\ UNCHANGED <<stream, target, attempt, due, rec, files, counted, history>>

(* Mutant: the close is left out.                                          *)
Reopen_close_skipped(t) ==
    /\ pc[t] = "close"
    /\ Goto(t, "check")
    /\ UNCHANGED <<stream, target, attempt, due, rec, files, counted, history>>

Reopen_close(t) ==
    /\ pc[t] = "close"
    /\ Close
    /\ Goto(t, "check")
    /\ UNCHANGED <<target, attempt, due, rec, files, counted, history>>

Reopen_check(t) ==
    /\ pc[t] = "check"
    /\ Goto(t, IF isOpen THEN "reopened" ELSE "open")
    /\ UNCHANGED <<stream, target, attempt, due, rec, files, counted, history>>

Reopen_open(t) ==
    /\ pc[t] = "open"
    /\ Open
    /\ Goto(t, "reopened")
    /\ UNCHANGED <<target, attempt, due, rec, files, counted, history>>

(* Reopen_file returns is_open: a write goes on, or its record has failed  *)
(* once (then Write_log refreshes) or for good; a rotation is over.        *)
Reopen_done(t) ==
    /\ pc[t] = "reopened"
    /\ \/ /\ attempt[t] = "rotate"
          /\ Goto(t, "idle") /\ UNCHANGED <<attempt, failed>>
       \/ /\ attempt[t] \in {"first", "second"} /\ isOpen
          /\ Goto(t, "put") /\ UNCHANGED <<attempt, failed>>
       \/ /\ attempt[t] = "first" /\ ~isOpen
          /\ attempt' = [attempt EXCEPT ![t] = "refresh"]
          /\ Goto(t, "close") /\ UNCHANGED failed
       \/ /\ attempt[t] = "refresh" /\ isOpen
          /\ attempt' = [attempt EXCEPT ![t] = "second"]
          /\ Goto(t, "try") /\ UNCHANGED failed
       \/ /\ attempt[t] \in {"refresh", "second"} /\ ~isOpen
          /\ failed' = failed \cup {rec[t]}
          /\ EndWrite(t) /\ UNCHANGED attempt
    /\ UNCHANGED <<stream, target, due, rec, files, counted, reported>>

(* Mutant: the record is written, and then the target refreshed and the    *)
(* record written again, as if Try_write_log had failed.                   *)
Put_record_retried(t) ==
    /\ pc[t] = "put"
    /\ Put(rec[t])
    /\ IF attempt[t] = "first"
       THEN /\ attempt' = [attempt EXCEPT ![t] = "refresh"]
            /\ Goto(t, "close") /\ UNCHANGED reported
       ELSE /\ reported' = reported \cup {rec[t]}
            /\ EndWrite(t) /\ UNCHANGED attempt
    /\ UNCHANGED <<target, due, rec, counted, failed>>

(* The record is put on the stream, whose state is not looked at: the      *)
(* result says that it worked.                                             *)
Put_record(t) ==
    /\ pc[t] = "put"
    /\ Put(rec[t])
    /\ reported' = reported \cup {rec[t]}
    /\ EndWrite(t)
    /\ UNCHANGED <<target, attempt, due, rec, counted, failed>>

(* Who writes beside a Start is the logging thread, of an earlier Start.   *)
Write_log ==
    /\ pc[Writer] = "idle"
    /\ pc[Starter] # "idle" => setups > 1
    /\ records < MaxRecords
    /\ BeginWrite(Writer)
    /\ UNCHANGED <<stream, target, due, files, setups, rotations, history>>

-----------------------------------------------------------------------------
(* Setup, Maintenance, Update_filename.                                    *)

(* The first Start finds no logging thread; a later one sets the target up *)
(* while that thread may be writing to it.                                 *)
Setup ==
    /\ pc[Starter] = "idle"
    /\ pc[Writer] # "idle" => setups > 0
    /\ setups < MaxSetups
    /\ setups' = setups + 1
    /\ Goto(Starter, "update")
    /\ UNCHANGED <<stream, target, attempt, due, rec, files, records, rotations, history>>

(* Update_filename tells the old file, if there is one.                    *)
Update_transfer(t) ==
    /\ pc[t] = "update"
    /\ IF current # NoName
       THEN BeginWrite(t)
       ELSE Goto(t, "directories") /\ UNCHANGED <<records, rec, attempt>>
    /\ UNCHANGED <<stream, target, due, files, setups, rotations, history>>

(* It throws when the directories cannot be made: Initialize catches that  *)
(* when the target is set up, nobody does on the maintenance thread.       *)
Update_directories(t) ==
    /\ pc[t] = "directories"
    /\ \/ /\ \E n \in Names : (current # NoName => n >= current) /\ current' = n
          /\ Goto(t, IF t = Starter THEN "setup_open" ELSE "close")
          /\ attempt' = [attempt EXCEPT ![t] = "rotate"]
       \/ /\ DirsFail
          /\ Goto(t, IF t = Starter THEN "idle" ELSE "terminated")
          /\ UNCHANGED <<current, attempt>>
    /\ UNCHANGED <<stream, interval, maintained, due, rec, files, counted, history>>

(* Setup opens the file, without a close.                                  *)
Setup_open ==
    /\ pc[Starter] = "setup_open"
    /\ Open
    /\ Goto(Starter, "setup_end")
    /\ UNCHANGED <<target, attempt, due, rec, files, counted, history>>

(* Mutant: the interval is left to the cleanup worker.                     *)
Setup_end_no_interval ==
    /\ pc[Starter] = "setup_end"
    /\ maintained' = TRUE
    /\ Goto(Starter, "idle")
    /\ UNCHANGED <<stream, current, interval, attempt, due, rec, files, counted, history>>

(* The interval of the rotation is set up with the cleanup worker only.    *)
Setup_end ==
    /\ pc[Starter] = "setup_end"
    /\ interval' = (interval \/ StorageDuration)
    /\ maintained' = TRUE
    /\ Goto(Starter, "idle")
    /\ UNCHANGED <<stream, current, attempt, due, rec, files, counted, history>>

(* Maintenance looks at the time, then at the size of the file.            *)
Maintenance ==
    /\ pc[Maint] = "idle"
    /\ maintained
    /\ Goto(Maint, IF LogFrequency THEN "time" ELSE "size")
    /\ due' = FALSE
    /\ UNCHANGED <<stream, target, attempt, rec, files, counted, history>>

(* _filename_update_interval->Get_next_timestamp(): when it has no value   *)
(* anything can come out of it, a division by zero as well.                *)
Maintenance_time ==
    /\ pc[Maint] = "time"
    /\ \/ Goto(Maint, "size") /\ UNCHANGED due
       \/ rotations < MaxRotations /\ Goto(Maint, "size") /\ due' = TRUE
       \/ ~interval /\ Goto(Maint, "terminated") /\ UNCHANGED due
    /\ UNCHANGED <<stream, target, attempt, rec, files, counted, history>>

(* The rotation begins, or this round of the maintenance is over.          *)
Decide(rotate) ==
    IF rotate
    THEN /\ rotations < MaxRotations
         /\ rotations' = rotations + 1
         /\ Goto(Maint, "update")
    ELSE Goto(Maint, "idle") /\ UNCHANGED rotations

(* With a limit the file is asked for; one that is not there is not large. *)
Maintenance_size ==
    /\ pc[Maint] = "size"
    /\ \/ MaxFilesize /\ Goto(Maint, "measure") /\ UNCHANGED rotations
       \/ Decide(due)
    /\ UNCHANGED <<stream, target, attempt, due, rec, files, records, setups, history>>

(* file_size of the file that was there: it throws when it is gone since.  *)
Maintenance_measure ==
    /\ pc[Maint] = "measure"
    /\ \/ \E large \in BOOLEAN : Decide(due \/ large)
       \/ FilesVanish /\ Goto(Maint, "terminated") /\ UNCHANGED rotations
    /\ UNCHANGED <<stream, target, attempt, due, rec, files, records, setups, history>>

-----------------------------------------------------------------------------

WriteStep(t) ==
    \/ Try(t) \/ Reopen_close(t) \/ Reopen_check(t) \/ Reopen_open(t) \/ Reopen_done(t)
    \/ Put_record(t) \/ Update_transfer(t) \/ Update_directories(t)

(* Nobody has to log, and nothing follows the end of the program.          *)
Quiet == (pc[Writer] = "idle" \/ pc[Maint] = "terminated") /\ UNCHANGED vars

Next ==
    \/ Write_log
    \/ Setup \/ Setup_open \/ Setup_end
    \/ Maintenance \/ Maintenance_time \/ Maintenance_size \/ Maintenance_measure
    \/ \E t \in Threads : WriteStep(t)
    \/ Quiet

Spec == Init /\ [][Next]_vars

-----------------------------------------------------------------------------
(* Properties.                                                             *)

InFile(r, n) == \E i \in DOMAIN files[n] : files[n][i] = r
Written == {r \in 1 .. records : \E n \in Names : InFile(r, n)}

(* Every variable has its type, and an open stream is on a file with a     *)
(* name.                                                                   *)
TypeOK ==
    /\ isOpen \in BOOLEAN /\ good \in BOOLEAN
    /\ isOpen <=> on \in Names
    /\ on \in Names \cup {NoName} /\ current \in Names \cup {NoName}
    /\ interval \in BOOLEAN /\ maintained \in BOOLEAN
    /\ pc \in [Threads -> {"idle", "try", "close", "check", "open", "reopened", "put", "update",
                           "directories", "setup_open", "setup_end", "time", "size", "measure", "terminated"}]
    /\ due \in BOOLEAN
    /\ attempt \in [Threads -> {"first", "refresh", "second", "rotate"}]
    /\ rec \in [Threads -> 0 .. records]
    /\ files \in [Names -> Seq(1 .. records)]
    /\ records \in Nat /\ setups \in Nat /\ rotations \in Nat
    /\ reported \subseteq 1 .. records /\ failed \subseteq 1 .. records

(* "@return result letting caller know if the record was written           *)
(* successfully": a record reported as written is in a file.               *)
ReportedIsWritten == reported \subseteq Written

(* It is, on a disk that takes what is written, as long as the target has  *)
(* been set up once and never rotated, whatever cannot be opened or made.  *)
ReportedUnlessDisturbed ==
    ~WritesFail /\ setups <= 1 /\ rotations = 0 => ReportedIsWritten

(* A record reported to have failed is in no file: the fallback target     *)
(* does not repeat what the target has written.                            *)
FailedIsNotWritten == failed \cap (Written \cup reported) = {}

(* A record is in the files once at most, although Write_log tries twice.  *)
WrittenOnce ==
    \A n, m \in Names : \A i \in DOMAIN files[n], j \in DOMAIN files[m] :
        files[n][i] = files[m][j] => n = m /\ i = j

(* While nobody is at work on the target, an open stream is on the current *)
(* file: records do not go to a file that has been rotated away.  (A       *)
(* second Setup leaves the stream as it is.)                               *)
StreamOnCurrent ==
    isOpen /\ setups <= 1 /\ (\A t \in Threads : pc[t] \in {"idle", "time", "size", "measure"}) => on = current

(* The maintenance thread, and the program with it, is ended only by a     *)
(* directory that cannot be made, once the old file has been told; by a    *)
(* file that is removed between exists and file_size, which takes a limit  *)
(* of its size; and by an interval that is missing, which takes a rotation *)
(* without a cleanup.                                                      *)
MaintenanceEnds ==
    [][pc[Maint] # "terminated" /\ pc'[Maint] = "terminated" =>
          \/ LogFrequency /\ ~StorageDuration
          \/ MaxFilesize /\ FilesVanish /\ pc[Maint] = "measure"
          \/ DirsFail /\ pc[Maint] = "directories" /\ rec[Maint] \in reported \cup failed]_vars

=============================================================================
