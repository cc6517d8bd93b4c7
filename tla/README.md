# A TLA+ model of the MessirLogger library

The repository is a C++20 logging library. Application threads call `Log_entry` (mostly through the
`MSS_*` macros) on one global logger; records wait in a queue until a logging thread hands them to
*targets* (standard output, standard error, files), chosen by *dispatch rules*; a maintenance thread
rotates files; a file target may own a *scheduled caller*, a thread that purges old files at midnight.
Everything of interest is under `src/Source/SharedLibraries/CommonTools/`.

Paths below are relative to that directory. Line numbers are those of the sources beside this project.

## 1. Inventory

| Component | State | Operations | Talks to |
| --- | --- | --- | --- |
| **Logger: queue, threads, life cycle** (`Logger.cpp` 539-662, 699-713, 833-875) | `_logger_mutex` (recursive), `_log_records`, `_logging_smph`, `_logging_thread`, `_maintenance_thread`, `_asynchronous_mode` | `Log_entry`, `Start`, `Stop`, `~Logger`, `Reconfigure`, `Logging_thread`, `Maintenance_thread`, `Process_logs` | the registry for each record; targets; targets log back through the global logger |
| **Dispatch: registry and fallback** (`Logger.cpp` 541-577, 664-697, 730-848) | `_targets`, `_dispatch_keys`, `_use_fallback`, `_fallback_target` | `Configure`, `Add_target`, `Get_config`, `Initialize`, `Write_log` | targets |
| **File target** (`LogTargetFile.cpp`, `Target::Write_log` at `Logger.cpp` 506-523) | `_file`, `_current_filename`, `_filename_update_interval`, sizes and frequencies | `Setup`, `Maintenance`, `Update_filename`, `Reopen_file`, `Refresh`, `Try_write_log` | file system; called by the logging (or calling) thread *and* the maintenance thread, without a lock of its own |
| **ScheduledCaller** (`ScheduleUtils.cpp` 88-174) | `_thread` and its stop token, `_mutex`, `_condition_variable`, `_optional_call_time`, `_is_running` | `Start`, `Stop`, `Stop_after_call`, `Request_call_early`, `Call_immediately`, `Is_running`, the worker | its function, which may call it back |
| **TimeInterval** (`ScheduleUtils.cpp` 9-81) | `_interval`, `_offset`, `_time` | the timestamps before and after a time, the wait | used by `ScheduledCaller` and by file rotation |
| **Cleanup worker** (`LogTargetFile.cpp` 187-209, `ProcessName.cpp` 46-102) | a `ScheduledCaller`, a regular expression, the directory | purge files older than a number of days | logs through the global logger while it holds the caller's mutex |
| **Configuration files** (`Logger.cpp` 877-970) | a JSON file and its backups | `Save_config`, `Load_config`, `Backup_config` | the registry, the serialisation, the user's editor |
| **Configuration classes, JSON serialisation** (`Logger.cpp` 131-345, `LogTargetFile.cpp` 17-102, `SerializerJSON.h`) | none | `Serialize`, `Deserialize`, the schemas | configuration files |
| **Formatter** (`Logger.cpp` 371-498, 974-985, `LogTargetFile.cpp` 105-156, 303-400) | none | token replacement, names of log files and the expression for them, `log_line` | targets, the purge |
| **Standard targets, `LogKindSet`, process name, helpers, tests** | little or none | | |

What makes it hard, and what makes each component correct:

* **Logger.** The logging thread reads `_log_records.empty()` without the mutex, consumes a token of
  the semaphore *before* it tries the mutex, and writes its batch *after* it has given the mutex
  back; `Stop` joins both threads under the mutex and then flushes; `Reconfigure` clears vectors the
  two threads iterate without a lock; the maintenance thread logs, that is, takes the mutex that
  `Stop` holds. Correct means: each record is written once and in order, through changes of mode and
  any `Stop`; writers exclude each other; `Reconfigure` finds no other thread; calls return.
* **Dispatch.** Rules repeat, overlap, and name targets that are missing; targets throw while they
  are set up. Correct means: routing is what the configuration says, survives a save, and the
  fallback target takes what others fail to write exactly when it should.
* **File target.** The stream has error bits, operations that fail, and three threads on it. Correct
  means: the result of a write tells the truth, nothing is written twice, the stream ends on the
  current file, and no failure of the file system ends the program.
* **ScheduledCaller.** Notifications without the mutex, a stop token and a flag that age
  differently, requests from inside and outside the function. Correct means: the function is never
  run twice at once, `Stop` returns and soon, the call that it finds decided on is the last, requests are
  honoured.
* **TimeInterval.** Rounding to whole seconds and the offset. Correct means: not early, not twice.
* **Cleanup worker.** The purge runs on two threads and takes two mutexes in the other order than
  `Start`; files are written, opened and removed by others while it goes on. Correct means: one purge
  at a time, all old files and no others are removed, and not the one that is being written.
* **Configuration files.** A save truncates before it writes, either may fail, what cannot be read is
  renamed. Correct means: a configuration saved and loaded is the same, no backup is overwritten, and
  nothing is lost but by a save that was cut short.
* **Formatter.** Tokens are replaced in the order of an `unordered_map`, in a text that already holds
  the user's message; names of files and the expression that must match them are made separately.
  Correct means: the order does not show, the target's own files match and no others.

The hazards are listed, each at its line and with the properties that guard it, in `PROJECT.json`.

## 2. Modules

| Module | Models | Composition |
| --- | --- | --- |
| `LogChannel` | what the logger promises: a FIFO channel that delivers each accepted record once | abstract specification |
| `Logger` | queue, mutex, semaphore, both threads, all calls | implements `LogChannel` (`ImplementsChannel`, `delivered <- written`) |
| `MCLogger` | symmetry for the model checker | extends `Logger` |
| `LoggerProofs` | theorems about `Logger` | extends `Logger` |
| `Rules` | how `Configure` merges dispatch entries into keys, as functions | used by `Dispatch` and `ConfigJson` |
| `RulesProofs` | what the keys made of any list of entries are; induction along a sequence | extends `Rules`, used by `DispatchProofs` and `ConfigStoreProofs` |
| `Dispatch`, `MCDispatch`, `DispatchProofs` | registry, routing, fallback; three configurations, targets of the application's own; theorems | extends `Rules` |
| `FileTarget`, `FileTargetProofs` | stream, name, retry, setup, rotation on three threads; theorems | |
| `ScheduledCaller` | worker and owner, without time | |
| `TimeInterval` | the arithmetic, as operators | used by `Schedule` |
| `Schedule` | the worker's loop with a clock | extends `TimeInterval` |
| `CallerProofs` | theorems about both models of the caller | extends `ScheduledCaller` and `Schedule`, whose names differ for that reason (`TimedSpec`, `asked` for what is `early` in the other) |
| `Cleanup`, `CleanupProofs` | a file target's worker, `Start` and `Reconfigure` around it, rotation, the directory | composes logger, target, caller and file system as far as locks and files go |
| `ConfigJson` | configurations, their JSON and the way back, as functions | extends `Rules` |
| `ConfigStore`, `MCConfigStore`, `ConfigStoreProofs` | saving, loading and backups of two loggers on one file; documents; theorems | extends `ConfigJson` |
| `Formatter`, `MCFormatter`, `FormatterProofs` | the texts of a record, of a file name and of the expression; formats and configurations; theorems | |

`ScheduledCaller`, `Schedule`, `FileTarget` and `Cleanup` need no definitions for the model checker; their
configurations name them directly.

### How the state corresponds

**Logger.** `mutex` is the owner of `_logger_mutex` (the recursion is implicit: a nested `Log_entry`,
`Start` or `Stop` of the owner does not lock again, and the actions are the bodies). `queue` is
`_log_records`, `sem` the count of `_logging_smph`. `lpc`/`lstop` are the logging thread and its stop
token, `batch` its `tmp_records`; `pc[Maint]`/`mstop` are the maintenance thread; `"none"` is "not
joinable", `"exit"` "returned and not joined". `pc[c]`, `call[c]`, `ret[c]` tell where an application
thread is; `flush` is the `tmp_records` of `Process_logs` when `Stop` runs it. A release on a semaphore
that is 1 already breaks the precondition of `std::binary_semaphore`; the model lets the count grow or
stay. `_log_records.empty()` races with `emplace_back` under the mutex: `EmptyRead` lets either answer
be read then. `accepted` and `written` are history: what `Log_entry` took in, in the order it got the
mutex, and what `Logger::Write_log` ran for. `TargetsLog` says whether targets log when they are set
up and rotated, as file targets do. In `~Logger` and `Stop` the steps are the same.

**Dispatch.** A target is the number of its creation, so that a key holds targets and not names, as
the code's `shared_ptr`s do. Operations are atomic, since they run under the mutex. A record is
written in any state, by any rule; a file target may fail, the standard ones do not. `AddedTargets` are
the targets that the application may hand to `Add_target`, which takes any: those of type `"unknown"` are
classes of its own, with the type `LOG_TARGET_COUNT` as in the tests and in `src/README.md`. They may fail
and throw like file targets, and no configuration can make one.

**FileTarget.** `isOpen`, `good`, `on` are the stream: whether its buffer is on a file, whether an
error bit is set, which file. `open` on an open stream sets the error bit and changes nothing else;
`operator<<` with an error bit set writes nothing; a successful `open` clears the bits. Names of files
are numbers that never go down, because they are made of the time; equal numbers are two rotations
within the resolution of the name. `attempt` tells which call of `Try_write_log` or `Reopen_file` a
thread is in: the first try, the refresh of `Target::Write_log`, the second try, or a rotation. A data
race on the stream is modelled by operations that take effect one after the other. There are three threads: the
writer, the one that calls `Start` (which may do so again while the writer writes), and the maintenance
thread. `exists` and `file_size` of `Maintenance` are two steps (`Maintenance_size`, `Maintenance_measure`): between
them the file may vanish.

**ScheduledCaller.** `wait_for` with a predicate is taken apart: `Worker_check` (the predicate, under
the mutex), `Worker_block` (blocks and gives the mutex back), a timeout, a spurious wakeup or a
notification, and `Worker_woken`/`Worker_expired` with the mutex again. `notify_all` reaches a worker
that sleeps and no other. The last look at the predicate (`Worker_expired`) and the call (`Worker_call`) are two
steps, because `request_stop` takes no mutex and may come between them. A request for an early call is `"timely"`
when the worker is not in a wait, whoever makes it: the function, which runs on either thread
(`Worker_func_asks`, `Call_immediately_asks`), or the owner; it is `"late"` when the wait has been armed already.

**Schedule.** Time is counted in ticks, `TicksPerSecond` to a second, so that `to_time_t` cuts a
fraction off. The wall clock is not set back while the program runs.

**Cleanup.** Four threads: the owner, which starts and reconfigures, the worker, the maintenance thread and
the writer. `logger` is the owner of `_logger_mutex`, `mutex` that of the caller's `_mutex`. A message takes
the first for a moment (`CanLog`), and the owner of the logger has it already. The worker's look at its
predicate and its wait are two steps, and `request_stop` and the notification are two (`Destroy`, `Notify`), so that the
notification can be missed; the other steps of the caller that module `ScheduledCaller` shows one by one
are one here. `stream` and `broken` are the output stream: the file it is open on, and whether an error bit is set. A
second `Setup` opens it without a close, which makes no file and sets the bit; `Reopen` closes first. A write,
an open (`Opened`, `Refused`) or the making of a directory is one step here; `FileTarget` takes them apart, and has the disk
that refuses a write. `maint` is where the maintenance thread is in `FileTarget::Maintenance`; `"off"` while
the target's slot is not maintained, `"ended"` is the end of the program, by an exception there or by the
race on the regular expression. Files are the numbers of their order in time; `mtime` is their
`last_write_time`, in half days, and `DaysOld` cuts as `duration_cast` does. Files that do not match the
expression do not exist in this module; which do is the matter of `Formatter`. `todo`, `found`, `failed`
are a purge's iterator, its candidate and whether something threw. History is `due`, the files that were old when a
purge began, `written`, what of them and of its candidate was written since, `lost` and `disturbed`. `CallsReturn` says that the
owner is in no call again and again, which is the same as that each call ends.

**Rules, ConfigJson, ConfigStore.** A JSON value is a pair of type and content; members that the code
treats alike are represented by one of them. `Outcome` says whether a document is taken (`"ok"`), makes
something throw, or is read in a way that has no defined behaviour (`target_type` missing or unknown).
`FirstBad` is the order in which a load comes to what is wrong: all targets, then all entries.
`Missing`, `Empty` and `Damaged` are files that are not there, without content, and not JSON.
`loggers` is the registry of each logger, as `Configure` leaves it; `file` and `backups` the files. A save
is `Save_serialize` (with the backup when it fails), `Save_open` and `Save_write`; a load without a file
goes on as the save of the global logger. `Crash` may come at any step, `Edit` when no call runs. `good`,
`cut`, `saved`, `rejected` are history.

**Formatter.** A text is a sequence of characters and tokens: no token of the code is the beginning
of another (`%%datatime` and `%%date` differ at the fourth letter), so that `find` never sees one inside
another. `job` names the loop that runs and `pending` the keys it has not come to: the order of an
`unordered_map` is any. A regular expression is a sequence of items, each a set of characters and the
numbers of them it takes; a `+` that is not escaped applies to the item before it. `Matches` follows the
places where the first items of an expression can end, as any matcher that is right must. The purge asks it of
each file in the directory; the directory itself is in `Cleanup`. `input`, `config` and `now` keep what
a text is made from, `names` the names of the target's files so far.

Three of its properties have conditions, because the code does not do better:

* `Undisturbed`: a message brings along only tokens of which the format has one before the message's place, so that
  these are found first. Without it the token in the message is replaced or not, by the order of the keys.
* `Settled`: path, prefix, file name, title and suffix have no token that is replaced in the same loop, whose order
  would show; the name of the process has no token at all. `Plain`: also no `%%time` and no `+`, for which the
  expression is wrong (below).
* `Chronological`: names can sort by time only if the format has date, hour, minute, second and
  millisecond in this order, as the default format has.

## 3. Runs

Runs that pass:

| Run | Question | Bounds | States |
| --- | --- | --- | --- |
| `logger` | do records pass once and in order (`FifoHandOver`, `ImplementsChannel`), do writers exclude each other, does `Stop` flush, is `Reconfigure` alone, is there no deadlock; does every call return and every record get written (fair threads) | 2 application threads, any 3 calls, 2 record values, quiet targets | 158 k |
| `logger_file` | the order of records when targets log, so that `Start` and the maintenance thread are producers | 3 calls, 1 rotation | 1.85 M |
| `caller` | function exclusive, `Stop` joins and returns, timely requests kept, one call at most after `Stop` asked, and only one decided on before | 5 operations | 823 |
| `schedule` | timestamps equal a reference found by search; never early, at most once in an interval | interval 3 s, offset 1 s, half-second ticks, 11 s, early calls after 0 and 1.5 s | 49 k |
| `file_target` | nothing written twice, nothing both failed and written, the stream on the current file, true reports until a rotation or second setup, the maintenance thread ends only by the three ways below; files and directories refused, and files removed, at any time | 2 names, 2 records of the application, 2 setups, 1 rotation | 4.0 M |
| `cleanup` | one purge at a time; all that is old and nothing else is removed, the current file stays and records go to it unless it was disturbed; calls return unless the locks cross or the notification is missed (fair threads) | 2 log files, kept 1 day, 2 days in half days; removal by hand, refusals | 764 k |
| `config` | backups and rejected files kept, nothing lost, a save loads as it was | 2 loggers, 4 documents and 2 configurations of the program, any 4 calls, crashes, edits, failures | 702 k |
| `formatter` | a message as its format says for every order of keys; own files and no others match; names advance | 3 formats, 4 records, 8 configurations, 3 times, names up to 40 characters | 138 k |
| `dispatch` | routing, merging, saving, initialization, fallback | any 4 operations of `Configure` (3 configurations), `Add_target` (a known class and one of the application's own), `Start`, `Reconfigure`; a record of every level and set of kinds in every state | 28 k |

Runs that show a disagreement between the code and what it says of itself:

| Run | What happens |
| --- | --- |
| `logger_deadlock` | `Reconfigure` (and `Stop`) joins the maintenance thread under `_logger_mutex` while that thread, in a rotation, logs and waits for it |
| `caller_prompt` | `Stop` notifies without the mutex; a worker between predicate and wait misses it, and the join takes until the scheduled time |
| `file_target_restart` | a second `Start` opens an open stream; every later record is reported as written and lost |

Other things a reader of the actions will notice, for which there is no run:

* `ReportedIsWritten` is also violated by a rotation (`MaxRotations = 1`, one setup: a write between the
  close and the open of `Reopen_file`, or an open on a stream the other thread has just opened).
* `Stop_after_call` from outside the function stops the worker without the call it announces
  (`ScheduleUtils.cpp` 105, 144), and `Is_running` then stays true, so that `Start` does nothing, until `Stop` (124, 162).
* A target that throws in `Initialize` brings in the fallback target although the configuration says
  not to use one (`Logger.cpp` 561-563).
* The maintenance thread, and with it the program, ends when a rotation cannot make its directory
  (`LogTargetFile.cpp` 143), when the current file is removed between `exists` and `file_size` (233), and when a
  target with `_log_frequency` and without `_log_storage_duration` uses an empty `std::optional` (223).
  `MaintenanceEnds` says that nothing else in `FileTarget` ends it.
* `Stop` may find the worker past its last look at the predicate: then one call more begins after
  `request_stop` (`ScheduleUtils.cpp` 144, 150, 157), and `Stop` waits for it. `NoFurtherCall` says that there is no second one.
* The cleanup worker can deadlock with the logger (`Crossed` in `Cleanup`, which `CallsReturn` excepts). In a first
  `Start` at midnight: `Setup` starts the worker (`LogTargetFile.cpp` 208), which takes `_mutex` for its purge before
  `Call_immediately` does (209), and waits for `_logger_mutex` to log (190); the owner has that and waits for
  `_mutex` (`ScheduleUtils.cpp` 172). The purge that "runs immediately once created" (206) never begins. A second
  `Start` and a `Reconfigure` at midnight end in the same way: they wait, under `_logger_mutex`, for the worker's
  `_mutex` or for its end.
* A request for an early call that comes while the worker is in its wait for the schedule is only stored
  (`ScheduleUtils.cpp` 110): it neither shortens that wait (139) nor outlives it (148), although
  `Request_call_early` "Calls the function in a specified amount of time next" (`ScheduleUtils.h` 220). So it is for a
  function that asks for a retry while `Call_immediately` runs it (173). In `ScheduledCaller` such a request is `"late"`;
  `TimelyRequestHonoured` is about the others.
* A disk that refuses a write (`WritesFail`) violates `ReportedIsWritten` without a second setup or a rotation:
  the state of the stream is not looked at after `operator<<` (`LogTargetFile.cpp` 297), and the record is reported as
  written. The error bit stays, so all later ones are lost in the same way.
* A target of the application's own class comes into `Get_config`, and into a saved file, with the type
  `LOG_TARGET_COUNT`. `Configure` skips it, `New_log_target` giving `nullptr` (534), and its routes are gone
  (`Restorable` in `Dispatch`). `Load_config` of the file ends as with any unknown type, see below.
* The rotation assigns `_current_log_regex` (147) while the worker may be matching with it.
* An old file with a fixed name is opened by `Setup` and purged at once, before anything is written to it,
  and one file that cannot be removed ends every purge before those behind it (`ProcessName.cpp` 93).
  A negative storage duration, which the schema accepts, is less than the age of every file; the
  current one is removed as well. `Cleanup` assumes a positive one.
* A crash between the opening of the configuration file and the write loses the configuration
  (`Logger.cpp` 901). An empty file is never replaced (955), and a save whose text cannot be made leaves
  one (892). A load without a file saves the global logger, not the one that loads (920).
* A target in the configuration file whose `target_type` is missing or not known ends the program
  (218, 238; `SerializerJSON.h` 959), though every other mistake leads to the default configuration.
* A file target with an empty path does not survive a save: `Export_config` goes through the constructor,
  which takes the default for it (`LogTargetFile.cpp` 27).
* The expression for `%%time` has no seconds (361), so that files with it in their name are never purged;
  `+` is not escaped (335), so that a file name with it does not match, and one that begins with it
  throws in `Setup`. A path without a separator at its end names files in another directory than the
  one that is purged, and with an empty path the purge always throws.
* A message with a token of the record that does not stand before `%%log` in the format gets it
  replaced, and times are replaced in messages always if the format has no such token before. Standard
  output colours every `%%level` of a format, but only the first is replaced (`Logger.cpp` 395).

### Bounds, and why they are enough

* `MaxCalls`: three calls hold the life cycle (`Start`, a record, `Stop` or `Reconfigure`), with any of
  them on the other thread at any point of the others, two records in one batch or on both sides of a
  batch, and two stops at once. Two threads are needed for contention on the mutex; the code treats
  all callers alike, which is also why `Clients` and `Record` are symmetric in `logger_file`, the run
  without liveness. The theorems have no bound.
* `Record`: two values tell whether records are exchanged; `FifoHandOver` compares positions.
* `MaxRotations`, `MaxRecords`, `MaxSetups`, `Names`: one rotation meets one write and one setup at every step, on
  three threads; the second record and the second setup find what the first left; two names are the old
  file and the new. The transfer records of `Update_filename` come on top of `MaxRecords`: they are written by
  the maintenance thread and by the one that calls `Start` while the writer writes its own.
  `MaxRecords` of `Logger` bounds only the quantifier of `Delivery`.
* `MaxOps` (caller): any order of the five operations with the worker at every position.
* `MaxTime`: three intervals and the offset at both ends, from every start.
* `Cleanup`: two log files are the current one and an older one, which may be the current one again; a
  day of keeping and two of time put the age of a file before, at and after the limit at each of two
  midnights. Half days are needed to tell a cut age from a whole one.
* `ConfigStore`: four calls hold a load, a save that fails or is cut, another load and a save, between
  them any edit. The other ways a document can be wrong end like one of the four
  (`WrongAssumption`, which TLC evaluates). `BackupNames` has more names than calls can use.
* `Formatter`: the formats have tokens twice, before and after the message, and time tokens beside record
  tokens; messages bring tokens along. The times carry every field over, differ in one millisecond and
  have one, two and three digits. The properties of the expression are checked with every single
  change of a name (`Neighbours`).
* `Levels`, `Kinds`: two of each give a record below, at and above a rule, and kinds that are empty,
  single and all.

`CHECK_DEADLOCK FALSE` is said in the configurations with targets that log (`MCLoggerFile.cfg`,
`MCLoggerDeadlock.cfg`) and in those of `Cleanup` only: there the program really may stop for ever, by the
join of the maintenance thread that `logger_deadlock` shows and by the crossed locks of the cleanup worker (`Crossed`).

### Fairness

* `Logger!FairSpec`: weak fairness of each thread inside a call, of the logging thread and of the
  maintenance thread. The operating system runs them; the waits of the two threads are bounded by 2 s
  and 10 s. Nobody has to call the logger. A mutex that is tried again and again by others can be
  missed for ever under weak fairness; the bound on calls leaves the contenders finite.
* `ScheduledCaller!PromptSpec`: weak fairness of worker and owner, but not of the scheduled time,
  which may be a day away. `FairSpec` adds that the time comes.
* `Cleanup!FairSpec`: weak fairness of the owner inside a call, of the worker and of the maintenance
  thread in a rotation: they are threads, and no lock is held for ever but in `Crossed`. Nobody has to
  call, write or remove a file, and no time has to pass; that is why `CallsReturn` excepts a worker that has
  missed the notification (`Missed`), which sleeps until the next midnight.

## 4. Proofs

Each theorem holds for every value of the constants that satisfies the named assumptions.

| Module | Theorem | Property | Argument |
| --- | --- | --- | --- |
| `LoggerProofs` | `TypeCorrect` | `TypeOK` | `TypeInv`: `TypeOK`, and a thread in `log_body` has a record in hand |
| | `HandOver` | `FifoHandOver` | the inductive invariant `Inv` below |
| | `WritersExclude` | `OneWriter` | from `Inv` |
| | `StopIsComplete` | `StopFlushes` | from `Inv` |
| | `ReconfigureIsSafe` | `ReconfigureQuiescent` | from `Inv` |
| | `Implements` | `ImplementsChannel` | under `Inv` each step appends to `accepted`, appends the next record to `written`, or changes neither |
| `CallerProofs` | `CallerTypes`, `FuncIsExclusive`, `TimelyRequestIsHonoured`, `StopDecidesTheLast`, `NotRunningIsGone` | `TypeOK`, `FuncExclusive`, `TimelyRequestHonoured`, `NoFurtherCall`, `StoppedMeansGone` | `CallerInv`: who owns the mutex at which position, a stop asked for is in the token, a timely request is what the wait is for |
| | `TimesAreNatural` | `TimedTypeOK` | the wait never is negative |
| | `TimestampsEnclose`, `TimestampsAreNeighbours` | -, `Enclosed` | arithmetic of `div` and `mod`: the timestamps are the nearest ones of the schedule around a time |
| | `NeverEarly`, `AtMostOncePerInterval` | `NeverBeforeItsTime`, `OneCallPerInterval` | the wait ends at or after the next timestamp, and the timestamps served are not after the one the wait was computed from (`ServedUpTo`) |
| `RulesProofs` | `WithEntriesAre`, `WithEntriesOf` | - | what `Configure` makes of a list of dispatch entries of any length, by induction along the list |
| `DispatchProofs` | `NothingIsLost` | `FailedFallsBack` | the fallback target exists from the first `Start` of a configuration that asks for it |
| | `RegistryTypeCorrect`, `KeysStayDistinct` | `TypeOK`, `KeysDistinct` | the inductive `RegistryInv` below |
| | `RecordsGoWhereConfigured` | `RoutedAsConfigured` | `RegistryInv`, whose last part says the same of levels and kinds, without a record |
| | `SavedConfigurationsRouteAlike` | `SavedRoutesAlike` | `Get_config` turns each key into one entry, and configuring those links the same names but those that only targets of unknown type have |
| `FileTargetProofs` | `TypeCorrect`, `NothingTwice`, `FailuresAreTrue`, `MaintenanceEndsOnly` | `TypeOK`, `WrittenOnce`, `FailedIsNotWritten`, `MaintenanceEnds` | `InHand`: a record that a thread has not reported on is in no file, and in no other thread's hand; `SetUp`: a target that is maintained has a name and, with a cleanup, an interval |
| | `NothingToAnOldFile`, `ReportsAreTrue` | `StreamOnCurrent`, `ReportedUnlessDisturbed` | the inductive `StreamInv` below |
| `CleanupProofs` | `TypesHold`, `PurgesAlone`, `PurgesEverything`, `CurrentStays`, `OldIsRemoved` | `TypeOK`, `PurgesExclude`, `PurgeIsComplete`, `CurrentFileIsSafe`, `RemovesOnlyOld` | the inductive `CleanupInvariant` below |
| `ConfigStoreProofs` | `BackupsAreKept`, `RejectedKept`, `NothingLost` | `BackupsKept`, `RejectedIsKept`, `NoConfigurationLost` | `StoreInvariant`: a backup name is free because there are more names than calls, a file that is being written was saved before |
| | `StoreTypeCorrect`, `SavesAreFaithful` | `TypeOK`, `SaveIsFaithful` | `RegistriesInv` and the lemma `LoadsAsSaved` below |
| `FormatterProofs` | `MessageWritten` | `MessageAsFormatted` | `RecordInv` below |
| | `LaterSortsBehind` | `NamesAdvance` | `MadeInv` and `NamesInv` below |
| | `OwnFilesKnown`, `OtherFilesUnknown` | `OwnFilesMatch`, `OnlyOwnFilesMatch` | `PatternInv` below |

`FifoHandOver` is not inductive: the flush of `Stop` keeps the order only if the logging thread's batch
is empty, a change to synchronous mode only if the queue is. `Inv` adds

* `MutexOwned`: the thread past the head of a call is the owner of the mutex, and no other is;
* `CallPositions`: which call a position belongs to;
* `Stages`: how far `Stop` is tells which thread is gone and which buffer is empty; a batch is there
  only while the logging thread writes, the flush only while a thread stops, and in synchronous mode
  there is neither a queue nor a logging thread.

Type invariants that are proved (`Logger`, `ScheduledCaller`, `Schedule`, `FileTarget`, `Cleanup`) are not checked
by a run as well.

The properties of `Stop`, `Reconfigure` and the writers then follow from `Stages` and `FifoHandOver`.

`CleanupInvariant` adds to the properties what a purge knows between its steps: an old file that is
still there is among those it has not looked at, is the one it is about to remove, or was written
meanwhile; the file it is about to remove was old when it was looked at, and still is unless it was
written since (`Knows`). Of the current file and of the stream it says (`Noticed`) that what is missing, broken, old or
about to be removed has been counted in `disturbed`: this is more than `CurrentFileIsSafe`, because a file that
is old today may be removed at midnight. `Named` is that a target which is maintained or being set up has a name.

`RegistryInv` says of the registry what no single step shows: each slot has a target of its own, keys
are distinct, have targets, and have none that is in no slot (`SlotsOK`, `KeysOK`); and a level, kinds and
a name are linked by a key exactly when a configuration has promised it. A `Configure` on a registry that
has targets is the difficult step: it adds slots behind those that are there, and merges its entries into the
keys of earlier calls. `WithEntriesAre` gives the keys it makes.

`StreamInv` says where the stream is while three threads work on it. An open stream is on another file
than the current one only from the new name to the close of the same rotation (`StreamFollows`): whoever
opens in between takes the new name. The first `Setup` finds no name, no open stream and no maintenance
(`FirstSetup`), which is why a second one is excluded from the property: it finds the stream open. Until
the first rotation the maintenance thread does not touch the stream, an open stream has no error unless the
disk has refused a write, and the thread that is about to write has an open one (`WriterAlone`).

`LoadsAsSaved` is the round trip of a configuration as one lemma: of any registry that `Configure` makes
(`LoggerOK`), `Get_config`, `Serialize`, `Deserialize` and `Configure` on a new logger make the same registry,
unless a file target has an empty path. It needs that every member of a configuration is in the schema
of its type, that what is written passes the validation before it is read, that the set of names in an
entry is found again in the sequence it became, and `WithEntriesOf` for the keys. `RegistriesInv` carries
`LoggerOK` through configuring and loading, and says that a file counted as saved is the text of the
registry that was saved, while a save that is under way still holds the text of its logger (`Pending`).

The invariants of `Formatter` say what the text of each loop is while keys are left, whichever they are: the text
that the loop began with, where the first of each token *that is not pending any more* stands for its value
(`Rendered`). `RecordInv` says this of a record, through the loop of the record's tokens and the one of the
time's; `MadeInv` of a file name, through its own two loops, and of the expression up to the escape. A
step replaces the first occurrence in what the text has become, which has to be the first occurrence in the
format: that is what `Undisturbed` and `Settled` are for. `PatternInv` says it of the
items of the expression (`Parts`), and that the expression of the target is always the same one (`Template`),
since what the replacements depend on does not change with time. That is why it knows the names of earlier rotations:
each name is the configured text with the texts of a time and of the process in the place of each token, and
those fit the items for the token (`TemplateFits`). For `OtherFilesUnknown` each item takes one number of symbols
only and symbols of one shape (`Sharp`), so that a name that matches is cut at the same places as the
target's own. `NamesInv` says that each name is made of a time later than the one before
(`Dated`); two such names differ first in a digit, a smaller one in the earlier name, as both are
padded to the same width.

The functions over lists (`WithEntries`, `WithTargets`) are recursive functions, not folds, so that a lemma can
unfold them. The induction along a list is `InductionUpTo`, in `RulesProofs` and `FormatterProofs`: a subset of the numbers that has 0
and each successor up to a bound has the bound. It is proved from a least element (`WFMin`), with a set
where the induction theorems of the library take an operator.

The assumptions:

* the threads are different (`ThreadsAssumption`, in `Logger` and in `FileTarget`), `Owner` and `Worker` differ (`LockAssumption`);
* an interval is positive and the offset is less than it (`IntervalAssumption`, `OffsetAssumption`:
  `Set_offset` refuses the rest);
* file names are numbers other than `NoName` (`NamesAssumption`); the files of `Cleanup` are positive numbers and
  kept for at least a day (`FilesAssumption`, `DurationAssumption`);
* `ConfigsAssumption` and `AddedAssumption` of `Dispatch`, `AppConfigsAssumption` and `DocumentsAssumption` of `ConfigStore`: the
  lists of targets and entries are finite sequences, as the `std::vector`s and JSON arrays are, though
  nothing bounds their length or what names they use; a configuration has Boolean flags, levels and kinds
  out of those there are; a target that the program configures is of one of the three classes and has the
  members of its class. What a document of the user holds is not restricted otherwise: wrong types, missing members
  and unknown targets are in `Outcome`;
* `None` is not a logger (`NoneAssumption`);
* texts of `Formatter` are finite sequences of symbols: characters, tokens and the names of levels and colours
  (`RecordsAssumption`, `ConfigsAssumption`, `ProcessAssumption`). Digits, months and separators are characters and tokens
  are not (`CharactersAssumption`); a process id is a number of one digit or more and, like the process's name,
  no longer than the bound on repetitions `MaxLen`; a time is in a year of four digits, in a month of twelve,
  on one of 31 days and in a millisecond of the day (`TimesAssumption`).

TLC evaluates them on every run.

Every safety property of the runs that pass is the property of a theorem. Only model-checked is liveness
(`CallReturns`, `Delivery`, `StopReturns`, `CallsReturn`), which is outside the prover's reach, and the
three properties that a run finds violated (`ReconfigureRestarts`, `StopIsPrompt`, `ReportedIsWritten`).

## 5. Not modelled

* `Configure`, `Add_target` and `Load_config` on a logger that runs: they change vectors that other threads
  iterate without a lock, which has no defined outcome. The model configures where the code may do so
  safely. A second `Start` beside a working logging thread is in `FileTarget`, for one target.
* `log_line` beyond its `Log_entry`, its `Format` with a buffer of 800 bytes, the `MSS_` macros; the names of
  kinds and levels; the console. Containers and overloads of `SerializerJSON.h` that no configuration
  class uses. A rename that the file system refuses in `Backup_config`, whose exception leaves the call; two
  threads that look for a backup name at once. A `Serialize` that throws in `Save_config` (881-887):
  that of the classes in `ConfigStore` does not. Targets of an application's own class are in `Dispatch`
  only.
* Files in the log directory that belong to nobody's target are not in `Cleanup`; `Formatter` says which
  names match.
* Copies of a `ScheduledCaller`; an interval of zero and an offset of more than one interval, which
  the constructor of `TimeInterval` takes without the checks of `Set_offset`, and which no caller in the repository passes; times before 1970;
  a wall clock that is set.
* The console of Windows, process names and pids, build files, the vendored JSON library.

## 6. Plan

Done, in this order: `LogChannel` and `Logger` with their proofs; `ScheduledCaller`; `TimeInterval` and
`Schedule`; `FileTarget`; `Dispatch`; `Rules`, `ConfigJson` and `ConfigStore`; `Cleanup`; `Formatter`.

Then the proofs of `Cleanup`, of `Rules` with the registry of `Dispatch`, of the round trip in `ConfigStore`, of the
stream of `FileTarget`, and of `Formatter`.

Next: `log_line`, a temporary that becomes a record when it is destroyed, and its buffer; `Configure` and
`Load_config` on a logger that runs, once the code says what they mean there.
