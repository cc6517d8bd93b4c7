----------------------------- MODULE ConfigStore -----------------------------
(***************************************************************************)
(* Save_config, Load_config and Backup_config of the loggers of a program  *)
(* on one configuration file, which its user edits while nobody saves.     *)
(* The program may end at any step and start again.  Calls come one after  *)
(* another: two threads that look for a backup name at once are not here.  *)
(*                                                                         *)
(* A save is four steps: serialize, open (which truncates), write, with a  *)
(* backup when it cannot serialize.  A load is one step and, when it finds *)
(* no file, a save of the global logger.                                   *)
(***************************************************************************)
EXTENDS ConfigJson

CONSTANTS Loggers, Global,     \* the loggers; the one the MSS_ macros use
          None,                \* no logger, no registry
          Documents,           \* the JSON documents a user may leave
          AppConfigs,          \* the configurations the program applies itself
          NotUtf8,             \* names that dump() refuses
          OpensFail, WritesFail,   \* what the file system may refuse
          MaxOps               \* bound: calls of the program

ASSUME GlobalAssumption == Global \in Loggers
ASSUME StoreFlagsAssumption == {OpensFail, WritesFail} \subseteq BOOLEAN
ASSUME StoreBoundAssumption == MaxOps \in Nat
ASSUME NoneAssumption == None \notin Loggers

(* The content of a file that is not there, of an empty one, and of one    *)
(* that is not JSON.                                                       *)
Missing == <<"missing", "">>
Empty == <<"empty", "">>
Damaged == <<"damaged", "">>

Texts == Documents \cup {Empty, Damaged}

(* What becomes of a text that is parsed and deserialized.                 *)
OutcomeOf(text) ==
    CASE text \in {Missing, Empty} -> "nothing"
      [] text = Damaged            -> "throws"
      [] OTHER                     -> Outcome(text)

(* A JSON array that a load goes through is a sequence.                    *)
ArraysAreSequences(text) ==
    OutcomeOf(text) = "ok" =>
        IsASequence(ContentOf(At(text, "targets"))) /\ IsASequence(ContentOf(At(text, "dispatch")))

ASSUME DocumentsAssumption == \A json \in Documents : json # Missing /\ ArraysAreSequences(json)

(* The program applies configurations of targets that it can make.         *)
IsTargetConfig(target) ==
    /\ target.target_type \in SYSTEM_OUT_TARGET .. FILE_TARGET
    /\ DOMAIN target = DOMAIN (IF IsFile(target) THEN FileSchema ELSE TargetSchema).types

ASSUME AppConfigsAssumption ==
    \A config \in AppConfigs :
        /\ IsASequence(config.targets) /\ IsASequence(config.dispatch)
        /\ \A i \in DOMAIN config.targets : IsTargetConfig(config.targets[i])

(* The names Backup_config tries: .corrupted, .corrupted0, .corrupted1 ... *)
BackupNames == 0 .. (2 * MaxOps)

VARIABLES
    file,       \* the content of the configuration file
    backups,    \* the content under each backup name
    loggers,    \* the registry of each logger
    pc,         \* where the call is
    saver,      \* the logger that is saved
    contents,   \* what it is about to write
    ops,        \* calls so far
    good,       \* history: the last configuration that was completely in the file
    cut,        \* history: a save after that was cut short
    saved,      \* history: the registry that was saved last, while the file is what was saved
    rejected    \* history: what loads could not make sense of

disk == <<file, backups>>
call == <<pc, saver, contents>>
history == <<good, cut, saved, rejected>>
vars == <<disk, loggers, call, ops, history>>

NewLogger == [targets |-> <<>>, keys |-> <<>>, use_fallback |-> TRUE, asynchronous_mode |-> TRUE]

(* A backup of an earlier run may be there, and its user may have removed  *)
(* the one before it.  The file comes with a first edit.                   *)
Init ==
    /\ file = Missing
    /\ \E left \in {{}, {1}} : backups = [b \in BackupNames |-> IF b \in left THEN Empty ELSE Missing]
    /\ loggers = [l \in Loggers |-> NewLogger]
    /\ pc = "idle" /\ saver = None /\ contents = Missing
    /\ ops = 0
    /\ good = Missing /\ cut = FALSE /\ saved = None /\ rejected = {}

-----------------------------------------------------------------------------
(* The registry of a logger.                                               *)

(* Load_config of a new target: what is empty leaves the default, but for  *)
(* the path.                                                               *)
Loaded(config) ==
    [key \in DOMAIN config |->
        CASE key = "format_string" -> Or(config[key], "format")
          [] key = "suffix"        -> Or(config[key], ".log")
          [] OTHER                 -> config[key]]

Slots(targets) == [i \in DOMAIN targets |-> [name |-> targets[i].target_name, target |-> i]]

(* Mutant: the new targets are not kept.                                   *)
Configured_no_targets(logger, config) ==
    LET targets == logger.targets \o [i \in DOMAIN config.targets |-> Loaded(config.targets[i])]
    IN  [targets |-> logger.targets,
         keys |-> WithEntries(logger.keys, config.dispatch, Slots(targets)),
         use_fallback |-> config.use_fallback, asynchronous_mode |-> config.asynchronous_mode]

(* Configure, which adds to what there is.                                 *)
Configured(logger, config) ==
    LET targets == logger.targets \o [i \in DOMAIN config.targets |-> Loaded(config.targets[i])]
    IN  [targets |-> targets,
         keys |-> WithEntries(logger.keys, config.dispatch, Slots(targets)),
         use_fallback |-> config.use_fallback, asynchronous_mode |-> config.asynchronous_mode]

(* Export_config, which goes through the constructors.                     *)
Exported(target) ==
    IF IsFile(target)
    THEN FileTargetConfig(target.target_name, target.format_string, target.filepath,
                          target.log_frequency, target.suffix, target.log_storage_duration)
    ELSE TargetConfig(target.target_name, target.format_string, target.target_type)

Get_config(logger) ==
    [targets |-> [i \in DOMAIN logger.targets |-> Exported(logger.targets[i])],
     dispatch |-> [k \in DOMAIN logger.keys |->
                      [level |-> logger.keys[k].level, kinds |-> logger.keys[k].kinds,
                       targets |-> {logger.targets[i].target_name : i \in logger.keys[k].targets}]],
     use_fallback |-> logger.use_fallback, asynchronous_mode |-> logger.asynchronous_mode]

(* dump() throws on a string that is not UTF-8.                            *)
Dumpable(config) == \A i \in DOMAIN config.targets : config.targets[i].target_name \notin NotUtf8

-----------------------------------------------------------------------------
(* Backup_config.                                                          *)

(* Mutant: the name is taken without a look at what is there.              *)
BackupName_first == 0

BackupName == CHOOSE b \in BackupNames :
    backups[b] = Missing /\ \A c \in BackupNames : c < b => backups[c] # Missing

(* Mutant: the file is removed instead of renamed.                         *)
Backup_config_removed ==
    /\ file' = Missing
    /\ UNCHANGED backups

Backup_config ==
    /\ backups' = [backups EXCEPT ![BackupName] = file]
    /\ file' = Missing

-----------------------------------------------------------------------------
(* The calls of the program.                                               *)

Call == pc = "idle" /\ ops < MaxOps /\ ops' = ops + 1

Configure ==
    \E l \in Loggers, config \in AppConfigs :
        /\ Call
        /\ loggers' = [loggers EXCEPT ![l] = Configured(@, config)]
        /\ UNCHANGED <<disk, call, history>>

Save_config ==
    \E l \in Loggers :
        /\ Call
        /\ pc' = "serialize" /\ saver' = l
        /\ UNCHANGED <<disk, loggers, contents, history>>

(* Mutant: the file is not renamed when dump() throws.                     *)
Save_serialize_unkept ==
    LET config == Get_config(loggers[saver])
    IN  /\ pc = "serialize"
        /\ contents' = (IF Dumpable(config) THEN ConfigJson(config) ELSE Empty)
        /\ pc' = "open"
        /\ UNCHANGED <<disk, saver, saved, loggers, ops, good, cut, rejected>>

(* When dump() throws the file is renamed and nothing is left to write:    *)
(* the default configuration is serialized, but not dumped.  When there is *)
(* nothing to rename the exception leaves Save_config.  Serialize does not *)
(* throw for the classes of this module, nor is a rename refused.          *)
Save_serialize ==
    LET config == Get_config(loggers[saver])
    IN  /\ pc = "serialize"
        /\ \/ /\ Dumpable(config)
              /\ contents' = ConfigJson(config)
              /\ pc' = "open"
              /\ UNCHANGED <<disk, saver>>
           \/ /\ ~Dumpable(config) /\ file # Missing
              /\ Backup_config
              /\ contents' = Empty
              /\ pc' = "open" /\ UNCHANGED saver
           \/ /\ ~Dumpable(config) /\ file = Missing
              /\ pc' = "idle" /\ saver' = None
              /\ UNCHANGED <<disk, contents>>
        /\ saved' = IF file' = file THEN saved ELSE None
        /\ UNCHANGED <<loggers, ops, good, cut, rejected>>

Save_open ==
    /\ pc = "open"
    /\ \/ /\ file' = Empty /\ saved' = None
          /\ pc' = "write" /\ UNCHANGED <<saver, contents>>
       \/ /\ OpensFail
          /\ pc' = "idle" /\ saver' = None /\ contents' = Missing
          /\ UNCHANGED <<file, saved>>
    /\ UNCHANGED <<backups, loggers, ops, good, cut, rejected>>

(* A write that fails leaves nothing of it, or a part.                     *)
Save_write ==
    /\ pc = "write"
    /\ \/ /\ file' = contents
          /\ saved' = IF contents = Empty THEN None ELSE loggers[saver]
          /\ good' = IF contents = Empty THEN good ELSE contents
          /\ cut' = (cut /\ contents = Empty)
       \/ /\ WritesFail
          /\ file' \in {Empty, Damaged}
          /\ cut' = TRUE
          /\ UNCHANGED <<saved, good>>
    /\ pc' = "idle" /\ saver' = None /\ contents' = Missing
    /\ UNCHANGED <<backups, loggers, ops, rejected>>

(* A load that finds nothing to deserialize: the default configuration.    *)
Default(l) == loggers' = [loggers EXCEPT ![l] = Configured(@, DefaultConfig)]

(* The default is to be saved, but it is the global logger that is.        *)
Load_missing(l) ==
    /\ Call
    /\ file = Missing
    /\ Default(l)
    /\ pc' = "serialize" /\ saver' = Global
    /\ UNCHANGED <<disk, contents, history>>

Load_unread(l) ==
    /\ Call
    /\ file = Empty \/ (OpensFail /\ file # Missing)
    /\ Default(l)
    /\ UNCHANGED <<disk, call, history>>

Load_document(l) ==
    /\ Call
    /\ OutcomeOf(file) = "ok"
    /\ loggers' = [loggers EXCEPT ![l] = Configured(@, Deserialized(file))]
    /\ UNCHANGED <<disk, call, history>>

(* What cannot be parsed or deserialized is renamed.                       *)
Load_rejected(l) ==
    /\ Call
    /\ OutcomeOf(file) = "throws"
    /\ Backup_config
    /\ Default(l)
    /\ rejected' = rejected \cup {file}
    /\ saved' = None
    /\ UNCHANGED <<call, good, cut>>

Restart ==
    /\ loggers' = [l \in Loggers |-> NewLogger]
    /\ pc' = "idle" /\ saver' = None /\ contents' = Missing
    /\ cut' = (cut \/ pc = "write")
    /\ UNCHANGED <<disk, good, saved, rejected>>

(* Behaviour that is not defined: the program ends here, as builds do that *)
(* use a null pointer or check the library's assertions.                   *)
Load_undefined ==
    /\ Call
    /\ OutcomeOf(file) = "undefined"
    /\ Restart

Crash == Restart /\ UNCHANGED ops

(* The user edits the file, or removes it.                                 *)
Edit ==
    /\ pc = "idle"
    /\ file' \in Texts \cup {Missing}
    /\ good' = IF OutcomeOf(file') = "ok" THEN file' ELSE Missing
    /\ cut' = FALSE /\ saved' = None
    /\ UNCHANGED <<backups, loggers, call, ops, rejected>>

Load_config(l) == Load_missing(l) \/ Load_unread(l) \/ Load_document(l) \/ Load_rejected(l)

Next ==
    \/ Configure
    \/ Save_config \/ Save_serialize \/ Save_open \/ Save_write
    \/ \E l \in Loggers : Load_config(l)
    \/ Load_undefined
    \/ Crash \/ Edit

Spec == Init /\ [][Next]_vars

-----------------------------------------------------------------------------
(* Properties.                                                             *)

InBackups(text) == \E b \in BackupNames : backups[b] = text

(* Every variable has its type: keys name targets that are there, and a    *)
(* file being written has been truncated.                                  *)
TypeOK ==
    /\ \A l \in Loggers : \A k \in DOMAIN loggers[l].keys :
           loggers[l].keys[k].targets \subseteq DOMAIN loggers[l].targets
    /\ DOMAIN backups = BackupNames
    /\ pc \in {"idle", "serialize", "open", "write"}
    /\ saver \in Loggers \cup {None} /\ (pc # "idle" <=> saver # None)
    /\ pc = "write" => file = Empty
    /\ pc \in {"open", "write"} => contents = Empty \/ TypeOf(contents) = "object"
    /\ ops \in 0 .. MaxOps /\ cut \in BOOLEAN

(* "loops until a unique name is found": a backup never takes the place of *)
(* another, whatever earlier ones were removed.                            *)
BackupsKept == [][\A b \in BackupNames : backups[b] # Missing => backups'[b] = backups[b]]_vars

(* What a load could not make sense of is kept, through any later loads,   *)
(* saves, crashes and edits.                                               *)
RejectedIsKept == \A text \in rejected : InBackups(text)

(* The last configuration that was completely in the file, saved or        *)
(* written by the user, is there or in a backup, whatever fails, unless a  *)
(* save after it was cut short by a crash or a full disk.                  *)
NoConfigurationLost == good = Missing \/ pc = "write" \/ cut \/ good = file \/ InBackups(good)

(* As the test of persistence says of one configuration: a new logger that *)
(* loads what was saved has the targets, with their settings, the keys and *)
(* the modes of the logger that saved it, as long as no file target has an *)
(* empty path, which the constructor of the configuration replaces.  The   *)
(* loggers of this module have no target of an application's own class:    *)
(* SavedRoutesAlike in module Dispatch says what becomes of those.         *)
SaveIsFaithful ==
    (saved # None /\ (\A i \in DOMAIN saved.targets :
                          IsFile(saved.targets[i]) => saved.targets[i].filepath # "")) =>
    /\ OutcomeOf(file) = "ok"
    /\ Configured(NewLogger, Deserialized(file)) = saved

=============================================================================
