-------------------------- MODULE ConfigStoreProofs --------------------------
(* Theorems about module ConfigStore: what is on the disk, for any number  *)
(* of loggers and calls, any documents and configurations.                 *)
EXTENDS ConfigStore, RulesProofs, FiniteSetTheorems

(* A file that is not there, that is empty or is not JSON is no document.  *)
LEMMA ContentsDiffer ==
    /\ Missing # Empty /\ Missing # Damaged /\ Empty # Damaged
    /\ \A f : Object(f) \notin {Missing, Empty, Damaged}
    /\ OutcomeOf(Missing) = "nothing" /\ OutcomeOf(Empty) = "nothing" /\ OutcomeOf(Damaged) = "throws"
    /\ \A f : OutcomeOf(Object(f)) = Outcome(Object(f))
<1>1. Missing[1] = "missing" /\ Empty[1] = "empty" /\ Damaged[1] = "damaged" /\ \A f : Object(f)[1] = "object"
  BY DEF Missing, Empty, Damaged, Object
<1>2. /\ Missing # Empty /\ Missing # Damaged /\ Empty # Damaged
      /\ \A f : Object(f) \notin {Missing, Empty, Damaged}
  BY <1>1
<1>3. /\ OutcomeOf(Missing) = "nothing" /\ OutcomeOf(Empty) = "nothing" /\ OutcomeOf(Damaged) = "throws"
  BY <1>2 DEF OutcomeOf
<1>4. ASSUME NEW f PROVE OutcomeOf(Object(f)) = Outcome(Object(f))
  <2> DEFINE text == Object(f)
  <2>1. text \notin {Missing, Empty} /\ text # Damaged
    BY <1>2
  <2> HIDE DEF text
  <2>2. OutcomeOf(text) = Outcome(text)
    BY <2>1 DEF OutcomeOf
  <2> QED BY <2>2 DEF text
<1> QED BY <1>2, <1>3, <1>4

(* The names of backups are taken from the first on, around one that was   *)
(* there, two for a call at most.                                          *)
TakenUpTo(left, next) == \A b \in BackupNames : backups[b] # Missing <=> b < next \/ b \in left

NamesTaken ==
    \E left \in {{}, {1}}, next \in Nat :
        /\ next <= 2 * (IF pc = "serialize" THEN ops - 1 ELSE ops)
        /\ TakenUpTo(left, next)

(* While a save has nothing to write, the last good configuration is in a  *)
(* backup already.                                                         *)
EmptySave ==
    pc \in {"open", "write"} /\ contents = Empty => good = Missing \/ cut \/ InBackups(good)

Counters ==
    /\ backups = [b \in BackupNames |-> backups[b]]
    /\ ops \in 0 .. MaxOps
    /\ pc \in {"idle", "serialize", "open", "write"}
    /\ pc = "serialize" => ops > 0

Inv == Counters /\ NamesTaken /\ EmptySave /\ RejectedIsKept /\ Missing \notin rejected /\ NoConfigurationLost

(* Backup_config finds a free name, renames the file to it, and leaves a   *)
(* free name for the next call.                                            *)
LEMMA BackupIsNew ==
    ASSUME backups = [b \in BackupNames |-> backups[b]],
           NEW left \in {{}, {1}}, NEW next \in Nat, TakenUpTo(left, next),
           next <= 2 * MaxOps - 2,
           file # Missing, Backup_config
    PROVE  /\ \A b \in BackupNames : backups[b] # Missing => backups'[b] = backups[b]
           /\ backups' = [b \in BackupNames |-> backups'[b]]
           /\ \E n \in Nat : n <= next + 2 /\ TakenUpTo(left, n)'
           /\ \E b \in BackupNames : backups'[b] = file
<1> USE StoreBoundAssumption
<1> DEFINE Free(n) == backups[n] = Missing /\ \A c \in BackupNames : c < n => backups[c] # Missing
           free == IF next \in left THEN next + 1 ELSE next
<1>1. free \in BackupNames /\ free \notin left /\ free < next + 2 /\ next <= free
  BY DEF BackupNames
<1>2. Free(free)
  BY <1>1 DEF TakenUpTo, BackupNames
<1>3. \A n \in BackupNames : Free(n) => n = free
  BY <1>1, <1>2 DEF BackupNames
<1>4. BackupName = free
  <2>1. BackupName \in BackupNames /\ Free(BackupName)
    BY <1>1, <1>2 DEF BackupName
  <2> QED BY <2>1, <1>3
<1> HIDE DEF free
<1>5. backups' = [backups EXCEPT ![free] = file]
  BY <1>4 DEF Backup_config
<1>6. TakenUpTo(left, free + 1)'
  <2> SUFFICES ASSUME NEW b \in BackupNames
               PROVE  backups'[b] # Missing <=> b < free + 1 \/ b \in left
    BY DEF TakenUpTo, BackupNames
  <2>1. CASE b = free
    BY <2>1, <1>1, <1>5 DEF BackupNames
  <2>2. CASE b # free
    <3>1. backups'[b] = backups[b]
      BY <2>2, <1>5
    <3>2. b < free + 1 \/ b \in left <=> b < next \/ b \in left
      BY <2>2, <1>1 DEF BackupNames, free
    <3> QED BY <3>1, <3>2 DEF TakenUpTo
  <2> QED BY <2>1, <2>2
<1>7. \E b \in BackupNames : backups'[b] = file
  BY <1>1, <1>5
<1>8. free + 1 \in Nat /\ free + 1 <= next + 2
  BY <1>1 DEF BackupNames
<1>9. \A b \in BackupNames : backups[b] # Missing => backups'[b] = backups[b]
  BY <1>2, <1>5
<1>10. backups' = [b \in BackupNames |-> backups'[b]]
  BY <1>5
<1>11. \E n \in Nat : n <= next + 2 /\ TakenUpTo(left, n)'
  BY <1>6, <1>8
<1> HIDE DEF Free
<1> QED BY <1>7, <1>9, <1>10, <1>11

(* A step that is no backup keeps the names, when the calls do not go      *)
(* back.                                                                   *)
LEMMA NamesKept ==
    ASSUME Counters, NamesTaken, UNCHANGED backups, ops' \in 0 .. MaxOps, ops' >= ops,
           pc' # "serialize" \/ ops' > ops \/ (pc = "serialize" /\ ops' = ops)
    PROVE  NamesTaken'
<1>1. PICK left \in {{}, {1}}, next \in Nat :
          /\ next <= 2 * (IF pc = "serialize" THEN ops - 1 ELSE ops)
          /\ TakenUpTo(left, next)
  BY DEF NamesTaken
<1>2. TakenUpTo(left, next)'
  BY <1>1 DEF TakenUpTo, BackupNames
<1>3. next <= 2 * (IF pc' = "serialize" THEN ops' - 1 ELSE ops')
  BY <1>1, StoreBoundAssumption DEF Counters
<1> QED BY <1>1, <1>2, <1>3 DEF NamesTaken

(* A step with a backup.                                                   *)
LEMMA BackupStep ==
    ASSUME Counters, NamesTaken, RejectedIsKept, Missing \notin rejected, Backup_config,
           file # Missing, ops' \in 0 .. MaxOps, pc' # "serialize",
           \/ pc = "serialize" /\ ops' = ops
           \/ pc # "serialize" /\ ops' = ops + 1
    PROVE  /\ \A b \in BackupNames : backups[b] # Missing => backups'[b] = backups[b]
           /\ backups' = [b \in BackupNames |-> backups'[b]]
           /\ NamesTaken'
           /\ \E b \in BackupNames : backups'[b] = file
<1>1. PICK left \in {{}, {1}}, next \in Nat :
          /\ next <= 2 * (IF pc = "serialize" THEN ops - 1 ELSE ops)
          /\ TakenUpTo(left, next)
  BY DEF NamesTaken
<1>2. next <= 2 * MaxOps - 2 /\ next + 2 <= 2 * ops'
  BY <1>1, StoreBoundAssumption DEF Counters
<1>3. /\ \A b \in BackupNames : backups[b] # Missing => backups'[b] = backups[b]
      /\ backups' = [b \in BackupNames |-> backups'[b]]
      /\ \E n \in Nat : n <= next + 2 /\ TakenUpTo(left, n)'
      /\ \E b \in BackupNames : backups'[b] = file
  BY <1>1, <1>2, BackupIsNew DEF Counters
<1>4. PICK n \in Nat : n <= next + 2 /\ TakenUpTo(left, n)'
  BY <1>3
<1>5. n <= 2 * ops'
  <2>1. n \in Nat /\ next \in Nat /\ n <= next + 2
    BY <1>1, <1>4
  <2>2. ops' \in Nat
    BY StoreBoundAssumption
  <2>3. next + 2 <= 2 * ops'
    BY <1>2
  <2>4. \A i, j, o \in Nat : i <= j + 2 /\ j + 2 <= 2 * o => i <= 2 * o
    OBVIOUS
  <2> QED BY <2>1, <2>2, <2>3, <2>4, Zenon
<1>6. NamesTaken'
  BY <1>4, <1>5 DEF NamesTaken
<1> QED BY <1>3, <1>6

LEMMA InvInit == Init => Inv
<1> SUFFICES ASSUME Init PROVE Inv
  OBVIOUS
<1>1. PICK left \in {{}, {1}} : backups = [b \in BackupNames |-> IF b \in left THEN Empty ELSE Missing]
  BY DEF Init
<1>2. Counters
  BY <1>1, StoreBoundAssumption DEF Init, Counters
<1>3. NamesTaken
  <2>1. TakenUpTo(left, 0)
    BY <1>1, ContentsDiffer DEF TakenUpTo, BackupNames
  <2>2. 0 <= 2 * (IF pc = "serialize" THEN ops - 1 ELSE ops)
    BY DEF Init
  <2> QED BY <2>1, <2>2 DEF NamesTaken
<1> QED BY <1>2, <1>3 DEF Init, Inv, EmptySave, RejectedIsKept, NoConfigurationLost

(* The properties of the history, when backups are kept and neither good   *)
(* nor the rejected texts change.                                          *)
LEMMA HistoryKept ==
    ASSUME RejectedIsKept, Missing \notin rejected, UNCHANGED <<rejected, good>>,
           \A b \in BackupNames : backups[b] # Missing => backups'[b] = backups[b]
    PROVE  /\ RejectedIsKept' /\ (Missing \notin rejected)'
           /\ good # Missing /\ InBackups(good) => InBackups(good)'
BY DEF RejectedIsKept, InBackups

LEMMA InvNext == Inv /\ [Next]_vars => Inv'
<1> SUFFICES ASSUME Inv, [Next]_vars PROVE Inv'
  OBVIOUS
<1> USE StoreBoundAssumption DEF Inv
<1>1. CASE Configure
  <2> USE <1>1 DEF Configure, Call, disk, call, history
  <2>1. Counters'  BY DEF Counters
  <2>2. NamesTaken'  BY NamesKept DEF Counters
  <2> QED BY <2>1, <2>2, HistoryKept DEF EmptySave, NoConfigurationLost, InBackups
<1>2. CASE Save_config
  <2> USE <1>2 DEF Save_config, Call, disk, history
  <2>1. Counters'  BY DEF Counters
  <2>2. NamesTaken'  BY NamesKept DEF Counters
  <2> QED BY <2>1, <2>2, HistoryKept DEF EmptySave, NoConfigurationLost, InBackups
<1>3. CASE Save_serialize
  <2> DEFINE config == Get_config(loggers[saver])
  <2> USE <1>3
  <2>1. CASE UNCHANGED disk
    <3>1. UNCHANGED <<file, backups, ops, good, cut, rejected>> /\ pc = "serialize"
          /\ \/ pc' = "idle"
             \/ pc' = "open" /\ contents' = ConfigJson(config)
             \/ pc' = "open" /\ Backup_config /\ file # Missing
      BY <2>1 DEF Save_serialize, disk
    <3>2. ~(Backup_config /\ file # Missing)
      BY <3>1 DEF Backup_config
    <3>3. ConfigJson(config) # Empty
      BY ContentsDiffer DEF ConfigJson
    <3>4. Counters'  BY <3>1, <3>2 DEF Counters
    <3>5. NamesTaken'  BY <3>1, <3>2, NamesKept DEF Counters
    <3> HIDE DEF config
    <3> QED BY <3>1, <3>2, <3>3, <3>4, <3>5, HistoryKept DEF EmptySave, NoConfigurationLost, InBackups
  <2>2. CASE ~UNCHANGED disk
    <3>1. Backup_config /\ file # Missing /\ contents' = Empty /\ pc = "serialize" /\ pc' = "open"
          /\ UNCHANGED <<ops, good, cut, rejected>>
      BY <2>2 DEF Save_serialize, disk
    <3>2. /\ \A b \in BackupNames : backups[b] # Missing => backups'[b] = backups[b]
          /\ backups' = [b \in BackupNames |-> backups'[b]]
          /\ NamesTaken'
          /\ \E b \in BackupNames : backups'[b] = file
      BY <3>1, BackupStep DEF Counters
    <3>3. Counters'  BY <3>1, <3>2 DEF Counters
    <3>4. good = file => InBackups(good)'
      BY <3>1, <3>2 DEF InBackups
    <3> QED BY <3>1, <3>2, <3>3, <3>4, HistoryKept DEF EmptySave, NoConfigurationLost
  <2> QED BY <2>1, <2>2
<1>4. CASE Save_open
  <2> USE <1>4 DEF Save_open
  <2>1. Counters'  BY DEF Counters
  <2>2. NamesTaken'  BY NamesKept DEF Counters
  <2> QED BY <2>1, <2>2, HistoryKept DEF EmptySave, NoConfigurationLost, InBackups
<1>5. CASE Save_write
  <2> USE <1>5 DEF Save_write
  <2>1. Counters'  BY DEF Counters
  <2>2. NamesTaken'  BY NamesKept DEF Counters
  <2>3. RejectedIsKept' /\ (Missing \notin rejected)'
    BY DEF RejectedIsKept, InBackups
  <2>4. NoConfigurationLost'
    BY DEF EmptySave, NoConfigurationLost, InBackups
  <2> QED BY <2>1, <2>2, <2>3, <2>4 DEF EmptySave
<1>6. ASSUME NEW l \in Loggers, Load_missing(l) \/ Load_unread(l) \/ Load_document(l)
      PROVE  Inv'
  <2> USE <1>6 DEF Load_missing, Load_unread, Load_document, Call, disk, call, history
  <2>1. Counters'  BY DEF Counters
  <2>2. NamesTaken'  BY NamesKept DEF Counters
  <2> QED BY <2>1, <2>2, HistoryKept DEF EmptySave, NoConfigurationLost, InBackups
<1>7. ASSUME NEW l \in Loggers, Load_rejected(l) PROVE Inv'
  <2>1. /\ Backup_config /\ pc = "idle" /\ ops' = ops + 1 /\ ops < MaxOps
        /\ rejected' = rejected \cup {file} /\ UNCHANGED <<pc, contents, good, cut>>
        /\ OutcomeOf(file) = "throws"
    BY <1>7 DEF Load_rejected, Call, call
  <2>2. file # Missing
    BY <2>1, ContentsDiffer
  <2>3. /\ \A b \in BackupNames : backups[b] # Missing => backups'[b] = backups[b]
        /\ backups' = [b \in BackupNames |-> backups'[b]]
        /\ NamesTaken'
        /\ \E b \in BackupNames : backups'[b] = file
    BY <2>1, <2>2, BackupStep DEF Counters
  <2>4. Counters'  BY <2>1, <2>3 DEF Counters
  <2>5. RejectedIsKept'
    <3> SUFFICES ASSUME NEW text \in rejected' PROVE \E b \in BackupNames : backups'[b] = text
      BY DEF RejectedIsKept, InBackups
    <3> QED BY <2>1, <2>3 DEF RejectedIsKept, InBackups
  <2>6. NoConfigurationLost'
    BY <2>1, <2>3 DEF NoConfigurationLost, InBackups
  <2> QED BY <2>1, <2>2, <2>3, <2>4, <2>5, <2>6 DEF EmptySave
<1>8. CASE Load_undefined \/ Crash
  <2>1. pc' = "idle" /\ cut' = (cut \/ pc = "write") /\ ops' \in {ops, ops + 1} /\ ops' <= MaxOps
        /\ UNCHANGED <<file, backups, good, rejected>>
    BY <1>8 DEF Load_undefined, Crash, Restart, Call, disk, Counters
  <2>2. Counters'  BY <2>1 DEF Counters
  <2>3. NamesTaken'  BY <2>1, NamesKept DEF Counters
  <2> QED BY <2>1, <2>2, <2>3, HistoryKept DEF EmptySave, NoConfigurationLost, InBackups
<1>9. CASE Edit
  <2> USE <1>9 DEF Edit, call
  <2>1. Counters'  BY DEF Counters
  <2>2. NamesTaken'  BY NamesKept DEF Counters
  <2>3. RejectedIsKept' /\ (Missing \notin rejected)'
    BY DEF RejectedIsKept, InBackups
  <2> QED BY <2>1, <2>2, <2>3 DEF EmptySave, NoConfigurationLost
<1>10. CASE UNCHANGED vars
  <2> USE <1>10 DEF vars, disk, call, history
  <2>1. Counters'  BY DEF Counters
  <2>2. NamesTaken'  BY NamesKept DEF Counters
  <2> QED BY <2>1, <2>2, HistoryKept DEF EmptySave, NoConfigurationLost, InBackups
<1> QED BY <1>1, <1>2, <1>3, <1>4, <1>5, <1>6, <1>7, <1>8, <1>9, <1>10 DEF Next, Load_config

THEOREM StoreInvariant == Spec => []Inv
BY InvInit, InvNext, PTL DEF Spec

(* No backup ever takes the place of another.                              *)
THEOREM BackupsAreKept == Spec => BackupsKept
<1> DEFINE Kept == \A b \in BackupNames : backups[b] # Missing => backups'[b] = backups[b]
<1>1. Inv /\ [Next]_vars => [Kept]_vars
  <2> SUFFICES ASSUME Inv, [Next]_vars PROVE Kept
    OBVIOUS
  <2>1. CASE UNCHANGED backups
    BY <2>1
  <2>2. CASE Save_serialize /\ ~UNCHANGED backups
    <3>1. Backup_config /\ file # Missing /\ pc = "serialize" /\ pc' = "open" /\ ops' = ops
      BY <2>2 DEF Save_serialize, disk
    <3> QED BY <3>1, BackupStep DEF Inv, Counters
  <2>3. ASSUME NEW l \in Loggers, Load_rejected(l) PROVE Kept
    <3>1. /\ Backup_config /\ pc = "idle" /\ pc' = "idle" /\ ops' = ops + 1 /\ ops < MaxOps
          /\ OutcomeOf(file) = "throws"
      BY <2>3 DEF Load_rejected, Call, call
    <3>2. file # Missing
      BY <3>1, ContentsDiffer
    <3> QED BY <3>1, <3>2, BackupStep, StoreBoundAssumption DEF Inv, Counters
  <2> QED BY <2>1, <2>2, <2>3 DEF Next, Load_config, Configure, Save_config, Save_open, Save_write,
             Load_missing, Load_unread, Load_document, Load_undefined, Restart, Crash, Edit, disk, vars
<1> QED BY <1>1, StoreInvariant, PTL DEF BackupsKept, Spec

(* What a load could not make sense of is in a backup for ever.            *)
THEOREM RejectedKept == Spec => []RejectedIsKept
BY StoreInvariant, PTL DEF Inv

(* The last configuration that was completely in the file is not lost.     *)
THEOREM NothingLost == Spec => []NoConfigurationLost
BY StoreInvariant, PTL DEF Inv

-----------------------------------------------------------------------------
(* Targets as JSON.                                                        *)

(* The configuration a target keeps: it has been through Load_config.      *)
TargetOK(target) ==
    /\ IsTargetConfig(target)
    /\ target = [key \in DOMAIN target |-> target[key]]
    /\ target.format_string # "" /\ (IsFile(target) => target.suffix # "")

LEMMA SchemaKeys ==
    /\ DOMAIN TargetSchema.types = {"target_name", "format_string", "target_type"}
    /\ TargetSchema.types = [target_name |-> "string", format_string |-> "string", target_type |-> "number"]
    /\ TargetSchema.required = {"target_name", "format_string", "target_type"}
    /\ DOMAIN FileSchema.types = {"target_name", "format_string", "target_type", "filepath",
                                  "log_frequency", "suffix", "log_storage_duration"}
    /\ FileSchema.required = {"target_name", "format_string", "target_type", "filepath",
                              "log_frequency", "suffix"}
    /\ FileSchema.types = [target_name |-> "string", format_string |-> "string", target_type |-> "number",
                           filepath |-> "string", log_frequency |-> "number",
                           suffix |-> "string", log_storage_duration |-> "number"]
BY DEF FileSchema, TargetSchema

LEMMA LoadedIs ==
    ASSUME NEW target, IsTargetConfig(target)
    PROVE  TargetOK(Loaded(target))
<1> DEFINE new == Loaded(target)
<1>1. /\ DOMAIN new = DOMAIN target /\ new = [key \in DOMAIN new |-> new[key]]
      /\ {"target_name", "format_string", "target_type"} \subseteq DOMAIN target
      /\ IsFile(target) => "suffix" \in DOMAIN target
  BY SchemaKeys DEF Loaded, IsTargetConfig
<1>2. new.target_type = target.target_type
  BY <1>1 DEF Loaded
<1>3. new.format_string # ""
  BY <1>1 DEF Loaded, Or
<1>4. IsFile(target) => new.suffix # ""
  BY <1>1 DEF Loaded, Or
<1> HIDE DEF new
<1>5. IsFile(new) <=> IsFile(target)
  BY <1>2 DEF IsFile
<1>6. IsTargetConfig(new)
  BY <1>1, <1>2, <1>5 DEF IsTargetConfig
<1>7. TargetOK(new)
  BY <1>1, <1>3, <1>4, <1>5, <1>6 DEF TargetOK
<1> QED BY <1>7 DEF new

LEMMA LoadedSame ==
    ASSUME NEW target, TargetOK(target)
    PROVE  Loaded(target) = target
<1>1. "suffix" \in DOMAIN target => IsFile(target)
  <2> SUFFICES ASSUME ~IsFile(target) PROVE "suffix" \notin DOMAIN target
    OBVIOUS
  <2>1. DOMAIN target = DOMAIN TargetSchema.types
    BY DEF TargetOK, IsTargetConfig
  <2> QED BY <2>1, SchemaKeys
<1>2. \A key \in DOMAIN target : Loaded(target)[key] = target[key]
  BY <1>1 DEF Loaded, Or, TargetOK
<1>3. Loaded(target) = [key \in DOMAIN target |-> Loaded(target)[key]]
  BY DEF Loaded
<1> QED BY <1>2, <1>3 DEF TargetOK

(* The constructors of a configuration change no more than an empty path.  *)
LEMMA ExportedIs ==
    ASSUME NEW target, TargetOK(target), IsFile(target) => target.filepath # ""
    PROVE  Exported(target) = target
<1>1. CASE IsFile(target)
  <2>1. /\ DOMAIN target = {"target_name", "format_string", "target_type", "filepath",
                            "log_frequency", "suffix", "log_storage_duration"}
        /\ target = [key \in DOMAIN target |-> target[key]]
        /\ target.target_type = FILE_TARGET
        /\ target.format_string # "" /\ target.filepath # "" /\ target.suffix # ""
    BY <1>1, SchemaKeys DEF TargetOK, IsTargetConfig, IsFile
  <2>2. Exported(target) =
            [target_name |-> target.target_name, format_string |-> target.format_string,
             target_type |-> FILE_TARGET, filepath |-> target.filepath,
             log_frequency |-> target.log_frequency, suffix |-> target.suffix,
             log_storage_duration |-> target.log_storage_duration]
    BY <1>1, <2>1 DEF Exported, FileTargetConfig, Or
  <2> QED BY <2>1, <2>2
<1>2. CASE ~IsFile(target)
  <2>1. /\ DOMAIN target = {"target_name", "format_string", "target_type"}
        /\ target = [key \in DOMAIN target |-> target[key]]
        /\ target.format_string # ""
    BY <1>2, SchemaKeys DEF TargetOK, IsTargetConfig
  <2>2. Exported(target) =
            [target_name |-> target.target_name, format_string |-> target.format_string,
             target_type |-> target.target_type]
    BY <1>2, <2>1 DEF Exported, TargetConfig, Or
  <2> QED BY <2>1, <2>2
<1> QED BY <1>1, <1>2

(* What is deserialized is a configuration the program can make a target   *)
(* of.                                                                     *)
LEMMA NewTargetIs ==
    ASSUME NEW json, TargetOutcome(json) = "ok"
    PROVE  IsTargetConfig(NewTarget(json))
<1> DEFINE new == NewTarget(json)
           type == ContentOf(At(json, "target_type"))
<1>1. Has(json, "target_type") /\ type \in SYSTEM_OUT_TARGET .. FILE_TARGET
  BY DEF TargetOutcome, Allocation
<1>2. DOMAIN new = DOMAIN (IF IsFileJson(json) THEN FileSchema ELSE TargetSchema).types
  BY SchemaKeys DEF NewTarget, Filled, FileTargetConfig, TargetConfig
<1>3. new.target_type = type
  BY <1>1, <1>2, SchemaKeys DEF NewTarget, Filled, FileTargetConfig, TargetConfig
<1> HIDE DEF new
<1>4. IsFile(new) <=> IsFileJson(json)
  BY <1>3 DEF IsFile, IsFileJson
<1>5. IsTargetConfig(new)
  BY <1>1, <1>2, <1>3, <1>4 DEF IsTargetConfig
<1> QED BY <1>5 DEF new

(* A target's configuration is the same after it has been through JSON.    *)
LEMMA TargetJsonIs ==
    ASSUME NEW target, TargetOK(target)
    PROVE  TargetOutcome(TargetJson(target)) = "ok" /\ NewTarget(TargetJson(target)) = target
<1> DEFINE json == TargetJson(target)
           schema == IF IsFile(target) THEN FileSchema ELSE TargetSchema
<1>1. /\ DOMAIN target = DOMAIN schema.types
      /\ target = [key \in DOMAIN target |-> target[key]]
      /\ target.target_type \in SYSTEM_OUT_TARGET .. FILE_TARGET
      /\ {"target_name", "format_string", "target_type"} \subseteq DOMAIN target
  BY SchemaKeys DEF TargetOK, IsTargetConfig
<1>2. TypeOf(json) = "object" /\ DOMAIN ContentOf(json) = DOMAIN target
  BY DEF TargetJson, Object, TypeOf, ContentOf
<1>3. \A key : Has(json, key) <=> key \in DOMAIN target
  BY <1>2 DEF Has
<1>4. ASSUME NEW key \in DOMAIN target
      PROVE  TypeOf(At(json, key)) = FileSchema.types[key] /\ ContentOf(At(json, key)) = target[key]
  BY DEF TargetJson, Object, TypeOf, ContentOf, At
<1> HIDE DEF json
<1>5. \A key \in DOMAIN target : FileSchema.types[key] = schema.types[key]
  BY <1>1, SchemaKeys
<1>6. schema.required \subseteq DOMAIN target
  BY <1>1, SchemaKeys
<1>7. Validates(schema, json)
  BY <1>1, <1>2, <1>3, <1>4, <1>5, <1>6 DEF Validates
<1>8. TypeOf(At(json, "target_type")) = "number" /\ ContentOf(At(json, "target_type")) = target.target_type
  BY <1>1, <1>4, SchemaKeys
<1>9. Allocation(json) = "ok"
  BY <1>1, <1>2, <1>3, <1>8 DEF Allocation
<1>10. IsFileJson(json) <=> IsFile(target)
  BY <1>8 DEF IsFileJson, IsFile
<1>11. TargetOutcome(json) = "ok"
  BY <1>7, <1>9, <1>10 DEF TargetOutcome
<1> DEFINE object == IF IsFileJson(json) THEN FileTargetConfig("undefined", "", "", 24, "", 30)
                     ELSE TargetConfig("unnamed", "", LOG_TARGET_COUNT)
<1>12. DOMAIN object = DOMAIN target
  BY <1>1, <1>10, SchemaKeys DEF FileTargetConfig, TargetConfig
<1>13. NewTarget(json) = [key \in DOMAIN object |->
           IF Has(json, key) THEN ContentOf(At(json, key)) ELSE object[key]]
  BY DEF NewTarget, Filled
<1> HIDE DEF object
<1>14. NewTarget(json) = [key \in DOMAIN target |-> target[key]]
  BY <1>3, <1>4, <1>12, <1>13
<1> QED BY <1>1, <1>11, <1>14 DEF json

-----------------------------------------------------------------------------
(* Dispatch entries as JSON.                                               *)

(* SetToSeq lists every member of a finite set.                            *)
LEMMA SetListed ==
    ASSUME NEW S, IsFiniteSet(S)
    PROVE  {SetToSeq(S)[i] : i \in DOMAIN SetToSeq(S)} = S
<1> DEFINE n == Cardinality(S)
           Listing(f) == f \in [1 .. n -> S] /\ IsInjective(f)
<1>1. n \in Nat
  BY FS_CardinalityType
<1>2. IsFiniteSet(1 .. n) /\ Cardinality(1 .. n) = n
  <2> HIDE DEF n
  <2>1. 1 \in Int /\ n \in Int
    BY <1>1
  <2>2. IsFiniteSet(1 .. n) /\ Cardinality(1 .. n) = IF 1 > n THEN 0 ELSE n - 1 + 1
    BY <2>1, FS_Interval
  <2> QED BY <1>1, <2>2
<1>3. ExistsBijection(1 .. n, S)
  BY <1>2, FS_SameCardinalityBij
<1>4. \E f : Listing(f)
  BY <1>3 DEF ExistsBijection, Bijection, Injection
<1>5. Listing(SetToSeq(S))
  BY <1>4 DEF SetToSeq
<1> DEFINE f == SetToSeq(S)
<1> HIDE DEF f
<1>6. f \in Injection(1 .. n, S)
  BY <1>5 DEF Injection, f
<1>7. f \in Surjection(1 .. n, S)
  <2> HIDE DEF n
  <2> QED BY <1>2, <1>6, FS_Injection DEF n
<1>8. DOMAIN f = 1 .. n /\ (\A i \in 1 .. n : f[i] \in S) /\ \A x \in S : \E i \in 1 .. n : f[i] = x
  BY <1>7 DEF Surjection
<1>9. {f[i] : i \in DOMAIN f} = S
  <2> HIDE DEF n
  <2> QED BY <1>8
<1> QED BY <1>9 DEF f

(* So is a dispatch entry.                                                 *)
LEMMA EntryJsonIs ==
    ASSUME NEW entry, IsFiniteSet(entry.targets)
    PROVE  /\ EntryOutcome(EntryJson(entry)) = "ok"
           /\ NewEntry(EntryJson(entry)) =
                  [level |-> entry.level, kinds |-> entry.kinds, targets |-> entry.targets]
<1> DEFINE json == EntryJson(entry)
           names == SetToSeq(entry.targets)
           strings == [i \in DOMAIN names |-> String(names[i])]
<1>1. {names[i] : i \in DOMAIN names} = entry.targets
  BY SetListed
<1> HIDE DEF names
<1>2. ContentOf(json) = [level |-> Number(entry.level), kinds |-> Object([bits |-> Number(entry.kinds)]),
                         targets |-> Array(strings)]
      /\ TypeOf(json) = "object"
  BY DEF EntryJson, Object, TypeOf, ContentOf, names
<1>3. /\ DOMAIN ContentOf(json) = {"level", "kinds", "targets"}
      /\ At(json, "level") = Number(entry.level)
      /\ At(json, "kinds") = Object([bits |-> Number(entry.kinds)])
      /\ At(json, "targets") = Array(strings)
  BY <1>2 DEF At
<1> HIDE DEF json, strings
<1>4. /\ TypeOf(At(json, "level")) = "number" /\ ContentOf(At(json, "level")) = entry.level
      /\ TypeOf(At(json, "kinds")) = "object"
      /\ ContentOf(At(json, "kinds")) = [bits |-> Number(entry.kinds)]
      /\ TypeOf(At(json, "targets")) = "array" /\ ContentOf(At(json, "targets")) = strings
  BY <1>3 DEF TypeOf, ContentOf, Number, Object, Array
<1>5. /\ Has(At(json, "kinds"), "bits") /\ At(At(json, "kinds"), "bits") = Number(entry.kinds)
      /\ TypeOf(Number(entry.kinds)) = "number" /\ ContentOf(Number(entry.kinds)) = entry.kinds
  BY <1>4 DEF Has, At, Number, TypeOf, ContentOf
<1>6. /\ Range(strings) = {String(name) : name \in entry.targets}
      /\ \A name : TypeOf(String(name)) = "string" /\ ContentOf(String(name)) = name
  BY <1>1 DEF Range, String, TypeOf, ContentOf, strings
<1>7. Validates(EntrySchema, json)
  BY <1>2, <1>3, <1>4 DEF Validates, EntrySchema, Has
<1>8. EntryOutcome(json) = "ok"
  BY <1>4, <1>5, <1>6, <1>7 DEF EntryOutcome
<1>9. {ContentOf(name) : name \in Range(strings)} = entry.targets
  BY <1>6
<1>10. NewEntry(json) = [level |-> entry.level, kinds |-> entry.kinds, targets |-> entry.targets]
  BY <1>4, <1>5, <1>9 DEF NewEntry, AsNumber
<1> QED BY <1>8, <1>10 DEF json

LEMMA FirstBadIs ==
    ASSUME NEW outcomes, DOMAIN outcomes \subseteq Nat
    PROVE  FirstBad(outcomes) = "ok" <=> \A i \in DOMAIN outcomes : outcomes[i] = "ok"
<1> DEFINE bad == {i \in DOMAIN outcomes : outcomes[i] # "ok"}
           first == CHOOSE i \in bad : \A j \in bad : i <= j
<1>1. FirstBad(outcomes) = IF bad = {} THEN "ok" ELSE outcomes[first]
  BY DEF FirstBad
<1>2. CASE bad # {}
  <2>1. bad \in SUBSET Nat
    OBVIOUS
  <2>2. \E i \in bad : \A j \in bad : i <= j
    <3> HIDE DEF bad
    <3> QED BY <1>2, <2>1, LeastExists
  <2>3. first \in bad
    BY <2>2
  <2> QED BY <1>1, <1>2, <2>3
<1>3. CASE bad = {}
  BY <1>1, <1>3
<1> QED BY <1>2, <1>3

AllDeserialize(json) ==
    LET targets == ContentOf(At(json, "targets"))
        entries == ContentOf(At(json, "dispatch"))
    IN  /\ TypeOf(json) = "object" /\ Validates(ConfigSchema, json)
        /\ \A i \in DOMAIN targets : TargetOutcome(targets[i]) = "ok"
        /\ \A i \in DOMAIN entries : EntryOutcome(entries[i]) = "ok"

(* When a document deserializes, all it contains does.                     *)
LEMMA OutcomeIs ==
    ASSUME NEW json,
           IsASequence(ContentOf(At(json, "targets"))), IsASequence(ContentOf(At(json, "dispatch")))
    PROVE  Outcome(json) = "ok" <=> AllDeserialize(json)
<1> DEFINE targets == ContentOf(At(json, "targets"))
           entries == ContentOf(At(json, "dispatch"))
<1> DEFINE ofTargets == [i \in DOMAIN targets |-> TargetOutcome(targets[i])]
           ofEntries == [i \in DOMAIN entries |-> EntryOutcome(entries[i])]
<1>1. /\ FirstBad(ofTargets) = "ok" <=> \A i \in DOMAIN targets : TargetOutcome(targets[i]) = "ok"
      /\ FirstBad(ofEntries) = "ok" <=> \A i \in DOMAIN entries : EntryOutcome(entries[i]) = "ok"
  <2>1. /\ DOMAIN ofTargets = DOMAIN targets /\ DOMAIN ofEntries = DOMAIN entries
        /\ DOMAIN targets \subseteq Nat /\ DOMAIN entries \subseteq Nat
    BY DEF IsASequence
  <2>2. /\ \A i \in DOMAIN targets : ofTargets[i] = TargetOutcome(targets[i])
        /\ \A i \in DOMAIN entries : ofEntries[i] = EntryOutcome(entries[i])
    OBVIOUS
  <2> HIDE DEF ofTargets, ofEntries
  <2> QED BY <2>1, <2>2, FirstBadIs
<1>2. Outcome(json) =
          IF TypeOf(json) # "object" \/ ~Validates(ConfigSchema, json) THEN "throws"
          ELSE IF FirstBad(ofTargets) # "ok" THEN FirstBad(ofTargets) ELSE FirstBad(ofEntries)
  BY DEF Outcome
<1> HIDE DEF ofTargets, ofEntries
<1> QED BY <1>1, <1>2 DEF AllDeserialize

-----------------------------------------------------------------------------
(* The registry of a logger.                                               *)

(* A key's target is the first of its name: those after it get nothing.    *)
NamedFirst(targets, t) ==
    t \in DOMAIN targets /\ \A j \in 1 .. (t - 1) : targets[j].target_name # targets[t].target_name

KeysGood(ks, targets) ==
    /\ \E L, K : ks \in Seq(KeySet(L, K, Nat))
    /\ Distinct(ks) /\ NonEmpty(ks)
    /\ \A k \in DOMAIN ks : \A t \in ks[k].targets : NamedFirst(targets, t)

LoggerOK(logger) ==
    /\ logger = [targets |-> logger.targets, keys |-> logger.keys, use_fallback |-> logger.use_fallback,
                 asynchronous_mode |-> logger.asynchronous_mode]
    /\ \E S : logger.targets \in Seq(S)
    /\ \A i \in DOMAIN logger.targets : TargetOK(logger.targets[i])
    /\ KeysGood(logger.keys, logger.targets)

ConfigGood(config) ==
    /\ IsASequence(config.targets) /\ IsASequence(config.dispatch)
    /\ \A i \in DOMAIN config.targets : IsTargetConfig(config.targets[i])

LEMMA SlotsAre ==
    ASSUME NEW targets, IsASequence(targets)
    PROVE  /\ IsASequence(Slots(targets)) /\ DOMAIN Slots(targets) = DOMAIN targets
           /\ \A i \in DOMAIN targets :
                  Slots(targets)[i].name = targets[i].target_name /\ Slots(targets)[i].target = i
<1>1. Slots(targets) = [i \in 1 .. Len(targets) |-> [name |-> targets[i].target_name, target |-> i]]
      /\ Len(targets) \in Nat /\ DOMAIN targets = 1 .. Len(targets)
  BY DEF Slots, IsASequence
<1>2. Len(Slots(targets)) = Len(targets)
  BY <1>1
<1> QED BY <1>1, <1>2 DEF IsASequence

(* A name finds the first target that has it.                              *)
LEMMA FoundFirst ==
    ASSUME NEW targets, IsASequence(targets), NEW name \in NamesOf(Slots(targets))
    PROVE  \E t \in DOMAIN targets :
               /\ NamedFirst(targets, t) /\ targets[t].target_name = name
               /\ FirstNamed(Slots(targets), name) = t
<1>1. PICK t \in DOMAIN Slots(targets) :
          /\ Slots(targets)[t].name = name /\ IsFirst(Slots(targets), t)
          /\ FirstNamed(Slots(targets), name) = Slots(targets)[t].target
  BY SlotsAre, FirstNamedIs
<1>2. t \in DOMAIN targets /\ \A j \in 1 .. (t - 1) : j \in DOMAIN targets
  BY <1>1, SlotsAre DEF IsASequence
<1> QED BY <1>1, <1>2, SlotsAre DEF IsFirst, NamedFirst

LEMMA HereFirst ==
    ASSUME NEW targets, IsASequence(targets), NEW entry
    PROVE  \A t \in Here(entry, Slots(targets)) :
               /\ t \in Nat /\ NamedFirst(targets, t)
               /\ targets[t].target_name \in entry.targets
<1> SUFFICES ASSUME NEW t \in Here(entry, Slots(targets))
             PROVE  t \in Nat /\ NamedFirst(targets, t) /\ targets[t].target_name \in entry.targets
  OBVIOUS
<1>1. PICK name \in entry.targets \cap NamesOf(Slots(targets)) : t = FirstNamed(Slots(targets), name)
  BY DEF Here
<1> QED BY <1>1, FoundFirst DEF IsASequence

(* The first target of a name is the one that its name finds.              *)
LEMMA FirstIsFound ==
    ASSUME NEW targets, IsASequence(targets), NEW t, NamedFirst(targets, t)
    PROVE  /\ targets[t].target_name \in NamesOf(Slots(targets))
           /\ FirstNamed(Slots(targets), targets[t].target_name) = t
<1> DEFINE name == targets[t].target_name
<1>1. name \in NamesOf(Slots(targets))
  BY SlotsAre DEF NamesOf, NamedFirst
<1>2. PICK u \in DOMAIN targets :
          /\ NamedFirst(targets, u) /\ targets[u].target_name = name
          /\ FirstNamed(Slots(targets), name) = u
  BY <1>1, FoundFirst
<1>3. t \in Nat /\ u \in Nat /\ t >= 1 /\ u >= 1
  BY DEF NamedFirst, IsASequence
<1>4. ~(u < t) /\ ~(t < u)
  BY <1>2, <1>3 DEF NamedFirst
<1>5. u = t
  BY <1>3, <1>4
<1> QED BY <1>1, <1>2, <1>5

LEMMA NewLoggerOK == LoggerOK(NewLogger)
<1>1. /\ NewLogger.targets = <<>> /\ NewLogger.keys = <<>>
      /\ NewLogger = [targets |-> NewLogger.targets, keys |-> NewLogger.keys,
                      use_fallback |-> NewLogger.use_fallback,
                      asynchronous_mode |-> NewLogger.asynchronous_mode]
  BY DEF NewLogger
<1>2. <<>> \in Seq({}) /\ <<>> \in Seq(KeySet({}, {}, Nat))
  OBVIOUS
<1>3. KeysGood(<<>>, <<>>)
  BY <1>2 DEF KeysGood, Distinct, NonEmpty
<1> QED BY <1>1, <1>2, <1>3 DEF LoggerOK

(* Configure keeps a registry in order.                                    *)
LEMMA ConfiguredGood ==
    ASSUME NEW logger, LoggerOK(logger), NEW config, ConfigGood(config)
    PROVE  LoggerOK(Configured(logger, config))
<1> DEFINE more == [i \in DOMAIN config.targets |-> Loaded(config.targets[i])]
           targets == logger.targets \o more
           newKeys == WithEntries(logger.keys, config.dispatch, Slots(targets))
           old == logger.targets
<1>1. PICK S : old \in Seq(S)
  BY DEF LoggerOK
<1>2. /\ Len(config.targets) \in Nat /\ DOMAIN config.targets = 1 .. Len(config.targets)
      /\ \A i \in DOMAIN config.targets : TargetOK(Loaded(config.targets[i]))
  BY LoadedIs DEF ConfigGood, IsASequence
<1> DEFINE T == {Loaded(config.targets[i]) : i \in DOMAIN config.targets}
<1>3. more \in Seq(T) /\ Len(more) = Len(config.targets) /\ DOMAIN more = DOMAIN config.targets
      /\ \A i \in DOMAIN more : TargetOK(more[i])
  BY <1>2
<1> HIDE DEF more, T
<1>4. old \in Seq(S \cup T) /\ more \in Seq(S \cup T)
  BY <1>1, <1>3
<1>5. /\ targets \in Seq(S \cup T) /\ Len(targets) = Len(old) + Len(more)
      /\ \A i \in 1 .. Len(old) + Len(more) :
             targets[i] = IF i <= Len(old) THEN old[i] ELSE more[i - Len(old)]
  BY <1>4, ConcatProperties
<1>6. Len(old) \in Nat /\ Len(more) \in Nat /\ DOMAIN old = 1 .. Len(old) /\ DOMAIN more = 1 .. Len(more)
  BY <1>4
<1> HIDE DEF targets
<1>7. DOMAIN targets = 1 .. (Len(old) + Len(more)) /\ IsASequence(targets)
  BY <1>5, <1>6 DEF IsASequence
<1>8. \A i \in DOMAIN old : i \in DOMAIN targets /\ targets[i] = old[i]
  BY <1>5, <1>6, <1>7
<1>9. ASSUME NEW i \in DOMAIN targets PROVE TargetOK(targets[i])
  <2>1. CASE i <= Len(old)
    <3>1. i \in DOMAIN old /\ targets[i] = old[i]
      BY <1>5, <1>6, <1>7, <2>1
    <3> QED BY <3>1 DEF LoggerOK
  <2>2. CASE ~(i <= Len(old))
    <3>1. i - Len(old) \in DOMAIN more /\ targets[i] = more[i - Len(old)]
      BY <1>5, <1>6, <1>7, <2>2
    <3> QED BY <1>3, <3>1
  <2> QED BY <2>1, <2>2
<1>10. ASSUME NEW t, NamedFirst(old, t) PROVE NamedFirst(targets, t)
  <2>1. t \in DOMAIN old /\ \A j \in 1 .. (t - 1) : j \in DOMAIN old
    BY <1>6, <1>10 DEF NamedFirst
  <2> QED BY <1>8, <1>10, <2>1 DEF NamedFirst
<1> DEFINE entries == config.dispatch
<1>11. PICK L, K : logger.keys \in Seq(KeySet(L, K, Nat))
  BY DEF LoggerOK, KeysGood
<1> DEFINE ks == logger.keys
           L2 == L \cup {entries[n].level : n \in DOMAIN entries}
           K2 == K \cup {entries[n].kinds : n \in DOMAIN entries}
<1>12. ks \in Seq(KeySet(L2, K2, Nat)) /\ Distinct(ks) /\ NonEmpty(ks)
  <2>1. KeySet(L, K, Nat) \subseteq KeySet(L2, K2, Nat)
    BY DEF KeySet
  <2>2. ks \in Seq(KeySet(L2, K2, Nat))
    <3> HIDE DEF L2, K2
    <3> QED BY <1>11, <2>1
  <2> QED BY <2>2 DEF LoggerOK, KeysGood
<1>13. /\ IsASequence(entries)
       /\ \A n \in DOMAIN entries :
              /\ entries[n].level \in L2 /\ entries[n].kinds \in K2
              /\ Here(entries[n], Slots(targets)) \subseteq Nat
  BY <1>7, HereFirst DEF ConfigGood
<1>14. /\ newKeys \in Seq(KeySet(L2, K2, Nat)) /\ Distinct(newKeys) /\ NonEmpty(newKeys)
       /\ \A level, kinds, t :
              Gives(newKeys, level, kinds, t) <=>
                  \/ Gives(ks, level, kinds, t)
                  \/ \E n \in DOMAIN entries :
                         /\ level = entries[n].level /\ kinds = entries[n].kinds
                         /\ t \in Here(entries[n], Slots(targets))
  <2> HIDE DEF entries, ks, L2, K2
  <2> DEFINE slots == Slots(targets)
  <2>1. \A n \in DOMAIN entries : /\ entries[n].level \in L2 /\ entries[n].kinds \in K2
                                  /\ Here(entries[n], slots) \subseteq Nat
    BY <1>13
  <2> HIDE DEF slots
  <2>2. LET nk == WithEntries(ks, entries, slots)
        IN  /\ nk \in Seq(KeySet(L2, K2, Nat)) /\ Distinct(nk) /\ NonEmpty(nk)
            /\ \A level, kinds, t :
                   Gives(nk, level, kinds, t) <=>
                       \/ Gives(ks, level, kinds, t)
                       \/ \E n \in DOMAIN entries :
                              /\ level = entries[n].level /\ kinds = entries[n].kinds
                              /\ t \in Here(entries[n], slots)
    BY <1>12, <1>13, <2>1, WithEntriesAre, SMTT(60)
  <2> QED BY <2>2 DEF slots, ks, entries
<1> HIDE DEF newKeys, L2, K2
<1>15. ASSUME NEW k \in DOMAIN newKeys, NEW t \in newKeys[k].targets PROVE NamedFirst(targets, t)
  <2>1. Gives(newKeys, newKeys[k].level, newKeys[k].kinds, t)
    BY DEF Gives
  <2>2. CASE Gives(ks, newKeys[k].level, newKeys[k].kinds, t)
    <3>1. NamedFirst(old, t)
      BY <2>2 DEF Gives, LoggerOK, KeysGood
    <3> QED BY <1>10, <3>1
  <2>3. CASE \E n \in DOMAIN entries : t \in Here(entries[n], Slots(targets))
    BY <1>7, <2>3, HereFirst
  <2> QED BY <1>14, <2>1, <2>2, <2>3
<1>16. KeysGood(newKeys, targets)
  BY <1>14, <1>15 DEF KeysGood
<1>17. Configured(logger, config) =
           [targets |-> targets, keys |-> newKeys, use_fallback |-> config.use_fallback,
            asynchronous_mode |-> config.asynchronous_mode]
  BY DEF Configured, targets, newKeys, more
<1> DEFINE new == Configured(logger, config)
<1>18. /\ new.targets = targets /\ new.keys = newKeys
       /\ new = [targets |-> new.targets, keys |-> new.keys, use_fallback |-> new.use_fallback,
                 asynchronous_mode |-> new.asynchronous_mode]
  BY <1>17
<1> HIDE DEF new
<1>19. LoggerOK(new)
  BY <1>5, <1>9, <1>16, <1>18 DEF LoggerOK
<1> QED BY <1>19 DEF new

LEMMA DefaultGood == ConfigGood(DefaultConfig)
<1>1. /\ DefaultConfig.targets = <<TargetConfig("MssStdOut", "", SYSTEM_OUT_TARGET),
                                   FileTargetConfig("MssTraceFile", "", "", 24, "", 30)>>
      /\ DefaultConfig.dispatch = <<[level |-> 0, kinds |-> AllKinds,
                                     targets |-> {"MssStdOut", "MssTraceFile"}]>>
  BY DEF DefaultConfig
<1>2. IsTargetConfig(TargetConfig("MssStdOut", "", SYSTEM_OUT_TARGET))
  BY SchemaKeys DEF IsTargetConfig, TargetConfig, IsFile, SYSTEM_OUT_TARGET, FILE_TARGET
<1>3. IsTargetConfig(FileTargetConfig("MssTraceFile", "", "", 24, "", 30))
  BY SchemaKeys DEF IsTargetConfig, FileTargetConfig, IsFile, SYSTEM_OUT_TARGET, FILE_TARGET
<1>4. ASSUME NEW a, NEW b, IsTargetConfig(a), IsTargetConfig(b)
      PROVE  IsASequence(<<a, b>>) /\ \A i \in DOMAIN <<a, b>> : IsTargetConfig(<<a, b>>[i])
  BY <1>4 DEF IsASequence
<1>5. \A a : IsASequence(<<a>>)
  BY DEF IsASequence
<1>6. /\ IsASequence(DefaultConfig.targets)
      /\ \A i \in DOMAIN DefaultConfig.targets : IsTargetConfig(DefaultConfig.targets[i])
  BY <1>1, <1>2, <1>3, <1>4
<1>7. IsASequence(DefaultConfig.dispatch)
  BY <1>1, <1>5
<1> QED BY <1>6, <1>7 DEF ConfigGood

LEMMA OnlyJsonLoads ==
    ASSUME NEW text, OutcomeOf(text) = "ok"
    PROVE  Outcome(text) = "ok"
<1>1. text \notin {Missing, Empty} /\ text # Damaged
  BY ContentsDiffer
<1>2. OutcomeOf(text) = Outcome(text)
  BY <1>1 DEF OutcomeOf
<1> QED BY <1>2

(* What a load makes of a document is a configuration.                     *)
LEMMA DeserializedGood ==
    ASSUME NEW text, OutcomeOf(text) = "ok", ArraysAreSequences(text)
    PROVE  ConfigGood(Deserialized(text))
<1> DEFINE targets == ContentOf(At(text, "targets"))
           entries == ContentOf(At(text, "dispatch"))
           config == Deserialized(text)
<1>1. IsASequence(targets) /\ IsASequence(entries)
  BY DEF ArraysAreSequences
<1>2. \A i \in DOMAIN targets : TargetOutcome(targets[i]) = "ok"
  BY <1>1, OnlyJsonLoads, OutcomeIs DEF AllDeserialize
<1>3. /\ config.targets = [i \in DOMAIN targets |-> NewTarget(targets[i])]
      /\ config.dispatch = [i \in DOMAIN entries |-> NewEntry(entries[i])]
  BY DEF Deserialized
<1> HIDE DEF config, targets, entries
<1>4. Len(config.targets) = Len(targets) /\ Len(config.dispatch) = Len(entries)
  BY <1>1, <1>3 DEF IsASequence
<1>5. IsASequence(config.targets) /\ IsASequence(config.dispatch)
  BY <1>1, <1>3, <1>4 DEF IsASequence
<1>6. \A i \in DOMAIN config.targets : IsTargetConfig(config.targets[i])
  BY <1>2, <1>3, NewTargetIs
<1>7. ConfigGood(config)
  BY <1>5, <1>6 DEF ConfigGood
<1> QED BY <1>7 DEF config

-----------------------------------------------------------------------------
(* A registry as JSON.                                                     *)

Arrays(json, logger) ==
    LET config  == Get_config(logger)
        targets == ContentOf(At(json, "targets"))
        entries == ContentOf(At(json, "dispatch"))
    IN  /\ TypeOf(json) = "object" /\ Validates(ConfigSchema, json)
        /\ ContentOf(At(json, "use_fallback")) = logger.use_fallback
        /\ ContentOf(At(json, "asynchronous_mode")) = logger.asynchronous_mode
        /\ IsASequence(targets) /\ IsASequence(entries)
        /\ DOMAIN targets = DOMAIN logger.targets /\ DOMAIN entries = DOMAIN logger.keys
        /\ Len(entries) = Len(logger.keys)
        /\ \A i \in DOMAIN targets : targets[i] = TargetJson(Exported(logger.targets[i]))
        /\ \A k \in DOMAIN entries : entries[k] = EntryJson(config.dispatch[k])

LEMMA ConfigJsonIs ==
    ASSUME NEW logger, LoggerOK(logger)
    PROVE  Arrays(ConfigJson(Get_config(logger)), logger)
<1> DEFINE config == Get_config(logger)
           json == ConfigJson(config)
           targets == [i \in DOMAIN config.targets |-> TargetJson(config.targets[i])]
           entries == [k \in DOMAIN config.dispatch |-> EntryJson(config.dispatch[k])]
<1>1. /\ DOMAIN config.targets = DOMAIN logger.targets /\ DOMAIN config.dispatch = DOMAIN logger.keys
      /\ \A i \in DOMAIN logger.targets : config.targets[i] = Exported(logger.targets[i])
      /\ config.use_fallback = logger.use_fallback /\ config.asynchronous_mode = logger.asynchronous_mode
  BY DEF Get_config
<1> HIDE DEF config
<1>2. /\ TypeOf(json) = "object"
      /\ ContentOf(json) = [targets |-> Array(targets), dispatch |-> Array(entries),
                            use_fallback |-> Boolean(config.use_fallback),
                            asynchronous_mode |-> Boolean(config.asynchronous_mode)]
  BY DEF ConfigJson, Object, TypeOf, ContentOf
<1> HIDE DEF json, targets, entries
<1>3. /\ DOMAIN ContentOf(json) = {"targets", "dispatch", "use_fallback", "asynchronous_mode"}
      /\ At(json, "targets") = Array(targets) /\ At(json, "dispatch") = Array(entries)
      /\ At(json, "use_fallback") = Boolean(config.use_fallback)
      /\ At(json, "asynchronous_mode") = Boolean(config.asynchronous_mode)
  BY <1>2 DEF At
<1>4. /\ TypeOf(At(json, "targets")) = "array" /\ ContentOf(At(json, "targets")) = targets
      /\ TypeOf(At(json, "dispatch")) = "array" /\ ContentOf(At(json, "dispatch")) = entries
      /\ TypeOf(At(json, "use_fallback")) = "boolean" /\ TypeOf(At(json, "asynchronous_mode")) = "boolean"
      /\ ContentOf(At(json, "use_fallback")) = config.use_fallback
      /\ ContentOf(At(json, "asynchronous_mode")) = config.asynchronous_mode
  BY <1>3 DEF TypeOf, ContentOf, Array, Boolean
<1>5. Validates(ConfigSchema, json)
  BY <1>2, <1>3, <1>4 DEF Validates, ConfigSchema, Has
<1>6. /\ DOMAIN logger.targets = 1 .. Len(logger.targets) /\ Len(logger.targets) \in Nat
      /\ DOMAIN logger.keys = 1 .. Len(logger.keys) /\ Len(logger.keys) \in Nat
  BY DEF LoggerOK, KeysGood
<1>7. /\ targets = [i \in DOMAIN logger.targets |-> TargetJson(config.targets[i])]
      /\ entries = [k \in DOMAIN logger.keys |-> EntryJson(config.dispatch[k])]
  BY <1>1 DEF targets, entries
<1>8. Len(targets) = Len(logger.targets) /\ Len(entries) = Len(logger.keys)
  BY <1>6, <1>7
<1>9. IsASequence(targets) /\ IsASequence(entries)
  BY <1>6, <1>7, <1>8 DEF IsASequence
<1>10. /\ DOMAIN targets = DOMAIN logger.targets /\ DOMAIN entries = DOMAIN logger.keys
       /\ \A i \in DOMAIN targets : targets[i] = TargetJson(Exported(logger.targets[i]))
       /\ \A k \in DOMAIN entries : entries[k] = EntryJson(config.dispatch[k])
  BY <1>1, <1>7
<1>11. Arrays(json, logger)
  BY <1>1, <1>2, <1>4, <1>5, <1>8, <1>9, <1>10 DEF Arrays, config
<1> QED BY <1>11 DEF json, config

LEMMA SavedArrays ==
    ASSUME NEW logger, LoggerOK(logger)
    PROVE  ArraysAreSequences(ConfigJson(Get_config(logger)))
BY ConfigJsonIs DEF Arrays, ArraysAreSequences

(* The names of a key's targets: those targets are what the names find.    *)
LEMMA SequenceIs ==
    ASSUME NEW S, NEW s \in Seq(S)
    PROVE  s = [i \in DOMAIN s |-> s[i]] /\ DOMAIN s = 1 .. Len(s) /\ Len(s) \in Nat
OBVIOUS

LEMMA LengthIs ==
    ASSUME NEW n \in Nat, NEW s, DOMAIN s = 1 .. n, s = [i \in DOMAIN s |-> s[i]]
    PROVE  Len(s) = n /\ IsASequence(s)
<1>1. Len(s) = n
  OBVIOUS
<1> QED BY <1>1 DEF IsASequence

LEMMA KeyNames ==
    ASSUME NEW logger, LoggerOK(logger), NEW k \in DOMAIN logger.keys
    PROVE  LET entry == Get_config(logger).dispatch[k]
           IN  /\ entry.level = logger.keys[k].level /\ entry.kinds = logger.keys[k].kinds
               /\ IsFiniteSet(entry.targets)
               /\ Here(entry, Slots(logger.targets)) = logger.keys[k].targets
<1> DEFINE entry == Get_config(logger).dispatch[k]
           targets == logger.targets
           key == logger.keys[k]
           names == {targets[t].target_name : t \in key.targets}
<1>1. entry = [level |-> key.level, kinds |-> key.kinds, targets |-> names]
  BY DEF Get_config
<1>2. entry.level = key.level /\ entry.kinds = key.kinds /\ entry.targets = names
  BY <1>1
<1> HIDE DEF entry
<1>3. IsASequence(targets) /\ \A t \in key.targets : NamedFirst(targets, t)
  BY DEF LoggerOK, KeysGood, IsASequence
<1>4. \A t \in key.targets : /\ targets[t].target_name \in NamesOf(Slots(targets))
                             /\ FirstNamed(Slots(targets), targets[t].target_name) = t
  BY <1>3, FirstIsFound
<1> DEFINE names2 == entry.targets \cap NamesOf(Slots(targets))
<1>5. names2 = names
  BY <1>2, <1>4
<1>6. Here(entry, Slots(targets)) = {FirstNamed(Slots(targets), name) : name \in names}
  BY <1>5 DEF Here
<1>7. Here(entry, Slots(targets)) = key.targets
  BY <1>4, <1>6
<1>8. IsFiniteSet(names)
  <2> DEFINE f == [t \in key.targets |-> targets[t].target_name]
  <2>1. key.targets \subseteq 1 .. Len(targets) /\ Len(targets) \in Int /\ 1 \in Int
    BY <1>3 DEF NamedFirst, IsASequence
  <2>2. IsFiniteSet(1 .. Len(targets))
    BY <2>1, FS_Interval
  <2> HIDE DEF key
  <2>3. IsFiniteSet(key.targets)
    BY <2>1, <2>2, FS_Subset
  <2>4. f \in Surjection(key.targets, names)
    BY DEF Surjection
  <2> HIDE DEF f, names
  <2> QED BY <2>3, <2>4, FS_Surjection
<1> HIDE DEF names, key, targets
<1>9. IsFiniteSet(entry.targets)
  BY <1>2, <1>8
<1> QED BY <1>2, <1>7, <1>9 DEF entry, key, targets

(* A logger that loads what was saved has the registry that was saved.     *)
LEMMA LoadsAsSaved ==
    ASSUME NEW logger, LoggerOK(logger),
           \A i \in DOMAIN logger.targets : IsFile(logger.targets[i]) => logger.targets[i].filepath # ""
    PROVE  LET json == ConfigJson(Get_config(logger))
           IN  OutcomeOf(json) = "ok" /\ Configured(NewLogger, Deserialized(json)) = logger
<1> DEFINE config == Get_config(logger)
           json == ConfigJson(config)
           targets == ContentOf(At(json, "targets"))
           entries == ContentOf(At(json, "dispatch"))
           loaded == Deserialized(json)
<1>1. /\ TypeOf(json) = "object" /\ Validates(ConfigSchema, json)
      /\ ContentOf(At(json, "use_fallback")) = logger.use_fallback
      /\ ContentOf(At(json, "asynchronous_mode")) = logger.asynchronous_mode
      /\ IsASequence(targets) /\ IsASequence(entries)
      /\ DOMAIN targets = DOMAIN logger.targets /\ DOMAIN entries = DOMAIN logger.keys
      /\ Len(entries) = Len(logger.keys)
      /\ \A i \in DOMAIN targets : targets[i] = TargetJson(Exported(logger.targets[i]))
      /\ \A k \in DOMAIN entries : entries[k] = EntryJson(config.dispatch[k])
  BY ConfigJsonIs DEF Arrays
<1>2. OutcomeOf(json) = Outcome(json)
  BY ContentsDiffer DEF ConfigJson
<1> HIDE DEF config, json
<1>3. ASSUME NEW i \in DOMAIN logger.targets
      PROVE  /\ TargetOutcome(targets[i]) = "ok" /\ NewTarget(targets[i]) = logger.targets[i]
             /\ Loaded(logger.targets[i]) = logger.targets[i]
  <2>1. TargetOK(logger.targets[i])
    BY DEF LoggerOK
  <2>2. targets[i] = TargetJson(logger.targets[i])
    BY <1>1, <2>1, ExportedIs
  <2> QED BY <2>1, <2>2, TargetJsonIs, LoadedSame
<1>4. ASSUME NEW k \in DOMAIN logger.keys
      PROVE  /\ EntryOutcome(entries[k]) = "ok"
             /\ SameKey(logger.keys[k], NewEntry(entries[k]))
             /\ Here(NewEntry(entries[k]), Slots(logger.targets)) = logger.keys[k].targets
  <2> DEFINE entry == config.dispatch[k]
  <2>1. /\ entry.level = logger.keys[k].level /\ entry.kinds = logger.keys[k].kinds
        /\ IsFiniteSet(entry.targets)
        /\ Here(entry, Slots(logger.targets)) = logger.keys[k].targets
    BY KeyNames DEF config
  <2>2. entries[k] = EntryJson(entry)
    BY <1>1
  <2> HIDE DEF entry
  <2>3. /\ EntryOutcome(EntryJson(entry)) = "ok"
        /\ NewEntry(EntryJson(entry)) =
               [level |-> entry.level, kinds |-> entry.kinds, targets |-> entry.targets]
    BY <2>1, EntryJsonIs
  <2> DEFINE new == NewEntry(entries[k])
  <2>4. new = [level |-> entry.level, kinds |-> entry.kinds, targets |-> entry.targets]
    BY <2>2, <2>3
  <2> HIDE DEF new
  <2>5. new.level = entry.level /\ new.kinds = entry.kinds /\ new.targets = entry.targets
    BY <2>4
  <2>6. Here(new, Slots(logger.targets)) = Here(entry, Slots(logger.targets))
    BY <2>5 DEF Here
  <2>7. SameKey(logger.keys[k], new)
    BY <2>1, <2>5 DEF SameKey
  <2>8. EntryOutcome(entries[k]) = "ok"
    BY <2>2, <2>3
  <2> QED BY <2>1, <2>6, <2>7, <2>8 DEF new
<1>5. OutcomeOf(json) = "ok"
  <2>2. \A i \in DOMAIN targets : TargetOutcome(targets[i]) = "ok"
    BY <1>1, <1>3
  <2>3. \A k \in DOMAIN entries : EntryOutcome(entries[k]) = "ok"
    BY <1>1, <1>4
  <2>4. AllDeserialize(json)
    BY <1>1, <2>2, <2>3 DEF AllDeserialize
  <2>5. Outcome(json) = "ok"
    BY <1>1, <2>4, OutcomeIs
  <2> QED BY <1>2, <2>5
<1>6. /\ loaded.targets = [i \in DOMAIN logger.targets |-> NewTarget(targets[i])]
      /\ loaded.dispatch = [k \in DOMAIN logger.keys |-> NewEntry(entries[k])]
      /\ loaded.use_fallback = logger.use_fallback
      /\ loaded.asynchronous_mode = logger.asynchronous_mode
  BY <1>1 DEF Deserialized
<1> HIDE DEF loaded
<1> DEFINE more == [i \in DOMAIN loaded.targets |-> Loaded(loaded.targets[i])]
<1>7. more = logger.targets
  <2>1. more = [i \in DOMAIN logger.targets |-> Loaded(NewTarget(targets[i]))]
    BY <1>6
  <2>2. more = [i \in DOMAIN logger.targets |-> logger.targets[i]]
    BY <1>3, <2>1
  <2>3. PICK S : logger.targets \in Seq(S)
    BY DEF LoggerOK
  <2>4. logger.targets = [i \in DOMAIN logger.targets |-> logger.targets[i]]
    BY <2>3, SequenceIs
  <2> QED BY <2>2, <2>4
<1> HIDE DEF more
<1>8. NewLogger.targets \o more = logger.targets
  <2>1. PICK S : logger.targets \in Seq(S)
    BY DEF LoggerOK
  <2> QED BY <1>7, <2>1, ConcatEmptySeq DEF NewLogger
<1>9. WithEntries(<<>>, loaded.dispatch, Slots(logger.targets)) = logger.keys
  <2> DEFINE ks == logger.keys
             new == loaded.dispatch
             slots == Slots(logger.targets)
  <2>1. PICK L, K : ks \in Seq(KeySet(L, K, Nat))
    BY DEF LoggerOK, KeysGood
  <2>2. Distinct(ks) /\ NonEmpty(ks)
    BY DEF LoggerOK, KeysGood
  <2>3. Len(new) = Len(ks) /\ IsASequence(new)
    <3>1. DOMAIN ks = 1 .. Len(ks) /\ Len(ks) \in Nat
      BY <2>1, SequenceIs
    <3>2. new = [k \in 1 .. Len(ks) |-> NewEntry(entries[k])]
      BY <1>6, <3>1
    <3> HIDE DEF ks, new
    <3>3. DOMAIN new = 1 .. Len(ks) /\ new = [k \in DOMAIN new |-> new[k]]
      BY <3>2
    <3> QED BY <3>1, <3>3, LengthIs
  <2>4. \A n \in DOMAIN new : SameKey(ks[n], new[n]) /\ Here(new[n], slots) = ks[n].targets
    BY <1>4, <1>6
  <2> HIDE DEF ks, new, slots
  <2>5. EntriesFor(ks, new, slots)
    BY <2>3, <2>4 DEF EntriesFor
  <2>6. WithEntries(<<>>, new, slots) = ks
    BY <2>1, <2>2, <2>5, WithEntriesOf
  <2> QED BY <2>6 DEF ks, new, slots
<1>10. Configured(NewLogger, loaded) =
           [targets |-> logger.targets, keys |-> logger.keys,
            use_fallback |-> logger.use_fallback, asynchronous_mode |-> logger.asynchronous_mode]
  <2>1. NewLogger.keys = <<>>
    BY DEF NewLogger
  <2>2. Configured(NewLogger, loaded) =
            [targets |-> NewLogger.targets \o more,
             keys |-> WithEntries(NewLogger.keys, loaded.dispatch, Slots(NewLogger.targets \o more)),
             use_fallback |-> loaded.use_fallback, asynchronous_mode |-> loaded.asynchronous_mode]
    BY DEF Configured, more
  <2> QED BY <1>6, <1>8, <1>9, <2>1, <2>2
<1>11. Configured(NewLogger, loaded) = logger
  BY <1>10 DEF LoggerOK
<1> QED BY <1>5, <1>11 DEF loaded, json, config

-----------------------------------------------------------------------------
(* Every registry is in order, and what is in the file, or about to be     *)
(* written, is the JSON of one.                                            *)

Pending ==
    pc \in {"open", "write"} => contents = Empty \/ contents = ConfigJson(Get_config(loggers[saver]))

FileIsSaved ==
    saved # None => LoggerOK(saved) /\ file = ConfigJson(Get_config(saved))

RegistriesInv ==
    /\ loggers = [l \in Loggers |-> loggers[l]] /\ \A l \in Loggers : LoggerOK(loggers[l])
    /\ saver \in Loggers \cup {None} /\ (pc # "idle" <=> saver # None)
    /\ pc = "write" => file = Empty
    /\ cut \in BOOLEAN
    /\ ArraysAreSequences(file)
    /\ Pending /\ FileIsSaved

LEMMA PlainArrays ==
    ArraysAreSequences(Missing) /\ ArraysAreSequences(Empty) /\ ArraysAreSequences(Damaged)
BY ContentsDiffer DEF ArraysAreSequences

LEMMA RegistriesInit == Init => RegistriesInv
<1> SUFFICES ASSUME Init PROVE RegistriesInv
  OBVIOUS
<1>1. loggers = [l \in Loggers |-> NewLogger]
  BY DEF Init
<1>2. loggers = [l \in Loggers |-> loggers[l]] /\ \A l \in Loggers : LoggerOK(loggers[l])
  BY <1>1, NewLoggerOK
<1>3. file = Missing /\ saver = None /\ pc = "idle" /\ cut = FALSE /\ saved = None
  BY DEF Init
<1> QED BY <1>2, <1>3, PlainArrays DEF RegistriesInv, Pending, FileIsSaved

(* The registries when Configure has changed one of them.                  *)
LEMMA RegistriesConfigured ==
    ASSUME RegistriesInv, NEW l \in Loggers, NEW config, ConfigGood(config),
           loggers' = [loggers EXCEPT ![l] = Configured(@, config)]
    PROVE  loggers' = [k \in Loggers |-> loggers'[k]] /\ \A k \in Loggers : LoggerOK(loggers'[k])
<1> DEFINE new == Configured(loggers[l], config)
<1>1. loggers = [k \in Loggers |-> loggers[k]] /\ \A k \in Loggers : LoggerOK(loggers[k])
  BY DEF RegistriesInv
<1>2. LoggerOK(new)
  BY <1>1, ConfiguredGood
<1>3. loggers' = [loggers EXCEPT ![l] = new]
  OBVIOUS
<1> HIDE DEF new
<1> QED BY <1>1, <1>2, <1>3

LEMMA RegistriesNext == Inv /\ RegistriesInv /\ [Next]_vars => RegistriesInv'
<1> SUFFICES ASSUME Inv, RegistriesInv, [Next]_vars PROVE RegistriesInv'
  OBVIOUS
<1>0. /\ loggers = [l \in Loggers |-> loggers[l]] /\ \A l \in Loggers : LoggerOK(loggers[l])
      /\ saver \in Loggers \cup {None} /\ (pc # "idle" <=> saver # None)
      /\ pc = "write" => file = Empty
      /\ cut \in BOOLEAN
      /\ ArraysAreSequences(file)
      /\ Pending /\ FileIsSaved
  BY DEF RegistriesInv
<1>u. ASSUME UNCHANGED <<loggers, file, saver, pc, cut, contents, saved>> PROVE RegistriesInv'
  BY <1>0, <1>u DEF RegistriesInv, Pending, FileIsSaved
<1>c. ASSUME NEW l \in Loggers, NEW config, ConfigGood(config), pc = "idle",
             loggers' = [loggers EXCEPT ![l] = Configured(@, config)],
             UNCHANGED <<file, saver, pc, cut, saved>>
      PROVE  RegistriesInv'
  <2>1. loggers' = [k \in Loggers |-> loggers'[k]] /\ \A k \in Loggers : LoggerOK(loggers'[k])
    BY <1>c, RegistriesConfigured
  <2> QED BY <1>0, <1>c, <2>1 DEF RegistriesInv, Pending, FileIsSaved
<1>1. CASE Configure
  <2>1. PICK l \in Loggers, config \in AppConfigs :
            /\ Call
            /\ loggers' = [loggers EXCEPT ![l] = Configured(@, config)]
            /\ UNCHANGED <<disk, call, history>>
    BY <1>1 DEF Configure
  <2>2. ConfigGood(config)
    BY AppConfigsAssumption DEF ConfigGood
  <2>3. pc = "idle" /\ UNCHANGED <<file, saver, pc, cut, saved>>
    BY <2>1 DEF Call, disk, call, history
  <2> QED BY <1>c, <2>1, <2>2, <2>3
<1>2. CASE Save_config
  <2>1. PICK l \in Loggers : pc' = "serialize" /\ saver' = l /\ UNCHANGED <<file, loggers, cut, saved>>
    BY <1>2 DEF Save_config, disk, history
  <2> QED BY <1>0, <2>1, NoneAssumption DEF RegistriesInv, Pending, FileIsSaved
<1>3. CASE Save_serialize
  <2> DEFINE config == Get_config(loggers[saver])
  <2>1. /\ pc = "serialize" /\ UNCHANGED <<loggers, cut>>
        /\ saved' = IF file' = file THEN saved ELSE None
        /\ \/ pc' = "open" /\ contents' = ConfigJson(config) /\ UNCHANGED <<file, saver>>
           \/ pc' = "open" /\ contents' = Empty /\ file' = Missing /\ UNCHANGED saver
           \/ pc' = "idle" /\ saver' = None /\ UNCHANGED file
    BY <1>3 DEF Save_serialize, Backup_config, disk
  <2>2. Pending'
    BY <2>1 DEF Pending
  <2>3. FileIsSaved'
    BY <1>0, <2>1 DEF FileIsSaved
  <2>4. ArraysAreSequences(file')
    BY <1>0, <2>1, PlainArrays
  <2>5. saver' \in Loggers \cup {None} /\ (pc' # "idle" <=> saver' # None) /\ pc' # "write"
    BY <1>0, <2>1
  <2> QED BY <1>0, <2>1, <2>2, <2>3, <2>4, <2>5 DEF RegistriesInv
<1>4. CASE Save_open
  <2>1. /\ UNCHANGED <<loggers, cut>> /\ pc = "open"
        /\ \/ file' = Empty /\ saved' = None /\ pc' = "write" /\ UNCHANGED <<saver, contents>>
           \/ pc' = "idle" /\ saver' = None /\ UNCHANGED <<file, saved>>
    BY <1>4 DEF Save_open
  <2> QED BY <1>0, <2>1, PlainArrays DEF RegistriesInv, Pending, FileIsSaved
<1>5. CASE Save_write
  <2>1. /\ UNCHANGED loggers /\ pc = "write" /\ pc' = "idle" /\ saver' = None
        /\ \/ /\ file' = contents /\ saved' = IF contents = Empty THEN None ELSE loggers[saver]
              /\ cut' = (cut /\ contents = Empty)
           \/ file' \in {Empty, Damaged} /\ cut' = TRUE /\ UNCHANGED saved
    BY <1>5 DEF Save_write
  <2>2. saver \in Loggers /\ LoggerOK(loggers[saver])
    BY <1>0, <2>1
  <2>3. contents = Empty \/ contents = ConfigJson(Get_config(loggers[saver]))
    BY <1>0, <2>1 DEF Pending
  <2>4. ArraysAreSequences(contents)
    BY <2>2, <2>3, PlainArrays, SavedArrays
  <2>5. ArraysAreSequences(file')
    BY <2>1, <2>4, PlainArrays
  <2>6. saved = None
    <3>1. file = Empty
      BY <1>0, <2>1
    <3>2. \A config : ConfigJson(config) # Empty
      BY ContentsDiffer DEF ConfigJson
    <3> QED BY <1>0, <3>1, <3>2 DEF FileIsSaved
  <2>7. FileIsSaved'
    <3>1. CASE file' = contents /\ saved' = IF contents = Empty THEN None ELSE loggers[saver]
      BY <2>2, <2>3, <3>1 DEF FileIsSaved
    <3>2. CASE UNCHANGED saved
      BY <2>6, <3>2 DEF FileIsSaved
    <3> QED BY <2>1, <3>1, <3>2
  <2> QED BY <1>0, <2>1, <2>5, <2>7 DEF RegistriesInv, Pending
<1>6. ASSUME NEW l \in Loggers, Load_missing(l) PROVE RegistriesInv'
  <2>1. /\ loggers' = [loggers EXCEPT ![l] = Configured(@, DefaultConfig)]
        /\ pc' = "serialize" /\ saver' = Global /\ UNCHANGED <<file, cut, saved>>
    BY <1>6 DEF Load_missing, Default, disk, history
  <2>2. loggers' = [k \in Loggers |-> loggers'[k]] /\ \A k \in Loggers : LoggerOK(loggers'[k])
    BY <2>1, DefaultGood, RegistriesConfigured
  <2> QED BY <1>0, <2>1, <2>2, NoneAssumption, GlobalAssumption DEF RegistriesInv, Pending, FileIsSaved
<1>7. ASSUME NEW l \in Loggers, Load_unread(l) PROVE RegistriesInv'
  <2>1. /\ loggers' = [loggers EXCEPT ![l] = Configured(@, DefaultConfig)]
        /\ pc = "idle" /\ UNCHANGED <<file, saver, pc, cut, saved>>
    BY <1>7 DEF Load_unread, Default, Call, disk, call, history
  <2> QED BY <1>c, <2>1, DefaultGood
<1>8. ASSUME NEW l \in Loggers, Load_document(l) PROVE RegistriesInv'
  <2>1. /\ loggers' = [loggers EXCEPT ![l] = Configured(@, Deserialized(file))]
        /\ OutcomeOf(file) = "ok"
        /\ pc = "idle" /\ UNCHANGED <<file, saver, pc, cut, saved>>
    BY <1>8 DEF Load_document, Call, disk, call, history
  <2>2. ConfigGood(Deserialized(file))
    BY <1>0, <2>1, DeserializedGood
  <2> QED BY <1>c, <2>1, <2>2
<1>9. ASSUME NEW l \in Loggers, Load_rejected(l) PROVE RegistriesInv'
  <2>1. /\ loggers' = [loggers EXCEPT ![l] = Configured(@, DefaultConfig)]
        /\ file' = Missing /\ saved' = None
        /\ pc = "idle" /\ UNCHANGED <<saver, pc, cut>>
    BY <1>9 DEF Load_rejected, Default, Call, Backup_config, call
  <2>2. loggers' = [k \in Loggers |-> loggers'[k]] /\ \A k \in Loggers : LoggerOK(loggers'[k])
    BY <2>1, DefaultGood, RegistriesConfigured
  <2> QED BY <1>0, <2>1, <2>2, PlainArrays DEF RegistriesInv, Pending, FileIsSaved
<1>10. CASE Load_undefined \/ Crash
  <2>1. /\ loggers' = [l \in Loggers |-> NewLogger]
        /\ pc' = "idle" /\ saver' = None /\ cut' = (cut \/ pc = "write")
        /\ UNCHANGED <<file, saved>>
    BY <1>10 DEF Load_undefined, Crash, Restart, disk
  <2>2. loggers' = [l \in Loggers |-> loggers'[l]] /\ \A l \in Loggers : LoggerOK(loggers'[l])
    BY <2>1, NewLoggerOK
  <2> QED BY <1>0, <2>1, <2>2 DEF RegistriesInv, Pending, FileIsSaved
<1>11. CASE Edit
  <2>1. /\ pc = "idle" /\ file' \in Texts \cup {Missing} /\ cut' = FALSE /\ saved' = None
        /\ UNCHANGED <<loggers, pc, saver>>
    BY <1>11 DEF Edit, call
  <2>2. ArraysAreSequences(file')
    BY <2>1, PlainArrays, DocumentsAssumption DEF Texts
  <2> QED BY <1>0, <2>1, <2>2 DEF RegistriesInv, Pending, FileIsSaved
<1>12. CASE UNCHANGED vars
  BY <1>12, <1>u DEF vars, disk, call, history
<1> QED BY <1>1, <1>2, <1>3, <1>4, <1>5, <1>6, <1>7, <1>8, <1>9, <1>10, <1>11, <1>12 DEF Next, Load_config

LEMMA RegistriesAlways == Spec => []RegistriesInv
BY InvInit, InvNext, RegistriesInit, RegistriesNext, PTL DEF Spec

LEMMA StoreTyped == Inv /\ RegistriesInv => TypeOK
<1> SUFFICES ASSUME Inv, RegistriesInv PROVE TypeOK
  OBVIOUS
<1>1. ASSUME NEW l \in Loggers, NEW k \in DOMAIN loggers[l].keys
      PROVE  loggers[l].keys[k].targets \subseteq DOMAIN loggers[l].targets
  BY DEF RegistriesInv, LoggerOK, KeysGood, NamedFirst
<1>2. DOMAIN backups = BackupNames /\ pc \in {"idle", "serialize", "open", "write"} /\ ops \in 0 .. MaxOps
  BY DEF Inv, Counters
<1>3. pc \in {"open", "write"} => contents = Empty \/ TypeOf(contents) = "object"
  <2>1. \A config : TypeOf(ConfigJson(config)) = "object"
    BY DEF ConfigJson, Object, TypeOf
  <2> QED BY <2>1 DEF RegistriesInv, Pending
<1> QED BY <1>1, <1>2, <1>3 DEF RegistriesInv, TypeOK

(* Keys name targets that are there, and a file being written has been     *)
(* truncated.                                                              *)
THEOREM StoreTypeCorrect == Spec => []TypeOK
BY StoreInvariant, RegistriesAlways, StoreTyped, PTL

LEMMA SavedLoads == RegistriesInv => SaveIsFaithful
BY LoadsAsSaved DEF RegistriesInv, FileIsSaved, SaveIsFaithful

(* A new logger that loads what was saved has the registry that was saved. *)
THEOREM SavesAreFaithful == Spec => []SaveIsFaithful
BY RegistriesAlways, SavedLoads, PTL

=============================================================================
