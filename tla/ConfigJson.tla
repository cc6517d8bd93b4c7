------------------------------ MODULE ConfigJson ------------------------------
(***************************************************************************)
(* Configurations as JSON: what the serializer makes of a LoggerConfig,    *)
(* and what becomes of a document, which a user may have changed, when it  *)
(* is deserialized.                                                        *)
(*                                                                         *)
(* A JSON value is a pair of its type and its content.  Of the members of  *)
(* FileTargetConfig, suffix stands for the four strings that keep their    *)
(* default when empty, log_frequency for the two numbers that must be      *)
(* there; a LogKindSet is its bits.                                        *)
(***************************************************************************)
EXTENDS Rules, FiniteSets

Number(n) == <<"number", n>>
String(s) == <<"string", s>>
Boolean(b) == <<"boolean", b>>
Array(s) == <<"array", s>>
Object(f) == <<"object", f>>

TypeOf(json) == json[1]
ContentOf(json) == json[2]
Has(json, key) == key \in DOMAIN ContentOf(json)
At(json, key) == ContentOf(json)[key]

-----------------------------------------------------------------------------
(* Configurations.  The constructors leave what is empty at its default.   *)

SYSTEM_OUT_TARGET == 0
SYSTEM_ERR_TARGET == 1
FILE_TARGET       == 2
LOG_TARGET_COUNT  == 3

Or(value, default) == IF value = "" THEN default ELSE value

TargetConfig(name, format, type) ==
    [target_name |-> name, format_string |-> Or(format, "format"), target_type |-> type]

FileTargetConfig(name, format, filepath, frequency, suffix, duration) ==
    [target_name |-> name, format_string |-> Or(format, "format"), target_type |-> FILE_TARGET,
     filepath |-> Or(filepath, "trace"), log_frequency |-> frequency,
     suffix |-> Or(suffix, ".log"), log_storage_duration |-> duration]

IsFile(target) == target.target_type = FILE_TARGET

AllKinds == 7

DefaultConfig ==
    [targets |-> <<TargetConfig("MssStdOut", "", SYSTEM_OUT_TARGET),
                   FileTargetConfig("MssTraceFile", "", "", 24, "", 30)>>,
     dispatch |-> <<[level |-> 0, kinds |-> AllKinds, targets |-> {"MssStdOut", "MssTraceFile"}]>>,
     use_fallback |-> TRUE, asynchronous_mode |-> TRUE]

-----------------------------------------------------------------------------
(* Schemas: the keys that must be there, and the types of those that are.  *)

ConfigSchema ==
    [required |-> {"targets", "dispatch", "use_fallback", "asynchronous_mode"},
     types |-> [targets |-> "array", dispatch |-> "array",
                use_fallback |-> "boolean", asynchronous_mode |-> "boolean"]]

EntrySchema ==
    [required |-> {"level", "kinds", "targets"},
     types |-> [level |-> "number", kinds |-> "object", targets |-> "array"]]

TargetSchema ==
    [required |-> {"target_name", "format_string", "target_type"},
     types |-> [target_name |-> "string", format_string |-> "string", target_type |-> "number"]]

FileSchema ==
    [required |-> TargetSchema.required \cup {"filepath", "log_frequency", "suffix"},
     types |-> [target_name |-> "string", format_string |-> "string", target_type |-> "number",
                filepath |-> "string", log_frequency |-> "number",
                suffix |-> "string", log_storage_duration |-> "number"]]

Validates(schema, json) ==
    /\ TypeOf(json) = "object"
    /\ \A key \in schema.required : Has(json, key)
    /\ \A key \in DOMAIN schema.types :
           Has(json, key) => TypeOf(At(json, key)) = schema.types[key]

-----------------------------------------------------------------------------
(* Serialize.  A member becomes what its type says; the schema gives it.   *)

(* Mutant: the storage duration is not among the exposed members.          *)
TargetJson_no_duration(target) ==
    Object([key \in DOMAIN target \ {"log_storage_duration"} |-> <<FileSchema.types[key], target[key]>>])

TargetJson(target) ==
    Object([key \in DOMAIN target |-> <<FileSchema.types[key], target[key]>>])

EntryJson(entry) ==
    LET names == SetToSeq(entry.targets)
    IN  Object([level |-> Number(entry.level), kinds |-> Object([bits |-> Number(entry.kinds)]),
                targets |-> Array([i \in DOMAIN names |-> String(names[i])])])

ConfigJson(config) ==
    Object([targets |-> Array([i \in DOMAIN config.targets |-> TargetJson(config.targets[i])]),
            dispatch |-> Array([i \in DOMAIN config.dispatch |-> EntryJson(config.dispatch[i])]),
            use_fallback |-> Boolean(config.use_fallback),
            asynchronous_mode |-> Boolean(config.asynchronous_mode)])

-----------------------------------------------------------------------------
(* Deserialize.  It succeeds ("ok"), throws ("throws") or has no defined   *)
(* behaviour ("undefined").                                                *)

(* AllocateFromJSON: the object to be filled.  The operator [] of a const  *)
(* JSON object without that key has no defined behaviour; a type that is   *)
(* not known gives a null pointer, on which Deserialize is called.         *)
Allocation(json) ==
    CASE TypeOf(json) # "object"                 -> "throws"
      [] ~Has(json, "target_type")          -> "undefined"
      [] TypeOf(At(json, "target_type")) # "number" -> "throws"
      [] ContentOf(At(json, "target_type")) \notin SYSTEM_OUT_TARGET .. FILE_TARGET -> "undefined"
      [] OTHER                                   -> "ok"

IsFileJson(json) == ContentOf(At(json, "target_type")) = FILE_TARGET

TargetOutcome(json) ==
    IF Allocation(json) # "ok" THEN Allocation(json)
    ELSE IF Validates(IF IsFileJson(json) THEN FileSchema ELSE TargetSchema, json)
         THEN "ok" ELSE "throws"

EntryOutcome(json) ==
    IF /\ Validates(EntrySchema, json)
       /\ LET kinds == At(json, "kinds")
          IN  Has(kinds, "bits") => TypeOf(At(kinds, "bits")) \in {"number", "boolean"}
       /\ \A name \in Range(ContentOf(At(json, "targets"))) : TypeOf(name) = "string"
    THEN "ok" ELSE "throws"

(* The first of the outcomes that ends it.                                 *)
FirstBad(outcomes) ==
    LET bad == {i \in DOMAIN outcomes : outcomes[i] # "ok"}
    IN  IF bad = {} THEN "ok" ELSE outcomes[CHOOSE i \in bad : \A j \in bad : i <= j]

(* The targets are deserialized before the dispatch entries.               *)
Outcome(json) ==
    IF TypeOf(json) # "object" \/ ~Validates(ConfigSchema, json) THEN "throws"
    ELSE LET targets == ContentOf(At(json, "targets"))
             entries == ContentOf(At(json, "dispatch"))
             ofTargets == FirstBad([i \in DOMAIN targets |-> TargetOutcome(targets[i])])
         IN  IF ofTargets # "ok" THEN ofTargets
             ELSE FirstBad([i \in DOMAIN entries |-> EntryOutcome(entries[i])])

(* The members of an object that are in the document; the others stay.     *)
Filled(object, json) ==
    [key \in DOMAIN object |-> IF Has(json, key) THEN ContentOf(At(json, key)) ELSE object[key]]

NewTarget(json) ==
    Filled(IF IsFileJson(json) THEN FileTargetConfig("undefined", "", "", 24, "", 30)
           ELSE TargetConfig("unnamed", "", LOG_TARGET_COUNT), json)

(* get<size_t>: a Boolean is taken for a number.                           *)
AsNumber(json) ==
    IF TypeOf(json) = "boolean" THEN (IF ContentOf(json) THEN 1 ELSE 0) ELSE ContentOf(json)

NewEntry(json) ==
    [level |-> ContentOf(At(json, "level")),
     kinds |-> IF Has(At(json, "kinds"), "bits") THEN AsNumber(At(At(json, "kinds"), "bits")) ELSE 0,
     targets |-> {ContentOf(name) : name \in Range(ContentOf(At(json, "targets")))}]

(* The configuration a document gives when the outcome is "ok".            *)
Deserialized(json) ==
    LET targets == ContentOf(At(json, "targets"))
        entries == ContentOf(At(json, "dispatch"))
    IN  [targets |-> [i \in DOMAIN targets |-> NewTarget(targets[i])],
         dispatch |-> [i \in DOMAIN entries |-> NewEntry(entries[i])],
         use_fallback |-> ContentOf(At(json, "use_fallback")),
         asynchronous_mode |-> ContentOf(At(json, "asynchronous_mode"))]

=============================================================================
