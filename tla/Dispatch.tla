------------------------------ MODULE Dispatch ------------------------------
(***************************************************************************)
(* The logger's registry: the targets, the dispatch keys made from a       *)
(* configuration, the routing of a record and the fallback target.         *)
(*                                                                         *)
(* Configure, Add_target, Start, Reconfigure and Write_log are one step    *)
(* each: all but Write_log on the logging thread run under _logger_mutex.  *)
(* A set of kinds (LogKindSet) is a subset of Kinds; a target is a number, *)
(* the order in which targets were made.                                   *)
(***************************************************************************)
EXTENDS Rules

CONSTANTS Levels,            \* the levels, debug first: 0 .. n
          Kinds,             \* the log kinds
          Configs,           \* the configurations the application may give
          AddedTargets,      \* the targets it may add itself, of types of its own as well
          MaxOps             \* bound: operations that change the registry

ASSUME LevelsAssumption == Levels \subseteq Nat
ASSUME MaxOpsAssumption == MaxOps \in Nat

(* LoggerConfig: the targets' configurations, of which only the name and   *)
(* the type matter here, and the routing rules.                            *)
(* The type of an application's own class of targets, LOG_TARGET_COUNT in  *)
(* the README and the tests, is unknown to New_log_target.                 *)
Types == {"std", "file", "unknown"}
ASSUME AddedAssumption == \A target \in AddedTargets : target.type \in Types
ASSUME ConfigsAssumption ==
    \A config \in Configs :
        /\ config.use_fallback \in BOOLEAN
        /\ IsASequence(config.targets) /\ IsASequence(config.dispatch)
        /\ \A i \in DOMAIN config.targets : config.targets[i].type \in Types
        /\ \A i \in DOMAIN config.dispatch :
               config.dispatch[i].level \in Levels /\ config.dispatch[i].kinds \subseteq Kinds

VARIABLES
    use_fallback,      \* _use_fallback
    fallback,          \* whether _fallback_target is there
    targets,           \* _targets: a sequence of slots
    keys,              \* _dispatch_keys
    made,              \* targets made so far
    ops,               \* operations so far
    added,             \* history: the targets that came with Add_target
    promised,          \* history: the rules configured, one for each target there was
    initialized,       \* history: the targets whose Initialize succeeded
    configured,        \* history: use_fallback of the last configuration, and whether Start came after it
    last               \* history: what became of the last record written

registry == <<use_fallback, fallback, targets, keys, made>>
vars == <<registry, ops, added, promised, initialized, configured, last>>

NoRecord == [routed |-> {}, failing |-> {}, fell |-> {}]

Init ==
    /\ use_fallback = TRUE
    /\ fallback = FALSE
    /\ targets = <<>>
    /\ keys = <<>>
    /\ made = 0
    /\ ops = 0
    /\ added = {}
    /\ promised = {}
    /\ initialized = {}
    /\ configured = [use_fallback |-> TRUE, started |-> FALSE]
    /\ last = NoRecord

-----------------------------------------------------------------------------
(* Configuration.                                                          *)

(* Mutant: the nullptr of New_log_target is taken for a target.            *)
WithTargets_unknown(slots, count, configs) ==
    slots \o [i \in DOMAIN configs |->
                 [name |-> configs[i].name, type |-> configs[i].type,
                  target |-> count + i, maintained |-> FALSE]]

(* New_log_target makes nothing of a type it does not know.                *)
WithTarget(slots, number, config) ==
    IF config.type = "unknown" THEN slots
    ELSE Append(slots, [name |-> config.name, type |-> config.type, target |-> number, maintained |-> FALSE])

(* The targets that are made are numbered on from count.                   *)
WithTargets(slots, count, configs) ==
    LET after[i \in 0 .. Len(configs)] ==
            IF i = 0 THEN slots
            ELSE WithTarget(after[i - 1], count + 1 + (Len(after[i - 1]) - Len(slots)), configs[i])
    IN  after[Len(configs)]

(* Configure on a logger with these slots and keys.                        *)
Configured(slots, ks, config) ==
    LET newSlots == WithTargets(slots, made, config.targets)
    IN  [targets |-> newSlots, keys |-> WithEntries(ks, config.dispatch, newSlots),
         made |-> made + (Len(newSlots) - Len(slots))]

(* The rules of a configuration for the targets that are there.            *)
Rules(config, slots) ==
    UNION {{[level |-> config.dispatch[i].level, kinds |-> config.dispatch[i].kinds, name |-> name] :
               name \in config.dispatch[i].targets \cap NamesOf(slots)} : i \in DOMAIN config.dispatch}

(* Mutant: the kinds of a rule are not taken over.                         *)
Get_config_no_kinds ==
    [use_fallback |-> use_fallback,
     targets  |-> [i \in DOMAIN targets |-> [name |-> targets[i].name, type |-> targets[i].type]],
     dispatch |-> [k \in DOMAIN keys |->
                      [level |-> keys[k].level, kinds |-> {},
                       targets |-> {targets[i].name : i \in {j \in DOMAIN targets :
                                        targets[j].target \in keys[k].targets}}]]]

(* Get_config.                                                             *)
Get_config ==
    [use_fallback |-> use_fallback,
     targets  |-> [i \in DOMAIN targets |-> [name |-> targets[i].name, type |-> targets[i].type]],
     dispatch |-> [k \in DOMAIN keys |->
                      [level |-> keys[k].level, kinds |-> keys[k].kinds,
                       targets |-> {targets[i].name : i \in {j \in DOMAIN targets :
                                        targets[j].target \in keys[k].targets}}]]]

-----------------------------------------------------------------------------
(* Operations.                                                             *)

Operation == ops < MaxOps /\ ops' = ops + 1 /\ last' = NoRecord

Configure ==
    \E config \in Configs :
        LET new == Configured(targets, keys, config)
        IN  /\ Operation
            /\ targets' = new.targets /\ keys' = new.keys /\ made' = new.made
            /\ use_fallback' = config.use_fallback
            /\ promised' = promised \cup Rules(config, new.targets)
            /\ configured' = [use_fallback |-> config.use_fallback, started |-> FALSE]
            /\ UNCHANGED <<fallback, added, initialized>>

(* A second target of a name is not taken.                                 *)
Add_target ==
    \E new \in AddedTargets :
        /\ Operation
        /\ IF new.name \in NamesOf(targets)
           THEN UNCHANGED <<targets, made, added>>
           ELSE /\ targets' = Append(targets, [name |-> new.name, type |-> new.type,
                                               target |-> made + 1, maintained |-> FALSE])
                /\ made' = made + 1
                /\ added' = added \cup {made + 1}
        /\ UNCHANGED <<use_fallback, fallback, keys, promised, initialized, configured>>

(* Files may refuse to be set up or written, and so may the application's  *)
(* own targets.                                                            *)
MayFail(slots) == {i \in DOMAIN slots : slots[i].type # "std"}

Maintained(slots, throwing) ==
    [i \in DOMAIN slots |-> IF i \in throwing THEN slots[i] ELSE [slots[i] EXCEPT !.maintained = TRUE]]

(* Mutant: the fallback target is made for a target that throws only.      *)
FallbackAfter_lazy(there, enabled, throwing) == there \/ throwing # {}

(* Initialize makes the fallback target when it is enabled, and when a     *)
(* target throws and there is none.                                        *)
FallbackAfter(there, enabled, throwing) == there \/ enabled \/ throwing # {}

(* Start: Initialize, where setting up a target may throw.                 *)
Start ==
    \E throwing \in SUBSET MayFail(targets) :
        /\ Operation
        /\ fallback' = FallbackAfter(fallback, use_fallback, throwing)
        /\ use_fallback' = (use_fallback \/ throwing # {})
        /\ targets' = Maintained(targets, throwing)
        /\ initialized' = initialized \cup {targets[i].target : i \in DOMAIN targets \ throwing}
        /\ configured' = [configured EXCEPT !.started = TRUE]
        /\ UNCHANGED <<keys, made, added, promised>>

(* Reconfigure: clear, Configure, Start (the threads and the flush are in  *)
(* module Logger).                                                         *)
Reconfigure ==
    \E config \in Configs :
        LET new == Configured(<<>>, <<>>, config)
        IN  \E throwing \in SUBSET MayFail(new.targets) :
                /\ Operation
                /\ targets' = Maintained(new.targets, throwing)
                /\ keys' = new.keys /\ made' = new.made
                /\ fallback' = FallbackAfter(fallback /\ config.use_fallback,
                                             config.use_fallback, throwing)
                /\ use_fallback' = (config.use_fallback \/ throwing # {})
                /\ promised' = Rules(config, new.targets)
                /\ initialized' = initialized \cup
                       {new.targets[i].target : i \in DOMAIN new.targets \ throwing}
                /\ configured' = [use_fallback |-> config.use_fallback, started |-> TRUE]
                /\ UNCHANGED added

-----------------------------------------------------------------------------
(* Write_log.                                                              *)

Records == [level : Levels, kinds : SUBSET Kinds]

All(kinds) == kinds = Kinds

(* Mutant: a record of all kinds is for no rule but those of all kinds.    *)
Matches_no_broadcast(key, record) ==
    /\ All(key.kinds) \/ (key.kinds \cap record.kinds # {} /\ ~All(record.kinds))
    /\ record.level >= key.level

Matches(key, record) ==
    /\ All(key.kinds) \/ All(record.kinds) \/ key.kinds \cap record.kinds # {}
    /\ record.level >= key.level

Route(ks, record) == UNION {ks[i].targets : i \in {j \in DOMAIN ks : Matches(ks[j], record)}}

(* Each target the record is routed to writes it or, if it may, fails; the *)
(* fallback target, if there is one, writes what failed.                   *)
Write_log ==
    \E record \in Records :
        LET routed == Route(keys, record)
            able   == {targets[i].target : i \in MayFail(targets)}
        IN  \E failing \in SUBSET (routed \cap able) :
                /\ last' = [routed |-> routed, failing |-> failing,
                            fell |-> IF fallback THEN failing ELSE {}]
                /\ UNCHANGED <<registry, ops, added, promised, initialized, configured>>

Next == Configure \/ Add_target \/ Start \/ Reconfigure \/ Write_log

Spec == Init /\ [][Next]_vars

-----------------------------------------------------------------------------
(* Properties.                                                             *)

(* Every variable has its type, a target of a type that is unknown came    *)
(* with Add_target, keys name targets that are there, and the maintenance  *)
(* thread rotates none whose Initialize has never succeeded.               *)
TypeOK ==
    /\ use_fallback \in BOOLEAN /\ fallback \in BOOLEAN
    /\ \A i \in DOMAIN targets :
           /\ targets[i].type \in Types /\ targets[i].maintained \in BOOLEAN
           /\ targets[i].type = "unknown" => targets[i].target \in added
           /\ targets[i].maintained => targets[i].target \in initialized
           /\ targets[i].target \in 1 .. made
    /\ \A i \in DOMAIN keys :
           /\ keys[i].level \in Levels /\ keys[i].kinds \subseteq Kinds
           /\ keys[i].targets \subseteq {targets[j].target : j \in DOMAIN targets}
    /\ made \in Nat /\ ops \in Nat

NamesRouted(ks, slots, record) ==
    {slots[i].name : i \in {j \in DOMAIN slots : slots[j].target \in Route(ks, record)}}

(* A record goes to the names the configuration gives for it, however      *)
(* rules overlap, repeat and name targets that are not there.              *)
RoutedAsConfigured ==
    \A record \in Records :
        NamesRouted(keys, targets, record) =
            {rule.name : rule \in {r \in promised :
                /\ r.kinds = Kinds \/ record.kinds = Kinds \/ r.kinds \cap record.kinds # {}
                /\ r.level <= record.level}}

(* No two keys have the same level and kinds, and none is without targets: *)
(* Configure merges entries, also those of an earlier call.                *)
KeysDistinct ==
    /\ \A i, j \in DOMAIN keys :
           keys[i].level = keys[j].level /\ keys[i].kinds = keys[j].kinds => i = j
    /\ \A i \in DOMAIN keys : keys[i].targets # {}

(* The names of the targets that a saved configuration can bring back.     *)
Restorable(slots) == {slots[i].name : i \in {j \in DOMAIN slots : slots[j].type # "unknown"}}

(* What Get_config gives, configured anew, routes to the names that the    *)
(* logger routes to, save those that only a target of the application's    *)
(* own type has: New_log_target makes none for it, and its routes are gone *)
(* until it is added again and configured.  (When such a target shares its *)
(* name with one of a known type, the new routes lead to the latter.)  A   *)
(* file with such a target in it cannot be read at all: module ConfigJson. *)
SavedRoutesAlike ==
    LET loaded == Configured(<<>>, <<>>, Get_config)
    IN  \A record \in Records :
            NamesRouted(loaded.keys, loaded.targets, record) =
                NamesRouted(keys, targets, record) \cap Restorable(targets)

(* A configuration with the fallback, once started, loses nothing: what a  *)
(* target fails to write the fallback target writes.                       *)
FailedFallsBack ==
    configured.use_fallback /\ configured.started => last.failing = last.fell

=============================================================================
