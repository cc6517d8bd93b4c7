--------------------------- MODULE MCConfigStore ---------------------------
(* The global logger and another; documents as a user may leave them: one *)
(* without the keys that may be left out, one with an empty path and       *)
(* suffix, one that throws and one whose target type is not known.         *)
EXTENDS ConfigStore, TLC

Default_json == ConfigJson(DefaultConfig)

Without(json, key) == Object([k \in DOMAIN ContentOf(json) \ {key} |-> At(json, k)])
With(json, key, value) == Object((key :> value) @@ ContentOf(json))

FileJson == TargetJson(FileTargetConfig("MssTraceFile", "", "", 24, "", 30))
OneTarget(json) == With(Default_json, "targets", Array(<<json>>))
OneEntry(json) == With(Default_json, "dispatch", Array(<<json>>))
Entry == EntryJson([level |-> 1, kinds |-> 1, targets |-> {"MssTraceFile", "elsewhere"}])

MCDocuments == {
    With(OneTarget(Without(FileJson, "log_storage_duration")),
         "dispatch", Array(<<With(Entry, "kinds", Object(<<>>))>>)),
    OneTarget(With(With(FileJson, "filepath", String("")), "suffix", String(""))),
    OneEntry(With(Entry, "kinds", Object([bits |-> String("3")]))),
    OneTarget(With(FileJson, "target_type", Number(9)))}

(* The other ways of being wrong need no state of their own: they end as   *)
(* one of the documents above does.                                        *)
ASSUME WrongAssumption ==
    /\ \A json \in {Without(Default_json, "targets"), With(Default_json, "use_fallback", Number(1)),
                     OneTarget(Without(FileJson, "filepath")), OneTarget(Number(1)),
                     OneTarget(With(FileJson, "target_type", String("2"))),
                     OneEntry(With(Entry, "targets", Array(<<Number(1)>>))),
                     OneEntry(Without(Entry, "level"))} : Outcome(json) = "throws"
    /\ Outcome(OneTarget(Without(FileJson, "target_type"))) = "undefined"

MCAppConfigs == {
    [DefaultConfig EXCEPT !.targets = <<TargetConfig("latin1", "", SYSTEM_ERR_TARGET)>>],
    [DefaultConfig EXCEPT !.targets = <<FileTargetConfig("MssTraceFile", "", "dir", 12, "", 7)>>,
                          !.dispatch = <<[level |-> 2, kinds |-> 1, targets |-> {"MssStdOut"}]>> \o @]}

=============================================================================
