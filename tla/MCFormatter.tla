---------------------------- MODULE MCFormatter ----------------------------
(* Formats with repeated tokens and messages that have tokens in them;     *)
(* file targets with the default format, with names that mean something in *)
(* a regular expression, and with a path that has no separator.            *)
EXTENDS Formatter

Text(log) ==
    [k \in RecordTokens |-> CASE k = "%%log" -> log
                               [] k = "%%level" -> <<"INFO">>
                               [] k = "%%source" -> <<"d">>
                               [] OTHER -> <<"p">>]

MCFormats == {
    <<"%%monstr", "%%hour", ":", "%%sec", "%%source", ":", "%%line", "%%level", "%%kinds", "%%module", "%%log">>,
    <<"%%log", "%%level", "%%level", "%%ms">>,
    <<"%%level", "%%time", "%%log", "%%source", "%%log">>}

MCRecords == {Text(<<"a">>), Text(<<"a", "%%level", "%%log">>), Text(<<"%%sec">>),
              [Text(<<"%%level", "a">>) EXCEPT !["%%level"] = <<"l">>]}

Config(format, path, filename) ==
    ("format" :> format) @@ ("%%path" :> path) @@ ("%%prefix" :> <<>>) @@ ("%%filename" :> filename)
    @@ ("%%title" :> <<>>) @@ ("%%suffix" :> <<".", "l">>)

Timed == <<"%%path", "%%filename", "_", "%%date", "_", "%%hour", "-", "%%min", "-", "%%sec", "-", "%%ms">>

MCConfigs == {
    Config(Timed \o <<"_", "%%procname", "_", "%%pid", "%%suffix">>, <<".", "/">>, <<"a">>),
    Config(Timed \o <<"%%suffix">>, <<".", "/">>, <<"a">>),
    Config(<<"%%path", "%%filename", "%%date", "%%date", "%%suffix">>, <<"d", "/">>, <<"a", "%%sec">>),
    Config(<<"%%path", "%%filename", "%%year", "%%yr", "%%monstr", "%%month", "%%day", "%%datatime">>, <<"/">>, <<"a">>),
    Config(<<"%%path", "%%filename", "%%time", "%%suffix">>, <<"d", "/">>, <<"a">>),
    Config(<<"%%path", "%%filename", "%%hour", "%%suffix">>, <<"d", "/">>, <<"a", "+">>),
    Config(<<"%%filename", "%%hour", "%%suffix">>, <<"d">>, <<"+", "a">>),
    Config(<<"%%path", "%%filename", "%%hour", "%%suffix">>, <<"d">>, <<"a">>)}

MCProcess == ("%%pid" :> <<"1", "2">>) @@ ("%%procname" :> <<"p", "_", ".">>)

Time(month, day, hour, min, sec, ms) ==
    [year |-> 2024, month |-> month, day |-> day, ms |-> ((hour * 60 + min) * 60 + sec) * 1000 + ms]

MCTimes == {Time(9, 30, 23, 59, 59, 999), Time(10, 1, 0, 0, 9, 9), Time(10, 1, 0, 0, 9, 10)}

MCCharacters == Range(Digit) \cup Range(Months) \cup {".", "/", "-", "_", ":", " ", "+", "a", "d", "l", "p"}

=============================================================================
