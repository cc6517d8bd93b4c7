------------------------------ MODULE Formatter ------------------------------
(***************************************************************************)
(* The texts of a target: what a record is written as, what a log file is  *)
(* called, and the regular expression for the log files to purge.          *)
(*                                                                         *)
(* A text is a sequence of characters and tokens; a token such as "%%date" *)
(* is one symbol, as none is the beginning of another.  A format becomes a *)
(* text in loops over unordered_map, whose order nobody knows: each step   *)
(* takes any key that is left and replaces its first occurrence.  Formats, *)
(* records and configurations are constants; so are the characters, for    *)
(* what "." matches.                                                       *)
(***************************************************************************)
EXTENDS Naturals, Sequences, FiniteSets, SequencesExt

CONSTANTS Formats,        \* _format_string of targets
          Records,        \* the text of each record token; the level
          Configs,        \* the texts a file target is configured with
          Process,        \* the texts of pid and procname
          Times,          \* calendar day and milliseconds of the day
          Characters,
          MaxLen          \* bound: the longest name, the most repetitions

RecordTokens == {"%%level", "%%kinds", "%%module", "%%source", "%%line", "%%entity", "%%log"}
TimeTokens == {"%%datatime", "%%date", "%%year", "%%yr", "%%month", "%%monstr", "%%day",
               "%%time", "%%hour", "%%min", "%%sec", "%%ms"}
FixedTokens == {"%%path", "%%prefix", "%%filename", "%%title", "%%suffix"}
ProcessTokens == {"%%pid", "%%procname"}

Minute == 60 * 1000     \* milliseconds
Hour == 60 * Minute
Day == 24 * Hour
Years == 1000 .. 9999   \* to_string gives each four digits

Digit == <<"0", "1", "2", "3", "4", "5", "6", "7", "8", "9">>

(* The three letters are one symbol.                                       *)
Months == <<"Jan", "Feb", "Mar", "Apr", "May", "Jun", "Jul", "Aug", "Sep", "Oct", "Nov", "Dec">>

(* Standard output has a colour for each level that it knows.              *)
Colour == [DEBUG |-> "cyan", INFO |-> "green", WARNING |-> "yellow", ERROR |-> "red",
           CRITICAL |-> "magenta", FATAL |-> "blue"]

Tokens == RecordTokens \cup TimeTokens \cup FixedTokens \cup ProcessTokens
Glyphs == Range(Digit) \cup Range(Months) \cup {"-", " ", ":", "."}
Symbols == Characters \cup Tokens \cup DOMAIN Colour \cup Range(Colour) \cup {"reset"}

ASSUME CharactersAssumption == MaxLen \in Nat /\ Glyphs \subseteq Characters /\ Characters \cap Tokens = {}
ASSUME RecordsAssumption == Formats \subseteq Seq(Symbols) /\ Records \subseteq [RecordTokens -> Seq(Symbols)]
ASSUME ConfigsAssumption == Configs \subseteq [FixedTokens \cup {"format"} -> Seq(Symbols)]
ASSUME ProcessAssumption ==
    /\ Process \in [ProcessTokens -> Seq(Symbols)]
    /\ \A k \in ProcessTokens : Len(Process[k]) <= MaxLen
    /\ Process["%%pid"] # <<>> /\ Range(Process["%%pid"]) \subseteq Range(Digit)
ASSUME TimesAssumption == Times \subseteq [year : Years, month : 1 .. 12, day : 1 .. 31, ms : 0 .. Day - 1]

-----------------------------------------------------------------------------
(* Replacement, and the texts of a time.                                   *)

FirstIn(format, i) == \A j \in 1 .. (i - 1) : format[j] # format[i]

(* replace_all continues behind what it has put in.                        *)
ReplacedAll(text, key, value) ==
    FlattenSeq([i \in DOMAIN text |-> IF text[i] = key THEN value ELSE <<text[i]>>])

(* Mutant: every occurrence is replaced.                                   *)
Replaced_every(text, key, value) == ReplacedAll(text, key, value)

(* The first occurrence is replaced, if there is one.                      *)
Replaced(text, key, value) ==
    IF \E i \in DOMAIN text : text[i] = key
    THEN LET i == CHOOSE i \in DOMAIN text : text[i] = key /\ FirstIn(text, i)
         IN SubSeq(text, 1, i - 1) \o value \o SubSeq(text, i + 1, Len(text))
    ELSE text

Place == <<1, 10, 100, 1000>>

LastDigit(n) == Digit[(n % 10) + 1]

(* Mutant: no zeros in front of a number of one digit.                     *)
Padded_plain(n, width) ==
    IF n < 10 THEN <<LastDigit(n)>> ELSE [i \in 1 .. width |-> LastDigit(n \div Place[width + 1 - i])]

(* A number that has no more digits than the width.                        *)
Padded(n, width) == [i \in 1 .. width |-> LastDigit(n \div Place[width + 1 - i])]

TimeTexts(t) ==
    LET year == Padded(t.year, 4)
        month == Padded(t.month, 2)
        day == Padded(t.day, 2)
        hour == Padded(t.ms \div Hour, 2)
        min == Padded((t.ms \div Minute) % 60, 2)
        sec == Padded((t.ms \div 1000) % 60, 2)
        ms == Padded(t.ms % 1000, 3)
        date == year \o <<"-">> \o month \o <<"-">> \o day
        clock == hour \o <<":">> \o min \o <<":">> \o sec
    IN  [k \in TimeTokens |->
            CASE k = "%%datatime" -> date \o <<" ">> \o clock
              [] k = "%%date" -> date     [] k = "%%year" -> year    [] k = "%%yr" -> SubSeq(year, 3, 4)
              [] k = "%%month" -> month   [] k = "%%monstr" -> <<Months[t.month]>>
              [] k = "%%day" -> day       [] k = "%%time" -> clock \o <<".">> \o ms \o <<"0", "0", "0", "0">>
              [] k = "%%hour" -> hour     [] k = "%%min" -> min      [] k = "%%sec" -> sec
              [] k = "%%ms" -> ms]

Modify_format_on_the_fly(format, record) ==
    LET level == Head(record["%%level"])
    IN IF level \in DOMAIN Colour
       THEN ReplacedAll(format, "%%level", <<Colour[level], "%%level", "reset">>)
       ELSE format

-----------------------------------------------------------------------------
(* Regular expressions: sequences of items, each of which takes as many    *)
(* symbols out of a set as it has widths.  An item without widths is a     *)
(* sign that has a meaning of its own.                                     *)

Item(set, widths) == [of |-> set, widths |-> widths]
Literal(symbol) == Item({symbol}, {1})
Sign(symbol) == Item({symbol}, {})
Digits(n) == Item(Range(Digit), {n})

(* Mutant: the dot stays.                                                  *)
Escapes_no_dot == {"^", "$", "*", "?", "(", ")", "{", "}", "[", "]", "\\", "|", "-"}

Escapes == {".", "^", "$", "*", "?", "(", ")", "{", "}", "[", "]", "\\", "|", "-"}

Escaped(text) ==
    [i \in DOMAIN text |-> IF text[i] \in {".", "+"} \ Escapes THEN Sign(text[i]) ELSE Literal(text[i])]

(* Mutant: two digits of milliseconds.                                     *)
FieldWidth_two(token) == IF token = "%%year" THEN 4 ELSE 2

FieldWidth(token) == IF token = "%%year" THEN 4 ELSE IF token = "%%ms" THEN 3 ELSE 2

Volatile ==
    LET field(k) == <<Digits(FieldWidth(k))>>
        date == field("%%year") \o <<Literal("-")>> \o field("%%month") \o <<Literal("-")>> \o field("%%day")
        minutes == field("%%hour") \o <<Literal(":")>> \o field("%%min")
        clock == minutes \o <<Literal(":")>> \o field("%%sec")
    IN  [k \in TimeTokens \cup ProcessTokens |->
            CASE k = "%%pid" -> <<Item(Range(Digit), 1 .. MaxLen)>>
              [] k = "%%procname" -> <<Item(Characters, 0 .. MaxLen)>>
              [] k = "%%datatime" -> date \o <<Literal(" ")>> \o clock
              [] k = "%%date" -> date
              [] k = "%%monstr" -> <<Item(Range(Months), {1})>>
              [] k = "%%time" -> minutes \o <<Item(Characters, {1})>> \o field("%%ms") \o <<Digits(4)>>
              [] OTHER -> field(k)]

(* "+" repeats what is in front of it; in front of everything it is an     *)
(* error.                                                                  *)
Repeated(item) ==
    [item EXCEPT !.widths = {n \in 0 .. MaxLen : \E w \in item.widths, k \in 1 .. MaxLen : n = k * w}]

Throws(items) == items # <<>> /\ Head(items) = Sign("+")

Compiled(items) ==
    LET plain == [i \in DOMAIN items |-> IF items[i] = Sign(".") THEN Item(Characters, {1}) ELSE items[i]]
    IN FlattenSeq([i \in DOMAIN items |->
           IF items[i] = Sign("+") THEN <<>>
           ELSE IF i < Len(items) /\ items[i + 1] = Sign("+") THEN <<Repeated(plain[i])>> ELSE <<plain[i]>>])

(* Where an item may end that begins at one of these places.               *)
Further(item, word, from) ==
    UNION {{b + w : w \in {v \in item.widths :
                              b + v <= Len(word) /\ \A k \in (b + 1) .. (b + v) : word[k] \in item.of}} :
           b \in from}

(* regex_match, of the whole name: ends[n] is where the first n items may  *)
(* end.                                                                    *)
Matches(items, word) ==
    LET ends[n \in 0 .. Len(items)] == IF n = 0 THEN {0} ELSE Further(items[n], word, ends[n - 1])
    IN Len(word) \in ends[Len(items)]

-----------------------------------------------------------------------------
VARIABLES
    job,        \* which loop runs
    text,       \* the string that it changes
    pending,    \* the keys it has not come to
    input,      \* the format and the record that are formatted
    config,     \* the configuration of the file target
    now,        \* the time of the record, or of the rotation
    name,       \* formatted_filename
    names,      \* history: the names of the target's files
    pattern     \* _current_log_regex

vars == <<job, text, pending, input, config, now, name, names, pattern>>

Jobs == {"record", "record time", "file", "file time", "fixed", "volatile"}

(* What each loop replaces its keys with.                                  *)
Values ==
    CASE job = "record" -> input.record
      [] job \in {"record time", "file time"} -> TimeTexts(now)
      [] job \in {"file", "fixed"} ->
             [k \in FixedTokens \cup ProcessTokens |-> IF k \in FixedTokens THEN config[k] ELSE Process[k]]
      [] job = "volatile" -> Volatile

KeysOf(j) ==
    CASE j = "record" -> RecordTokens
      [] j \in {"record time", "file time"} -> TimeTokens
      [] j = "file" -> FixedTokens \cup ProcessTokens
      [] j = "fixed" -> FixedTokens
      [] j = "volatile" -> TimeTokens \cup ProcessTokens
      [] OTHER -> {}

(* A key that is in none of the texts changes nothing.                     *)
Keys(j) ==
    KeysOf(j) \cap UNION {Range(t) : t \in IF j \in {"record", "record time"}
                                          THEN {input.format} \cup Range(input.record)
                                          ELSE Range(config) \cup Range(Process)}

Before(t, u) ==
    LET days(v) == (v.year * 12 + v.month) * 31 + v.day
    IN days(t) < days(u) \/ (days(t) = days(u) /\ t.ms < u.ms)

Init ==
    /\ job = "idle" /\ text = <<>> /\ pending = {}
    /\ input \in [format : {<<>>}, record : Records]
    /\ config \in Configs
    /\ now \in Times
    /\ name = <<>> /\ names = <<>> /\ pattern = <<>>

Loop(j) == job' = j /\ pending' = Keys(j)'

(* An iteration: the expression is made of items once it is escaped.       *)
Replace ==
    /\ \E key \in pending :
           /\ text' = Replaced(text, IF job = "volatile" THEN Literal(key) ELSE key, Values[key])
           /\ pending' = pending \ {key}
    /\ UNCHANGED <<job, input, config, now, name, names, pattern>>

(* Target::Format_log_message, on standard output or another target.       *)
Format_log_message ==
    /\ job = "idle"
    /\ \E f \in Formats, r \in Records :
           \E format \in {f, Modify_format_on_the_fly(f, r)} :
               input' = [format |-> format, record |-> r] /\ text' = format
    /\ UNCHANGED <<config, now, name, names, pattern>>
    /\ Loop("record")

(* Target::Format_time is called with what the other keys have left.       *)
Format_time ==
    /\ pending = {}
    /\ UNCHANGED <<text, input, config, now, name, names, pattern>>
    /\ \/ job = "record" /\ Loop("record time")
       \/ job = "file" /\ Loop("file time")

Formatted ==
    /\ job = "record time" /\ pending = {}
    /\ UNCHANGED <<text, input, config, now, name, names, pattern>>
    /\ Loop("idle")

(* FileTarget::Update_filename, in Setup and in each rotation.             *)
Update_filename ==
    /\ job = "idle"
    /\ now' \in Times /\ (names = <<>> \/ Before(now, now'))
    /\ text' = config["format"]
    /\ UNCHANGED <<input, config, name, names, pattern>>
    /\ Loop("file")

Get_regex_pattern ==
    /\ job = "file time" /\ pending = {}
    /\ name' = text
    /\ text' = config["format"]
    /\ UNCHANGED <<input, config, now, names, pattern>>
    /\ Loop("fixed")

Escape ==
    /\ job = "fixed" /\ pending = {}
    /\ text' = Escaped(text)
    /\ UNCHANGED <<input, config, now, name, names, pattern>>
    /\ Loop("volatile")

(* The expression, then the name; or the expression is none.               *)
Assign ==
    /\ job = "volatile" /\ pending = {} /\ ~Throws(text)
    /\ pattern' = Compiled(text)
    /\ names' = Append(names, name)
    /\ text' = <<>> /\ name' = <<>>
    /\ UNCHANGED <<input, config, now>>
    /\ Loop("idle")

Throw ==
    /\ job = "volatile" /\ pending = {} /\ Throws(text)
    /\ text' = <<>> /\ name' = <<>>
    /\ UNCHANGED <<input, config, now, names, pattern>>
    /\ Loop("idle")

Next ==
    \/ Format_log_message \/ Formatted
    \/ Update_filename \/ Get_regex_pattern \/ Escape \/ Assign \/ Throw
    \/ Replace \/ Format_time

Spec == Init /\ [][Next]_vars

-----------------------------------------------------------------------------
(* Properties.                                                             *)

(* The tokens that a record brings along stand in the format before it.    *)
Undisturbed ==
    \A i \in DOMAIN input.format :
        input.format[i] \in RecordTokens =>
            (Range(input.record[input.format[i]]) \cap (RecordTokens \cup TimeTokens)) \ {input.format[i]}
                \subseteq {input.format[j] : j \in 1 .. (i - 1)}

(* A format with the first of each token replaced at once.                *)
Rendered(format, tokens, value) ==
    FlattenSeq([i \in DOMAIN format |->
        IF format[i] \in tokens /\ FirstIn(format, i) THEN value[format[i]] ELSE <<format[i]>>])

(* Whatever the order of the keys, a record is written as its format with  *)
(* the first of each token replaced at once: what the user logs stays,     *)
(* tokens and all, if the format has them before the place of the message. *)
MessageAsFormatted ==
    job = "record time" /\ pending = {} /\ Undisturbed =>
        text = Rendered(input.format, RecordTokens \cup TimeTokens,
                        [k \in RecordTokens \cup TimeTokens |->
                            IF k \in RecordTokens THEN input.record[k] ELSE TimeTexts(now)[k]])

(* The configured texts have none of the tokens that are replaced along    *)
(* with them, in an order nobody knows; nor has the name of the process.   *)
Settled ==
    /\ \A k \in FixedTokens : Range(config[k]) \cap (FixedTokens \cup ProcessTokens) = {}
    /\ Range(Process["%%procname"]) \subseteq Characters

(* Nothing of "%%time", whose expression has no seconds, or "+", which is  *)
(* not escaped.                                                            *)
Plain == Settled /\ \A k \in DOMAIN config : Range(config[k]) \cap {"%%time", "+"} = {}

(* The purge knows the files of the target, those of earlier rotations as  *)
(* well as the current one.                                                *)
OwnFilesMatch == job = "idle" /\ Plain => \A i \in DOMAIN names : Matches(pattern, names[i])

(* A name but for its digits and month.                                    *)
Shape(n) ==
    [i \in DOMAIN n |-> IF n[i] \in Range(Digit) THEN "0" ELSE IF n[i] \in Range(Months) THEN "Jan" ELSE n[i]]

(* One character changed, added or taken away.                             *)
Neighbours(n) ==
    UNION {{SubSeq(n, 1, i - 1) \o middle \o SubSeq(n, i + 1, Len(n)) :
               middle \in {<<>>} \cup {<<c>> : c \in Characters} \cup {<<n[i], c>> : c \in Characters}} :
           i \in DOMAIN n}

(* The purge does not take a file of somebody else for one of its own: not *)
(* one whose name is different anywhere but in a digit of a field.         *)
OnlyOwnFilesMatch ==
    job = "idle" /\ names # <<>> /\ Plain /\ Range(config["format"]) \cap ProcessTokens = {} =>
        \A n \in Neighbours(Last(names)) : Matches(pattern, n) => Shape(n) = Shape(Last(names))

(* The first difference of two names.                                      *)
SortsBefore(n, m) ==
    \E i \in DOMAIN n \cap DOMAIN m :
        /\ \A j \in 1 .. (i - 1) : n[j] = m[j]
        /\ \E d, e \in DOMAIN Digit : d < e /\ n[i] = Digit[d] /\ m[i] = Digit[e]

(* The format has the date and the time of the day, down to the            *)
(* milliseconds, each once and in this order, and no other time.           *)
Fields == <<"%%date", "%%hour", "%%min", "%%sec", "%%ms">>
Chronological(format) ==
    /\ Range(format) \cap TimeTokens = Range(Fields)
    /\ \A i, j \in DOMAIN format, d, e \in DOMAIN Fields :
           i < j /\ format[i] = Fields[d] /\ format[j] = Fields[e] => d < e

(* A rotation, and be it a millisecond later, is to another file, which    *)
(* comes later in the directory, if the format has date and time in order. *)
NamesAdvance ==
    Settled /\ Chronological(config["format"]) /\ (\A k \in FixedTokens : Range(config[k]) \cap TimeTokens = {}) =>
        \A i \in 1 .. (Len(names) - 1) : SortsBefore(names[i], names[i + 1])

=============================================================================
