------------------------------ MODULE PluginLog ------------------------------
(***************************************************************************)
(* The log adapters: the hclog.Logger that go-plugin logs through          *)
(* (internal/utils/hclog.go), the levels of the operator's zap loggers     *)
(* (internal/config/logger.go), and what pluginOutputMonitor makes of a    *)
(* line that a plugin prints.  Operator states what is expected of them    *)
(* for the loggers it has, over the bounded arguments given here.          *)
(***************************************************************************)
EXTENDS Integers, Sequences, FiniteSets

(* zapcore's levels, and config.TraceLevel below them.                     *)
DebugLevel == -1
InfoLevel == 0
WarnLevel == 1
ErrorLevel == 2
FatalLevel == 5
TraceLevel == DebugLevel - 1

(* hclog's levels, in its order.                                           *)
HclogLevels == <<"Trace", "Debug", "Info", "Warn", "Error", "Off">>
NoLevel == "NoLevel"

(* Outcomes of logging other than a level: no entry, a panic, an error.    *)
Nothing == -3
Panic == -4
Err == -5

(* A zap logger writes an entry from its own level on.                     *)
Check(threshold, level) == IF level >= threshold THEN level ELSE Nothing

(* wrapper.Log and the methods it calls; an unknown level is Info.         *)
Log(threshold, lvl) ==
    CASE lvl = "Trace" -> Check(threshold, TraceLevel)
      [] lvl = "Debug" -> Check(threshold, DebugLevel)
      [] lvl = "Warn"  -> Check(threshold, WarnLevel)
      [] lvl = "Error" -> Check(threshold, ErrorLevel)
      [] lvl = "Off"   -> Nothing
      [] OTHER         -> Check(threshold, InfoLevel)

(* IsTrace ... IsError, on which callers decide whether to log at all.     *)
Is(threshold, lvl) ==
    CASE lvl = "Trace" -> threshold <= TraceLevel
      [] lvl = "Debug" -> threshold <= DebugLevel
      [] lvl = "Info"  -> threshold <= InfoLevel
      [] lvl = "Warn"  -> threshold <= WarnLevel
      [] lvl = "Error" -> threshold <= ErrorLevel

(* zap's name of its level goes through hclog.LevelFromString, which does  *)
(* not know zap's name of TraceLevel, nor the levels above error.  To the  *)
(* part of go-plugin that copies a plugin's stderr the level is Off, since *)
(* pluginOutputMonitor writes those lines.                                 *)
GetLevelTraceUnnamed(threshold, logStderr) ==
    CASE logStderr -> "Off"
      [] ~logStderr /\ threshold \in DebugLevel..ErrorLevel -> HclogLevels[threshold + 3]
      [] OTHER -> NoLevel
GetLevel(threshold, logStderr) ==
    CASE logStderr -> "Off"
      [] ~logStderr /\ threshold \in TraceLevel..ErrorLevel -> HclogLevels[threshold + 3]
      [] OTHER -> NoLevel

-----------------------------------------------------------------------------
(* Arguments become fields, in pairs from the end.  A field is a key and   *)
(* the position of its value; a key is the position of the string that     *)
(* names it, or 0 for an "arg<i>" name.                                    *)
ArgKinds == {"string", "other"}

ArgLists == UNION {[1..n -> ArgKinds] : n \in 0..5}

Pair(args, i) == IF args[i - 1] = "string" THEN <<<<i - 1, i>>>>
                                           ELSE <<<<0, i>>, <<0, i - 1>>>>

convertToZapAny(args) ==
    LET fields[i \in 0..Len(args)] ==
            CASE i = 0 -> <<>>
              [] i = 1 -> <<<<0, 1>>>>
              [] OTHER -> Pair(args, i) \o fields[i - 2]
    IN  fields[Len(args)]

-----------------------------------------------------------------------------
(* A line a plugin prints: blank, longer than the scanner's buffer, not    *)
(* JSON (with the prefix the fallback looks for), or a JSON object with    *)
(* hclog's three keys, each absent, well formed, or not.                   *)
LinePrefixes == {"[TRACE]", "[DEBUG]", "[INFO]", "[WARN]", "[ERROR]", "panic: ",
                 "fatal error: ", "none"}
LevelNames == {"trace", "debug", "info", "warn", "error", "off", "unknown"}
NotString == "not a string"

Text(p) == [form |-> "text", prefix |-> p, message |-> "none", level |-> "none", timestamp |-> "none"]
Blank == [Text("none") EXCEPT !.form = "blank"]
TooLong == [Text("none") EXCEPT !.form = "long"]
JsonLines == [form : {"json"}, prefix : {"none"}, message : {"none", "string", NotString},
              level : LevelNames \cup {"none", NotString},
              timestamp : {"none", "good", "bad", NotString}]
PluginLines == {Text(p) : p \in LinePrefixes} \cup {Blank, TooLong} \cup JsonLines

(* getLevel: "off" is a trace entry, whatever else is unknown an info one. *)
getLevel(s) ==
    CASE s \in {"trace", "off"} -> TraceLevel
      [] s = "debug" -> DebugLevel
      [] s = "warn" -> WarnLevel
      [] s = "error" -> ErrorLevel
      [] OTHER -> InfoLevel

(* logJsonLog: the type assertions panic, a filtered entry is done before  *)
(* its timestamp is looked at, a bad timestamp is an error.                *)
logJsonLogTimeFirst(threshold, line) ==
    LET level == IF line.level = "none" THEN InfoLevel ELSE getLevel(line.level) IN
    IF line.form # "json" THEN Err
    ELSE IF NotString \in {line.message, line.level, line.timestamp} THEN Panic
    ELSE IF line.timestamp # "good" THEN Err
    ELSE Check(threshold, level)
logJsonLog(threshold, line) ==
    LET level == IF line.level = "none" THEN InfoLevel ELSE getLevel(line.level) IN
    IF line.form # "json" THEN Err
    ELSE IF line.message = NotString \/ line.level = NotString THEN Panic
    ELSE IF Check(threshold, level) = Nothing THEN Nothing
    ELSE IF line.timestamp = NotString THEN Panic
    ELSE IF line.timestamp = "bad" THEN Err
    ELSE level

(* What pluginOutputMonitor falls back to on an error of logJsonLog.       *)
PrefixLevel(p) ==
    CASE p = "[TRACE]" -> TraceLevel
      [] p = "[DEBUG]" -> DebugLevel
      [] p = "[WARN]" -> WarnLevel
      [] p \in {"[ERROR]", "panic: ", "fatal error: "} -> ErrorLevel
      [] OTHER -> InfoLevel

(* The level a line is written at, Nothing, or Panic.                      *)
LogLine(threshold, line) ==
    LET r == logJsonLog(threshold, line) IN
    IF r = Err THEN Check(threshold, PrefixLevel(line.prefix)) ELSE r

-----------------------------------------------------------------------------
(* What the adapters of a logger with a given level should do.             *)

(* GetLevel names the lowest level that Log writes, IsX is true of exactly *)
(* the levels that Log writes, and each is written above the one below.    *)
LevelsAgree(threshold) ==
    \A i \in 1..5 :
        LET written == Log(threshold, HclogLevels[i]) # Nothing
        IN  /\ Is(threshold, HclogLevels[i]) <=> written
            /\ written <=> \E j \in 1..i : HclogLevels[j] = GetLevel(threshold, FALSE)
            /\ \A j \in 1..(i - 1) : written =>
                   Log(threshold, HclogLevels[j]) < Log(threshold, HclogLevels[i])

(* No argument is lost or repeated: every position is the value of one     *)
(* field, or the key of the field whose value follows it.                  *)
ArgsKept(args) ==
    LET fields == convertToZapAny(args)
        values == {fields[k][2] : k \in 1..Len(fields)}
        keys == {fields[k][1] : k \in 1..Len(fields)} \ {0}
    IN  /\ values \cup keys = 1..Len(args) /\ values \cap keys = {}
        /\ Cardinality(values) = Len(fields)
        /\ \A k \in keys : args[k] = "string" /\ k + 1 \in values

(* A line that is no panic is written at the level the plugin gave it, or  *)
(* dropped because that level is filtered; except for a JSON entry with a  *)
(* malformed timestamp, which is written as text and loses its level.      *)
LineKept(threshold, line) ==
    LET level == IF line.form = "text" THEN PrefixLevel(line.prefix) ELSE getLevel(line.level)
        r == LogLine(threshold, line)
    IN  r # Panic /\ line.timestamp # "bad" => r = Check(threshold, level)
=============================================================================
