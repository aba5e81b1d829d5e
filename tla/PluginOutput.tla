---------------------------- MODULE PluginOutput ----------------------------
(***************************************************************************)
(* The plugins' output (pluginOutputMonitor): a plugin logs while it       *)
(* serves a request, its lines pass through pipes of bounded size, and a   *)
(* goroutine of the operator scans them and writes them to its own log.    *)
(* The goroutine reads pluginFileId, which the loader writes, without a    *)
(* lock; it panics on some lines, and a line that is longer than its       *)
(* buffer ends it while the pipe stays open.                               *)
(*                                                                         *)
(* Simplification: of a plugin's three streams only the one its logger     *)
(* writes to is modelled.                                                  *)
(***************************************************************************)
EXTENDS DrainManager, PluginLog

CONSTANTS
    Chatty,     \* the plugins that log, the others being silent
    Lines,      \* the lines they log
    NoLine,     \* no line
    PipeSize,   \* the lines the pipes between plugin and scanner hold
    MaxLines    \* bound on the lines logged

ASSUME OutputAssumption ==
    /\ Chatty \subseteq Files /\ Lines \subseteq PluginLines /\ NoLine \notin Lines
    /\ PipeSize \in Nat \ {0} /\ MaxLines \in Nat

VARIABLES
    writing,    \* the line a plugin is blocked on writing
    pipe,       \* the lines written and not yet scanned
    monitor,    \* the scanning goroutine: "none", "scanning", "ended"
    tagged,     \* the monitors that know their plugin's ID
    logged      \* the number of lines logged so far

outputVars == <<writing, pipe, monitor, tagged, logged>>

OutputInit ==
    /\ writing = [f \in Files |-> NoLine]
    /\ pipe = [f \in Files |-> <<>>]
    /\ monitor = [f \in Files |-> "none"]
    /\ tagged = {}
    /\ logged = 0

(* The methods of a plugin log before they answer.                         *)
PluginLogs(f, line) ==
    /\ f \in Chatty /\ rpc.file = f /\ rpc.at = "sent" /\ proc[f] = "up"
    /\ writing[f] = NoLine
    /\ logged < MaxLines
    /\ logged' = logged + 1
    /\ writing' = [writing EXCEPT ![f] = line]
    /\ UNCHANGED <<pipe, monitor, tagged, drainVars>>

WriteLineUnbounded(f) ==
    /\ writing[f] # NoLine
    /\ pipe' = [pipe EXCEPT ![f] = Append(@, writing[f])]
    /\ writing' = [writing EXCEPT ![f] = NoLine]
    /\ UNCHANGED <<monitor, tagged, logged, drainVars>>
WriteLine(f) ==
    /\ writing[f] # NoLine /\ Len(pipe[f]) < PipeSize
    /\ pipe' = [pipe EXCEPT ![f] = Append(@, writing[f])]
    /\ writing' = [writing EXCEPT ![f] = NoLine]
    /\ UNCHANGED <<monitor, tagged, logged, drainVars>>

(* A step of the drain manager: a plugin serves only when its handler is   *)
(* not blocked on output.  A monitor starts before its process does, and   *)
(* everything ends with the operator.                                      *)
OutputFollows ==
    /\ writing' = [f \in Files |-> IF proc'[f] = "up" THEN writing[f] ELSE NoLine]
    /\ pipe' = [f \in Files |-> IF life' = "down" THEN <<>> ELSE pipe[f]]
    /\ monitor' = [f \in Files |->
           CASE life' = "down" -> "none"
             [] life' # "down" /\ step' # "entry" /\ f = Entries[at'].file /\ monitor[f] = "none" -> "scanning"
             [] OTHER -> monitor[f]]
    /\ tagged' = IF life' = "down" THEN {} ELSE tagged
    /\ UNCHANGED logged

ServeUnblocked == (\E a \in {"yes", "no", "error"} : Serve(a)) /\ writing[rpc.file] = NoLine

(* The loader writes pluginFileId while the monitor reads it: the runtime  *)
(* may end the process.                                                    *)
Race(f) == life = "loading" /\ step = "register" /\ f \notin tagged

Scanning(f) == monitor[f] = "scanning" /\ pipe[f] # <<>>

(* One round of the scanner's loop, for a logger of the given level.       *)
ScanStopsAtBlank(f, threshold) ==
    LET line == Head(pipe[f]) IN
    /\ Scanning(f)
    /\ IF line.form \in {"long", "blank"}
       THEN monitor' = [monitor EXCEPT ![f] = "ended"] /\ UNCHANGED <<pipe, tagged>>
       ELSE /\ LogLine(threshold, line) # Panic
            /\ pipe' = [pipe EXCEPT ![f] = Tail(@)]
            /\ tagged' = IF pluginFileId[f] # NoId THEN tagged \cup {f} ELSE tagged
            /\ UNCHANGED monitor
    /\ UNCHANGED <<writing, logged, drainVars>>
Scan(f, threshold) ==
    LET line == Head(pipe[f]) IN
    /\ Scanning(f)
    /\ CASE line.form = "long" ->
                monitor' = [monitor EXCEPT ![f] = "ended"] /\ UNCHANGED <<pipe, tagged>>
         [] line.form = "blank" ->
                pipe' = [pipe EXCEPT ![f] = Tail(@)] /\ UNCHANGED <<monitor, tagged>>
         [] OTHER ->
                /\ LogLine(threshold, line) # Panic
                /\ pipe' = [pipe EXCEPT ![f] = Tail(@)]
                /\ tagged' = IF pluginFileId[f] # NoId THEN tagged \cup {f} ELSE tagged
                /\ UNCHANGED monitor
    /\ UNCHANGED <<writing, logged, drainVars>>

(* The scans that end the operator's process.                              *)
ScanIsFatal(f, threshold) ==
    LET line == Head(pipe[f]) IN
    /\ Scanning(f) /\ line.form \notin {"long", "blank"}
    /\ LogLine(threshold, line) = Panic \/ Race(f)
=============================================================================
