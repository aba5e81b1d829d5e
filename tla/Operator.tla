------------------------------ MODULE Operator ------------------------------
(***************************************************************************)
(* The operator's process (cmd/main.go): configuration, loggers,           *)
(* certificates, manager, reconciler with the drain manager and its        *)
(* plugins, controller, webhook, and then the manager serves.  Any error   *)
(* on the way ends the process, and the kubelet starts it again.           *)
(*                                                                         *)
(* main is the step that main() is at.  A zap logger points to a cell that *)
(* holds its level (zap.AtomicLevel); loggers made from one zap.Config may *)
(* share it.  Simplification: certificates are there or not, and what the  *)
(* API server refuses is a setback.                                        *)
(***************************************************************************)
EXTENDS PluginOutput, Config

CONSTANTS
    Deployments,    \* how the operator may be deployed
    MaxSetbacks     \* bound on the API server's failures and on crashes

ASSUME DeploymentsAssumption ==
    /\ \A dep \in Deployments :
           /\ IsSource(dep)
           /\ dep.configDir \in {"none", "directory", "file"}
           /\ dep.configDir # "directory" => dep.files = {}
           /\ dep.webhookCert \in {"none", "good", "missing"}
           /\ dep.metricsCert \in {"none", "good", "missing"}
           /\ dep.webhooks \in BOOLEAN
    /\ MaxSetbacks \in Nat

VARIABLES
    dep,        \* the deployment
    sound,      \* are the deployment and the plugins sound?
    main,       \* where main() is
    koanf,      \* the loaded configuration
    cells,      \* the levels that loggers point to
    loggers,    \* the loggers made so far, by name
    setbacks

mainVars == <<dep, sound, main, koanf, cells, loggers, setbacks>>
operatorVars == <<drainVars, outputVars, mainVars>>

StepsOfMain == {"config", "logger", "certs", "manager", "reconciler", "plugins",
                "controller", "webhook", "start", "serving", "exited"}

(* zap.ParseAtomicLevel, which knows no "trace".                           *)
ParseLevel(s) ==
    CASE s = "debug" -> DebugLevel
      [] s \in {"info", ""} -> InfoLevel
      [] s = "warn" -> WarnLevel
      [] s = "error" -> ErrorLevel
      [] s = "dpanic" -> ErrorLevel + 1
      [] s = "panic" -> ErrorLevel + 2
      [] s = "fatal" -> FatalLevel
      [] OTHER -> Err

LogConfigOk(k) ==
    ParseLevel(Field(k, "log.level")) # Err /\ Field(k, "log.format") \in {"json", "console"}

(* The deployments and the plugins with which main() should get to the end *)
(* (the reference for the properties below).                               *)
Sound ==
    /\ ~ConfigFails(dep) /\ LogConfigOk(Koanf(dep))
    /\ "missing" \notin {dep.webhookCert, dep.metricsCert}
    /\ \A f \in PluginFiles : InfoOk(f)
    /\ \A f, g \in PluginFiles : info[f].id = info[g].id => f = g

OperatorInit ==
    /\ Init /\ OutputInit
    /\ dep \in Deployments
    /\ sound = Sound
    /\ main = "config"
    /\ koanf = <<>> /\ cells = <<>> /\ loggers = <<>>
    /\ setbacks = 0

Setback == setbacks < MaxSetbacks /\ setbacks' = setbacks + 1

GoTo(s) == main' = s
Fatal == main' = "exited"

(* A step that fails only with the API server or the client made for it.   *)
Attempt(s) ==
    \/ GoTo(s) /\ UNCHANGED setbacks
    \/ Fatal /\ Setback

-----------------------------------------------------------------------------
(* Loggers.                                                                *)

(* A named logger knows trace, and falls back to info.                     *)
NamedLevel(k, name) ==
    LET s == LoggerLevel(k, name) IN
    CASE s = "trace" -> TraceLevel
      [] s # "trace" /\ ParseLevel(s) = Err -> InfoLevel
      [] OTHER -> ParseLevel(s)

(* Build makes a logger from the zap.Config, whose level was replaced by a *)
(* new one before.                                                         *)
Points(name, cell) ==
    loggers' = [n \in DOMAIN loggers \cup {name} |-> IF n = name THEN cell ELSE loggers[n]]
BuildSharing(name, level) ==
    /\ cells' = <<level>>
    /\ Points(name, 1)
Build(name, level) ==
    /\ cells' = Append(cells, level)
    /\ Points(name, Len(cells) + 1)

GetNamedLogger(name) == Build(name, NamedLevel(koanf, name))

-----------------------------------------------------------------------------
(* The steps of main().                                                    *)

LoadConfig ==
    /\ main = "config"
    /\ IF ConfigFails(dep) THEN Fatal /\ UNCHANGED koanf
                           ELSE GoTo("logger") /\ koanf' = Koanf(dep)
    /\ UNCHANGED <<dep, sound, cells, loggers, setbacks, drainVars, outputVars>>

GetLogger ==
    /\ main = "logger"
    /\ IF LogConfigOk(koanf)
       THEN GoTo("certs") /\ Build("setup", ParseLevel(Field(koanf, "log.level")))
       ELSE Fatal /\ UNCHANGED <<cells, loggers>>
    /\ UNCHANGED <<dep, sound, koanf, setbacks, drainVars, outputVars>>

CertWatchers ==
    /\ main = "certs"
    /\ IF "missing" \in {dep.webhookCert, dep.metricsCert} THEN Fatal ELSE GoTo("manager")
    /\ UNCHANGED <<dep, sound, koanf, cells, loggers, setbacks, drainVars, outputVars>>

NewManager ==
    /\ main = "manager"
    /\ Attempt("reconciler")
    /\ UNCHANGED <<dep, sound, koanf, cells, loggers, drainVars, outputVars>>

(* NewNodeReconciler, as far as NewDrainManager.                           *)
NewNodeReconcilerStrict ==
    /\ main = "reconciler"
    /\ IF ParseLevel(LoggerLevel(koanf, "node")) = Err
       THEN Fatal /\ UNCHANGED <<cells, loggers, setbacks>>
       ELSE GetNamedLogger("node") /\ Attempt("plugins")
    /\ UNCHANGED <<dep, sound, koanf, drainVars, outputVars>>
NewNodeReconciler ==
    /\ main = "reconciler"
    /\ GetNamedLogger("node") /\ Attempt("plugins")
    /\ UNCHANGED <<dep, sound, koanf, drainVars, outputVars>>

LoadPlugins ==
    /\ main = "plugins" /\ life = "down"
    /\ NewDrainManager /\ OutputFollows
    /\ GetNamedLogger("drain-plugin-client")
    /\ UNCHANGED <<dep, sound, main, koanf, setbacks>>

PluginsLoadedUnchecked ==
    /\ main = "plugins" /\ life \in {"up", "failed"} /\ GoTo("controller")
    /\ UNCHANGED <<dep, sound, koanf, cells, loggers, setbacks, drainVars, outputVars>>
PluginsLoaded ==
    /\ main = "plugins"
    /\ \/ life = "up" /\ GoTo("controller")
       \/ life = "failed" /\ Fatal
    /\ UNCHANGED <<dep, sound, koanf, cells, loggers, setbacks, drainVars, outputVars>>

SetupWithManager ==
    /\ main = "controller"
    /\ Attempt("webhook")
    /\ UNCHANGED <<dep, sound, koanf, cells, loggers, drainVars, outputVars>>

SetupNodeWebhookWithManager ==
    /\ main = "webhook"
    /\ IF dep.webhooks
       THEN Attempt("start") /\ GetNamedLogger("node-webhook")
       ELSE GoTo("start") /\ UNCHANGED <<cells, loggers, setbacks>>
    /\ UNCHANGED <<dep, sound, koanf, drainVars, outputVars>>

(* The watchers and probes are added, and the manager starts.              *)
StartManager ==
    /\ main = "start"
    /\ Attempt("serving")
    /\ UNCHANGED <<dep, sound, koanf, cells, loggers, drainVars, outputVars>>

MainNext ==
    \/ LoadConfig \/ GetLogger \/ CertWatchers \/ NewManager \/ NewNodeReconciler
    \/ LoadPlugins \/ PluginsLoaded \/ SetupWithManager
    \/ SetupNodeWebhookWithManager \/ StartManager

(* The process ends with its plugins, loggers and goroutines; a new one    *)
(* starts with main().                                                     *)
NewProcess ==
    /\ main' = "config"
    /\ koanf' = <<>> /\ cells' = <<>> /\ loggers' = <<>>
    /\ IF life = "down" THEN UNCHANGED <<drainVars, outputVars>> ELSE Stop /\ OutputFollows
    /\ UNCHANGED <<dep, sound>>

Restart == main = "exited" /\ NewProcess /\ UNCHANGED setbacks
Crash == main # "exited" /\ NewProcess /\ Setback

-----------------------------------------------------------------------------
(* The drain manager's and the plugins' steps in this process.             *)

PluginThreshold == cells[loggers["drain-plugin-client"]]

Load_ == main = "plugins" /\ LoadNext /\ OutputFollows /\ UNCHANGED mainVars

Reconciles(op) == main = "serving" /\ Call(op) /\ OutputFollows /\ UNCHANGED mainVars

CallStep == CallNext /\ OutputFollows /\ UNCHANGED mainVars

PluginServes == ServeUnblocked /\ OutputFollows /\ UNCHANGED mainVars

PluginFails(f) == PluginDies(f) /\ OutputFollows /\ UNCHANGED mainVars

PluginWrites(f) == WriteLine(f) /\ UNCHANGED mainVars

MonitorScans(f) ==
    /\ Scanning(f)
    /\ \/ Scan(f, PluginThreshold) /\ UNCHANGED mainVars
       \/ ScanIsFatal(f, PluginThreshold) /\ NewProcess /\ UNCHANGED setbacks

OperatorNext ==
    \/ MainNext \/ Restart \/ Crash
    \/ Load_ \/ CallStep \/ PluginServes
    \/ \E op \in Ops : Reconciles(op)
    \/ \E f \in Files :
          \/ PluginFails(f) \/ PluginWrites(f) \/ MonitorScans(f)
          \/ \E line \in Lines : PluginLogs(f, line) /\ UNCHANGED mainVars

OperatorSpec == OperatorInit /\ [][OperatorNext]_operatorVars

(* main() and the reconciler run on, the kubelet restarts the process,     *)
(* the plugins answer and the goroutines are scheduled.  Nothing makes the *)
(* reconciler call, a plugin log, or anything fail.                        *)
OperatorFairness ==
    /\ WF_operatorVars(MainNext) /\ WF_operatorVars(Restart)
    /\ WF_operatorVars(Load_) /\ WF_operatorVars(CallStep)
    /\ WF_operatorVars(PluginServes)
    /\ \A f \in Files : WF_operatorVars(PluginWrites(f)) /\ WF_operatorVars(MonitorScans(f))

FairOperatorSpec == OperatorSpec /\ OperatorFairness

-----------------------------------------------------------------------------
(* Properties.                                                             *)

(* The variables have their types.                                         *)
OperatorTypeOK ==
    /\ DrainTypeOK
    /\ writing \in [Files -> Lines \cup {NoLine}]
    /\ \A f \in Files : Len(pipe[f]) <= PipeSize
    /\ monitor \in [Files -> {"none", "scanning", "ended"}]
    /\ tagged \subseteq Files /\ logged \in 0..MaxLines
    /\ dep \in Deployments /\ main \in StepsOfMain
    /\ \A n \in DOMAIN loggers : loggers[n] \in 1..Len(cells)
    /\ setbacks \in 0..MaxSetbacks

(* Every logger has, as long as the process lives, the level that the      *)
(* configuration gives to its name, although all are built from the one    *)
(* zap.Config whose Level GetNamedLogger overwrites.                       *)
LoggersKeepLevels ==
    \A n \in DOMAIN loggers :
        cells[loggers[n]] = IF n = "setup" THEN ParseLevel(Field(koanf, "log.level"))
                                           ELSE NamedLevel(koanf, n)

(* When LoadConfig has returned, every key has the value that the          *)
(* ranking of the layers gives it, and the check interval that the         *)
(* controller reads from koanf itself, by its exact spelling, is one that  *)
(* LoadConfig validated.                                                   *)
ConfigPrecedence ==
    main = "logger" =>
        /\ \A key \in Keys : Field(koanf, key) = Decided(dep, key)
        /\ Value(koanf, "reboot.checkInterval") \in {"12h", "1h"}

(* The levels of a logger, without those for which Wrap's adapter of it    *)
(* says one thing and does another.                                        *)
LoggerLevels == TraceLevel..FatalLevel
FaithfulLevels ==
    LoggerLevels \ {t \in LoggerLevels : ~LevelsAgree(t) \/ GetLevel(t, TRUE) # "Off"}

(* What go-plugin logs through Wrap's adapter of any of the loggers is     *)
(* written or dropped as go-plugin was told it would be (IsX, GetLevel),   *)
(* and go-plugin's own copy of a plugin's stderr is off, so that no line   *)
(* is written twice.                                                       *)
AdapterFaithful == \A n \in DOMAIN loggers : cells[loggers[n]] \in FaithfulLevels

(* The levels of a logger, without those for which some line of a plugin   *)
(* or some argument of the adapter gets lost.                              *)
LosslessLevels ==
    LoggerLevels \ {t \in LoggerLevels :
        \/ \E line \in PluginLines \ {Blank, TooLong} : ~LineKept(t, line)
        \/ \E args \in ArgLists : ~ArgsKept(args)}

(* What a plugin prints is written to the operator's log at the level the  *)
(* plugin gave it, or dropped as being below the logger's level, and with  *)
(* all of its arguments; the exceptions LineKept names are the code's.     *)
NothingLost == \A n \in DOMAIN loggers : cells[loggers[n]] \in LosslessLevels

(* The manager serves only with a sound deployment, and then with every    *)
(* logger made and every plugin registered: a plugin that is broken or     *)
(* named like another one keeps the whole operator, its webhook included,  *)
(* from starting.                                                          *)
ServesOnlySound ==
    main = "serving" =>
        /\ sound /\ life = "up"
        /\ {"setup", "node", "drain-plugin-client"} \subseteq DOMAIN loggers
        /\ dep.webhooks => "node-webhook" \in DOMAIN loggers

(* A line longer than its monitor's buffer: nothing reads the plugin's     *)
(* output any more.                                                        *)
Clogged == \E f \in Files : pipe[f] # <<>> /\ Head(pipe[f]) = TooLong

(* A sound deployment ends up serving for good, whatever failed, crashed,  *)
(* panicked or raced before, unless a plugin's output is clogged: then the *)
(* plugin may block for good in its Init, and main() with it.              *)
EventuallyServes == sound => <>[](main = "serving" \/ Clogged)

(* A method of the drain manager returns, however much the plugins log,    *)
(* unless a plugin's output is clogged.                                    *)
PluginCallReturns == (call # NoCall) ~> (call = NoCall \/ Clogged)
=============================================================================
