--------------------------- MODULE OperatorProofs ---------------------------
(***************************************************************************)
(* Proofs about the operator's process, for every set of deployments,      *)
(* every plugin directory and every bound: the drain manager in it keeps   *)
(* what it promises on its own, every logger keeps the level that the      *)
(* configuration gives to its name, the configuration follows the ranking  *)
(* of its layers, and the manager serves only with a sound deployment.     *)
(*                                                                         *)
(* A step of the process is a step of the drain manager or leaves it       *)
(* alone, so DrainInv is an invariant here too.  MainInv adds what main()  *)
(* has established by the step it is at: the configuration it loaded, the  *)
(* loggers it made, whether the drain manager is there.                    *)
(***************************************************************************)
EXTENDS Operator, DrainManagerProofs, LogConfigProofs

-----------------------------------------------------------------------------
(* The drain manager in the process.                                       *)

(* A step of the process is a step of the drain manager, or does not       *)
(* change it.                                                              *)
LEMMA DrainStep ==
    ASSUME OperatorNext
    PROVE  DrainNext \/ UNCHANGED drainVars
<1>1. CASE MainNext
  <2>1. CASE LoadPlugins
    BY Zenon, <2>1 DEF LoadPlugins, DrainNext
  <2>2. CASE MainNext /\ ~LoadPlugins
    BY Zenon, <2>2 DEF MainNext, LoadConfig, GetLogger, CertWatchers, NewManager, NewNodeReconciler,
       PluginsLoaded, SetupWithManager, SetupNodeWebhookWithManager, StartManager
  <2> QED  BY Zenon, <1>1, <2>1, <2>2
<1>2. NewProcess => DrainNext \/ UNCHANGED drainVars
  BY Zenon DEF NewProcess, DrainNext
<1>3. CASE Restart \/ Crash
  BY Zenon, <1>2, <1>3 DEF Restart, Crash
<1>4. CASE Load_ \/ CallStep \/ PluginServes
  BY Zenon, <1>4 DEF Load_, CallStep, PluginServes, ServeUnblocked, DrainNext
<1>5. ASSUME NEW op \in Ops, Reconciles(op)
      PROVE  DrainNext
  BY Zenon, <1>5 DEF Reconciles, DrainNext
<1>6. ASSUME NEW f \in Files, PluginFails(f)
      PROVE  DrainNext
  BY Zenon, <1>6 DEF PluginFails, DrainNext
<1>7. ASSUME NEW f \in Files, PluginWrites(f)
      PROVE  UNCHANGED drainVars
  BY Zenon, <1>7 DEF PluginWrites, WriteLine
<1>8. ASSUME NEW f \in Files, MonitorScans(f)
      PROVE  DrainNext \/ UNCHANGED drainVars
  BY Zenon, <1>2, <1>8 DEF MonitorScans, Scan
<1>9. ASSUME NEW f \in Files, NEW line \in Lines, PluginLogs(f, line)
      PROVE  UNCHANGED drainVars
  BY Zenon, <1>9 DEF PluginLogs
<1> QED  BY Zenon, <1>1, <1>3, <1>4, <1>5, <1>6, <1>7, <1>8, <1>9 DEF OperatorNext

(* The operator's process runs the drain manager as DrainManager has it:   *)
(* whatever main(), crashes, restarts and the plugins' output do, every    *)
(* step is one that the drain manager may take on its own.                 *)
THEOREM RunsDrainManager == OperatorSpec => DrainSpec
<1>1. OperatorInit => Init
  BY Zenon DEF OperatorInit
<1>2. [OperatorNext]_operatorVars => [DrainNext]_drainVars
  BY Zenon, DrainStep DEF operatorVars
<1> QED  BY <1>1, <1>2, PTL DEF OperatorSpec, DrainSpec


(* In the operator's process too, a plugin is asked nothing before its     *)
(* Init, all plugins are registered when the manager is up, "ok" is the    *)
(* word of all of them, and to the reconciler they are one party.          *)
THEOREM DrainManagerInProcess ==
    OperatorSpec => /\ [](InitBeforeUse /\ AllRegistered /\ OkMeansAll)
                    /\ PartySpec
BY RunsDrainManager, InitFirst, EveryPluginRegistered, NobodyPassedOver, OneParty, PTL

(* A registered plugin has passed the checks of initPlugin on its ID and   *)
(* on the format of its configuration.                                     *)
RegisteredFit == \A id \in Ids : drainClients[id] # NoFile => InfoOk(drainClients[id])

(* Only Register adds a plugin, after InfoOk of it.                        *)
LEMMA FitStep ==
    ASSUME DrainInv, RegisteredFit, DrainNext
    PROVE  RegisteredFit'
<1>1. CASE UNCHANGED <<info, drainClients>>
  BY <1>1 DEF RegisteredFit, InfoOk
<1>2. CASE Register
  <2>1. InfoOk(Cur) /\ UNCHANGED info
    BY <1>2 DEF DrainInv, RpcInv, Register
  <2>2. \/ UNCHANGED drainClients
        \/ drainClients' = [drainClients EXCEPT ![info[Cur].id] = Cur]
    BY <1>2 DEF Register, LoadFails, Cur
  <2> QED  BY <2>1, <2>2 DEF DrainInv, DrainTypeOK, RegisteredFit, InfoOk
<1>3. CASE Stop
  BY <1>3 DEF Stop, RegisteredFit
<1>4. Register \/ Stop \/ UNCHANGED <<info, drainClients>>
  <2>1. CASE LoadNext
    BY Zenon, <2>1 DEF LoadNext, LoadEntry, StartClient, ClientFails, GotPluginInfo, GotInit, LoadFails
  <2>2. CASE CallNext
    BY Zenon, <2>2 DEF CallNext, IsClusterNodesHealthy, Finish, NextPlugin, GotIsSupported, GotAnswer,
       loaderVars
  <2>3. CASE NewDrainManager \/ Stop \/ \E op \in Ops : Call(op)
    BY Zenon, <2>3 DEF NewDrainManager, Call, loaderVars
  <2>4. CASE (\E a \in {"yes", "no", "error"} : Serve(a)) \/ \E f \in Files : PluginDies(f)
    BY Zenon, <2>4 DEF Serve, PluginDies, loaderVars
  <2> QED  BY Zenon, <2>1, <2>2, <2>3, <2>4 DEF DrainNext
<1> QED  BY Zenon, <1>1, <1>2, <1>3, <1>4

(* When the manager is up, all plugins are fit and no two have one ID.     *)
LEMMA UpIsSound ==
    ASSUME DrainInv, RegisteredFit, life = "up"
    PROVE  /\ \A f \in PluginFiles : InfoOk(f)
           /\ \A f, g \in PluginFiles : info[f].id = info[g].id => f = g
<1>1. \A f \in PluginFiles : info[f].id \in Ids /\ drainClients[info[f].id] = f /\ f # NoFile
  BY FileFacts DEF DrainInv, RegInv, Loaded
<1> QED  BY <1>1 DEF RegisteredFit

-----------------------------------------------------------------------------
(* The plugins' output.                                                    *)

(* The variables of the output have their types, the pipes their size.     *)
OutputInv ==
    /\ writing \in [Files -> Lines \cup {NoLine}]
    /\ pipe \in [Files -> Seq(Lines)]
    /\ \A f \in Files : Len(pipe[f]) <= PipeSize
    /\ monitor \in [Files -> {"none", "scanning", "ended"}]
    /\ tagged \subseteq Files /\ logged \in 0..MaxLines

(* The output follows the drain manager, or a plugin or its monitor moves. *)
LEMMA OutputSteps ==
    ASSUME OperatorNext
    PROVE  \/ OutputFollows \/ UNCHANGED outputVars
           \/ \E f \in Files : \/ \E line \in Lines : PluginLogs(f, line)
                               \/ WriteLine(f) \/ Scan(f, PluginThreshold)
<1>1. NewProcess => OutputFollows \/ UNCHANGED outputVars
  BY Zenon DEF NewProcess
<1>2. CASE MainNext
  BY Zenon, <1>2 DEF MainNext, LoadConfig, GetLogger, CertWatchers, NewManager, NewNodeReconciler,
     LoadPlugins, PluginsLoaded, SetupWithManager, SetupNodeWebhookWithManager, StartManager
<1>3. CASE Restart \/ Crash
  BY Zenon, <1>1, <1>3 DEF Restart, Crash
<1>4. CASE Load_ \/ CallStep \/ PluginServes \/ \E op \in Ops : Reconciles(op)
  BY Zenon, <1>4 DEF Load_, CallStep, PluginServes, Reconciles
<1>5. ASSUME NEW f \in Files, PluginFails(f) \/ PluginWrites(f)
      PROVE  OutputFollows \/ WriteLine(f)
  BY Zenon, <1>5 DEF PluginFails, PluginWrites
<1>6. ASSUME NEW f \in Files, MonitorScans(f)
      PROVE  Scan(f, PluginThreshold) \/ OutputFollows \/ UNCHANGED outputVars
  BY Zenon, <1>1, <1>6 DEF MonitorScans
<1> QED  BY Zenon, <1>2, <1>3, <1>4, <1>5, <1>6 DEF OperatorNext

(* Every step keeps the output's types and the size of its pipes.          *)
LEMMA OutputKept ==
    ASSUME OutputInv, OperatorNext
    PROVE  OutputInv'
<1>1. CASE UNCHANGED outputVars
  BY <1>1 DEF OutputInv, outputVars
<1>2. CASE OutputFollows
  <2>1. monitor' \in [Files -> {"none", "scanning", "ended"}]
    BY Zenon, <1>2 DEF OutputFollows, OutputInv
  <2>2. /\ writing' \in [Files -> Lines \cup {NoLine}]
        /\ tagged' \subseteq Files /\ logged' \in 0..MaxLines
    BY <1>2 DEF OutputFollows, OutputInv
  <2>3. pipe' \in [Files -> Seq(Lines)] /\ \A f \in Files : Len(pipe'[f]) <= PipeSize
    BY <1>2, OutputAssumption DEF OutputFollows, OutputInv
  <2> QED  BY <2>1, <2>2, <2>3 DEF OutputInv
<1>3. ASSUME NEW f \in Files, NEW line \in Lines, PluginLogs(f, line)
      PROVE  OutputInv'
  BY <1>3, OutputAssumption DEF OutputInv, PluginLogs
<1>4. ASSUME NEW f \in Files, WriteLine(f)
      PROVE  OutputInv'
  <2>1. writing[f] \in Lines /\ pipe[f] \in Seq(Lines) /\ Len(pipe[f]) < PipeSize
    BY <1>4 DEF OutputInv, WriteLine
  <2>2. /\ Append(pipe[f], writing[f]) \in Seq(Lines)
        /\ Len(Append(pipe[f], writing[f])) = Len(pipe[f]) + 1
    BY <2>1
  <2>3. Len(pipe[f]) + 1 <= PipeSize
    BY <2>1, OutputAssumption
  <2> QED  BY <1>4, <2>2, <2>3 DEF OutputInv, WriteLine
<1>5. ASSUME NEW f \in Files, Scan(f, PluginThreshold)
      PROVE  OutputInv'
  <2>1. pipe[f] \in Seq(Lines) /\ pipe[f] # <<>> /\ Len(pipe[f]) <= PipeSize
    BY <1>5 DEF OutputInv, Scan, Scanning
  <2>2. Tail(pipe[f]) \in Seq(Lines) /\ Len(Tail(pipe[f])) <= PipeSize
    BY <2>1, OutputAssumption
  <2>3. /\ pipe' = pipe \/ pipe' = [pipe EXCEPT ![f] = Tail(@)]
        /\ monitor' = monitor \/ monitor' = [monitor EXCEPT ![f] = "ended"]
        /\ tagged' = tagged \/ tagged' = tagged \cup {f}
        /\ UNCHANGED <<writing, logged>>
    BY Zenon, <1>5 DEF Scan
  <2> QED  BY Zenon, <2>2, <2>3 DEF OutputInv
<1> QED  BY Zenon, <1>1, <1>2, <1>3, <1>4, <1>5, OutputSteps


-----------------------------------------------------------------------------
(* The loggers.                                                            *)

(* The level that the configuration gives to the logger of a name.         *)
LevelFor(k, n) == IF n = "setup" THEN ParseLevel(Field(k, "log.level")) ELSE NamedLevel(k, n)

(* Every logger points to a cell, and the cell holds the level of the      *)
(* logger's name.                                                          *)
LogInv ==
    /\ cells \in Seq(LoggerLevels)
    /\ \A n \in DOMAIN loggers : loggers[n] \in 1..Len(cells)
    /\ \A n \in DOMAIN loggers : cells[loggers[n]] = LevelFor(koanf, n)

(* ParseAtomicLevel returns an error or a level, and a named logger always *)
(* gets a level.                                                           *)
LEMMA LevelTypes ==
    /\ \A s : ParseLevel(s) # Err => ParseLevel(s) \in LoggerLevels
    /\ \A k, name : NamedLevel(k, name) \in LoggerLevels
<1>1. \A s : ParseLevel(s) \in {DebugLevel, InfoLevel, WarnLevel, ErrorLevel, ErrorLevel + 1,
                                ErrorLevel + 2, FatalLevel, Err}
  BY Zenon DEF ParseLevel
<1>2. {TraceLevel, DebugLevel, InfoLevel, WarnLevel, ErrorLevel, ErrorLevel + 1,
       ErrorLevel + 2, FatalLevel} \subseteq LoggerLevels
  BY DEF LoggerLevels, TraceLevel, DebugLevel, InfoLevel, WarnLevel, ErrorLevel, FatalLevel
<1>3. \A s : ParseLevel(s) # Err => ParseLevel(s) \in LoggerLevels
  BY Zenon, <1>1, <1>2
<1>4. \A k, name : NamedLevel(k, name) \in LoggerLevels
  BY Zenon, <1>2, <1>3 DEF NamedLevel
<1> QED  BY <1>3, <1>4

(* A new logger gets a cell of its own, and the others keep theirs.        *)
LEMMA BuildKeeps ==
    ASSUME LogInv, NEW name, Build(name, LevelFor(koanf, name)),
           LevelFor(koanf, name) \in LoggerLevels, UNCHANGED koanf
    PROVE  LogInv' /\ DOMAIN loggers' = DOMAIN loggers \cup {name}
<1> DEFINE level == LevelFor(koanf, name)
<1>1. cells' = Append(cells, level) /\ cells \in Seq(LoggerLevels) /\ level \in LoggerLevels
  BY Zenon DEF Build, LogInv
<1>2. loggers' = [n \in DOMAIN loggers \cup {name} |->
                     IF n = name THEN Len(cells) + 1 ELSE loggers[n]]
  BY Zenon DEF Build, Points
<1> HIDE DEF level
<1>3. /\ cells' \in Seq(LoggerLevels) /\ Len(cells) \in Nat /\ Len(cells') = Len(cells) + 1
      /\ \A i \in 1..Len(cells) : cells'[i] = cells[i]
      /\ cells'[Len(cells) + 1] = level
  BY <1>1
<1>4. ASSUME NEW n \in DOMAIN loggers'
      PROVE  loggers'[n] \in 1..Len(cells') /\ cells'[loggers'[n]] = LevelFor(koanf, n)
  <2>1. CASE n = name
    <3>1. loggers'[n] = Len(cells) + 1
      BY Zenon, <1>2, <2>1
    <3> QED  BY <1>3, <2>1, <3>1 DEF level
  <2>2. CASE n # name
    <3>1. n \in DOMAIN loggers /\ loggers'[n] = loggers[n]
      BY Zenon, <1>2, <1>4, <2>2
    <3>2. loggers[n] \in 1..Len(cells) /\ cells[loggers[n]] = LevelFor(koanf, n)
      BY <3>1 DEF LogInv
    <3> QED  BY <1>3, <3>1, <3>2
  <2> QED  BY <2>1, <2>2
<1>5. \A n : LevelFor(koanf, n)' = LevelFor(koanf, n)
  BY DEF LevelFor
<1>6. LogInv'
  BY <1>3, <1>4, <1>5 DEF LogInv
<1> QED  BY <1>2, <1>6


-----------------------------------------------------------------------------
(* main().                                                                 *)

(* What main() has established by the step it is at.                       *)
MainInv ==
    /\ dep \in Deployments /\ main \in StepsOfMain /\ setbacks \in 0..MaxSetbacks
    /\ Sound => sound
    /\ main \in {"config", "logger"} => DOMAIN loggers = {}
    /\ main \notin {"config", "exited"} => koanf = Koanf(dep) /\ ~ConfigFails(dep)
    /\ main \notin {"config", "logger", "exited"} =>
          LogConfigOk(Koanf(dep)) /\ "setup" \in DOMAIN loggers
    /\ main \notin {"config", "logger", "certs", "exited"} =>
          "missing" \notin {dep.webhookCert, dep.metricsCert}
    /\ main \in {"config", "logger", "certs", "manager", "reconciler"} => life = "down"
    /\ main \in {"plugins", "controller", "webhook", "start", "serving"} =>
          /\ "node" \in DOMAIN loggers
          /\ life # "down" => "drain-plugin-client" \in DOMAIN loggers
    /\ main \in {"controller", "webhook", "start", "serving"} => life = "up"
    /\ main \in {"start", "serving"} /\ dep.webhooks => "node-webhook" \in DOMAIN loggers

(* The plugins' information never changes, and a step of the drain manager *)
(* other than the start and the end of it changes its life only while it   *)
(* is loading.                                                             *)
LEMMA LifeSteps ==
    ASSUME DrainNext
    PROVE  /\ UNCHANGED info
           /\ NewDrainManager \/ Stop \/ LoadNext \/ UNCHANGED life
           /\ LoadNext => life = "loading"
           /\ CallNext => UNCHANGED life
<1>1. LoadNext => life = "loading" /\ UNCHANGED info
  BY Zenon DEF LoadNext, LoadEntry, StartClient, ClientFails, GotPluginInfo, GotInit, Register
<1>2. CallNext => UNCHANGED <<info, life>>
  BY Zenon DEF CallNext, IsClusterNodesHealthy, Finish, NextPlugin, GotIsSupported, GotAnswer, loaderVars
<1>3. NewDrainManager \/ Stop => UNCHANGED info
  BY Zenon DEF NewDrainManager, Stop
<1>4. \A op \in Ops : Call(op) => UNCHANGED <<info, life>>
  BY Zenon DEF Call, loaderVars
<1>5. /\ \A a \in {"yes", "no", "error"} : Serve(a) => UNCHANGED <<info, life>>
      /\ \A f \in Files : PluginDies(f) => UNCHANGED <<info, life>>
  BY Zenon DEF Serve, PluginDies, loaderVars
<1> QED  BY Zenon, <1>1, <1>2, <1>3, <1>4, <1>5 DEF DrainNext

(* A sound deployment stays one.                                           *)
LEMMA SoundKept == UNCHANGED <<dep, info>> => (Sound' <=> Sound)
BY DEF Sound, InfoOk

(* A step that leaves main() alone changes the drain manager's life only   *)
(* while main() waits for the plugins.                                     *)
LEMMA BesidesMain ==
    ASSUME MainInv, LogInv, UNCHANGED mainVars, UNCHANGED info,
           UNCHANGED life \/ (main = "plugins" /\ life # "down")
    PROVE  MainInv' /\ LogInv'
<1>1. LogInv'
  BY DEF LogInv, LevelFor, mainVars
<1>2. Sound' => Sound
  BY SoundKept DEF mainVars
<1> QED  BY <1>1, <1>2 DEF MainInv, mainVars

(* A new process starts from nothing.                                      *)
LEMMA NewProcessKeeps ==
    ASSUME DrainInv, MainInv, LogInv, NewProcess, Setback \/ UNCHANGED setbacks
    PROVE  MainInv' /\ LogInv'
<1>1. UNCHANGED <<info, dep, sound>> /\ life' = "down"
  BY DEF NewProcess, Stop, drainVars
<1>2. Sound' => Sound
  BY <1>1, SoundKept
<1>3. setbacks' \in 0..MaxSetbacks
  BY DeploymentsAssumption DEF MainInv, Setback
<1>4. main' = "config" /\ DOMAIN loggers' = {} /\ cells' = <<>>
  BY DEF NewProcess
<1>5. LogInv'
  BY <1>4 DEF LogInv
<1> QED  BY <1>1, <1>2, <1>3, <1>4, <1>5 DEF MainInv, StepsOfMain


(* The levels that GetLogger and GetNamedLogger build with.                *)
LEMMA BuildsLevel ==
    /\ LogConfigOk(koanf) => LevelFor(koanf, "setup") \in LoggerLevels
    /\ LevelFor(koanf, "setup") = ParseLevel(Field(koanf, "log.level"))
    /\ \A name \in {"node", "drain-plugin-client", "node-webhook"} :
          /\ LevelFor(koanf, name) \in LoggerLevels
          /\ LevelFor(koanf, name) = NamedLevel(koanf, name)
<1>1. \A name \in {"node", "drain-plugin-client", "node-webhook"} : name # "setup"
  OBVIOUS
<1> QED  BY Zenon, <1>1, LevelTypes DEF LevelFor, LogConfigOk

(* A named logger is added to the others.                                  *)
LEMMA NamedLoggerKeeps ==
    ASSUME LogInv, NEW name \in {"node", "drain-plugin-client", "node-webhook"},
           GetNamedLogger(name), UNCHANGED koanf
    PROVE  LogInv' /\ DOMAIN loggers' = DOMAIN loggers \cup {name}
BY Zenon, BuildKeeps, BuildsLevel DEF GetNamedLogger

(* The steps of main() that make no logger.                                *)
LEMMA PlainStepKeeps ==
    ASSUME MainInv, LogInv,
           \/ LoadConfig \/ CertWatchers \/ NewManager \/ PluginsLoaded
           \/ SetupWithManager \/ StartManager
    PROVE  MainInv' /\ LogInv'
<1>1. UNCHANGED <<dep, sound, cells, loggers, info, life>>
  BY DEF LoadConfig, CertWatchers, NewManager, PluginsLoaded, SetupWithManager, StartManager, drainVars
<1>2. Sound' => Sound
  BY SMTT(20), <1>1, SoundKept
<1>3. setbacks' \in 0..MaxSetbacks
  BY DeploymentsAssumption DEF MainInv, LoadConfig, CertWatchers, NewManager, PluginsLoaded,
     SetupWithManager, StartManager, Attempt, Setback
<1>4. CASE LoadConfig
  <2>1. LogInv'
    BY SMTT(20), <1>1, <1>4 DEF LogInv, MainInv, LoadConfig
  <2> QED  BY SMTT(20), <1>1, <1>2, <1>3, <1>4, <2>1
              DEF MainInv, LoadConfig, Fatal, GoTo, StepsOfMain
<1>5. CASE CertWatchers \/ NewManager \/ PluginsLoaded \/ SetupWithManager \/ StartManager
  <2>1. UNCHANGED koanf
    BY <1>5 DEF CertWatchers, NewManager, PluginsLoaded, SetupWithManager, StartManager
  <2>2. LogInv'
    BY SMTT(20), <1>1, <2>1 DEF LogInv, LevelFor
  <2>3. CASE CertWatchers
    BY SMTT(20), <1>1, <1>2, <1>3, <2>1, <2>2, <2>3
       DEF MainInv, CertWatchers, Fatal, GoTo, StepsOfMain
  <2>4. CASE NewManager
    BY SMTT(20), <1>1, <1>2, <1>3, <2>1, <2>2, <2>4
       DEF MainInv, NewManager, Attempt, Fatal, GoTo, StepsOfMain
  <2>5. CASE PluginsLoaded
    BY SMTT(20), <1>1, <1>2, <1>3, <2>1, <2>2, <2>5
       DEF MainInv, PluginsLoaded, Fatal, GoTo, StepsOfMain
  <2>6. CASE SetupWithManager
    BY SMTT(20), <1>1, <1>2, <1>3, <2>1, <2>2, <2>6
       DEF MainInv, SetupWithManager, Attempt, Fatal, GoTo,
       StepsOfMain
  <2>7. CASE StartManager
    BY SMTT(20), <1>1, <1>2, <1>3, <2>1, <2>2, <2>7
       DEF MainInv, StartManager, Attempt, Fatal, GoTo, StepsOfMain
  <2> QED  BY SMTT(20), <1>5, <2>3, <2>4, <2>5, <2>6, <2>7
<1> QED  BY SMTT(20), <1>4, <1>5

(* GetLogger makes the first logger, if the configuration is good for it.  *)
LEMMA GetLoggerKeeps ==
    ASSUME MainInv, LogInv, GetLogger
    PROVE  MainInv' /\ LogInv'
<1>1. main = "logger" /\ UNCHANGED <<dep, sound, koanf, setbacks, info, life>>
  BY DEF GetLogger, drainVars
<1>2. (Sound' => Sound) /\ koanf = Koanf(dep)
  BY SMTT(20), <1>1, SoundKept DEF MainInv
<1>3. CASE LogConfigOk(koanf)
  <2>1. main' = "certs" /\ Build("setup", LevelFor(koanf, "setup"))
    BY Zenon, <1>3, BuildsLevel DEF GetLogger, GoTo
  <2>2. LogInv' /\ DOMAIN loggers' = DOMAIN loggers \cup {"setup"}
    BY Zenon, <1>1, <1>3, <2>1, BuildKeeps, BuildsLevel
  <2> QED  BY SMTT(20), <1>1, <1>2, <1>3, <2>1, <2>2 DEF MainInv, StepsOfMain
<1>4. CASE ~LogConfigOk(koanf)
  <2>1. main' = "exited" /\ UNCHANGED <<cells, loggers>>
    BY Zenon, <1>4 DEF GetLogger, Fatal
  <2>2. LogInv'
    BY <1>1, <2>1 DEF LogInv, LevelFor
  <2> QED  BY SMTT(20), <1>1, <1>2, <2>1, <2>2 DEF MainInv, StepsOfMain
<1> QED  BY <1>3, <1>4

(* NewNodeReconciler, the drain manager and the webhook make the others.   *)
LEMMA NamedStepKeeps ==
    ASSUME MainInv, LogInv, NewNodeReconciler \/ LoadPlugins \/ SetupNodeWebhookWithManager
    PROVE  MainInv' /\ LogInv'
<1>1. UNCHANGED <<dep, sound, koanf, info>>
  BY DEF NewNodeReconciler, LoadPlugins, SetupNodeWebhookWithManager, NewDrainManager, drainVars
<1>2. Sound' => Sound
  BY SMTT(20), <1>1, SoundKept
<1>3. setbacks' \in 0..MaxSetbacks
  BY DeploymentsAssumption DEF MainInv, NewNodeReconciler, LoadPlugins, SetupNodeWebhookWithManager,
     Attempt, Setback
<1>4. CASE NewNodeReconciler
  <2>1. LogInv' /\ DOMAIN loggers' = DOMAIN loggers \cup {"node"}
    BY Zenon, <1>1, <1>4, NamedLoggerKeeps DEF NewNodeReconciler
  <2>2. main = "reconciler" /\ main' \in {"plugins", "exited"} /\ UNCHANGED life
    BY <1>4 DEF NewNodeReconciler, Attempt, GoTo, Fatal, drainVars
  <2> QED  BY SMTT(20), <1>1, <1>2, <1>3, <2>1, <2>2 DEF MainInv, StepsOfMain
<1>5. CASE LoadPlugins
  <2>1. LogInv' /\ DOMAIN loggers' = DOMAIN loggers \cup {"drain-plugin-client"}
    BY Zenon, <1>1, <1>5, NamedLoggerKeeps DEF LoadPlugins
  <2>2. main = "plugins" /\ main' = "plugins"
    BY <1>5 DEF LoadPlugins
  <2> QED  BY SMTT(20), <1>1, <1>2, <1>3, <2>1, <2>2 DEF MainInv, StepsOfMain
<1>6. CASE SetupNodeWebhookWithManager
  <2>1. main = "webhook" /\ main' \in {"start", "exited"} /\ UNCHANGED life
    BY <1>6 DEF SetupNodeWebhookWithManager, Attempt, GoTo, Fatal, drainVars
  <2>2. CASE dep.webhooks
    <3>1. LogInv' /\ DOMAIN loggers' = DOMAIN loggers \cup {"node-webhook"}
      BY Zenon, <1>1, <1>6, <2>2, NamedLoggerKeeps DEF SetupNodeWebhookWithManager
    <3> QED  BY SMTT(20), <1>1, <1>2, <1>3, <2>1, <3>1 DEF MainInv, StepsOfMain
  <2>3. CASE ~dep.webhooks
    <3>1. UNCHANGED <<cells, loggers>>
      BY Zenon, <1>6, <2>3 DEF SetupNodeWebhookWithManager
    <3>2. LogInv'
      BY <1>1, <3>1 DEF LogInv, LevelFor
    <3> QED  BY SMTT(20), <1>1, <1>2, <1>3, <2>1, <2>3, <3>1, <3>2 DEF MainInv, StepsOfMain
  <2> QED  BY SMTT(20), <2>2, <2>3
<1> QED  BY SMTT(20), <1>4, <1>5, <1>6


(* Every step of the process keeps what main() has established.            *)
LEMMA MainKept ==
    ASSUME DrainInv, MainInv, LogInv, OperatorNext
    PROVE  MainInv' /\ LogInv'
<1>1. CASE MainNext
  BY Zenon, <1>1, PlainStepKeeps, GetLoggerKeeps, NamedStepKeeps DEF MainNext
<1>2. CASE Restart \/ Crash
  BY Zenon, <1>2, NewProcessKeeps DEF Restart, Crash
<1>3. CASE Load_
  <2>1. main = "plugins" /\ life = "loading" /\ UNCHANGED info /\ UNCHANGED mainVars
    BY Zenon, <1>3, LifeSteps DEF Load_, DrainNext
  <2>2. life # "down"
    BY <2>1
  <2> QED  BY Zenon, <2>1, <2>2, BesidesMain
<1>4. CASE CallStep
  <2>1. UNCHANGED life /\ UNCHANGED info /\ UNCHANGED mainVars
    BY Zenon, <1>4, LifeSteps DEF CallStep, DrainNext
  <2> QED  BY Zenon, <2>1, BesidesMain
<1>5. CASE PluginServes
  <2>1. UNCHANGED life /\ UNCHANGED info /\ UNCHANGED mainVars
    BY Zenon, <1>5 DEF PluginServes, ServeUnblocked, Serve, loaderVars
  <2> QED  BY Zenon, <2>1, BesidesMain
<1>6. ASSUME NEW op \in Ops, Reconciles(op)
      PROVE  MainInv' /\ LogInv'
  <2>1. UNCHANGED life /\ UNCHANGED info /\ UNCHANGED mainVars
    BY Zenon, <1>6 DEF Reconciles, Call, loaderVars
  <2> QED  BY Zenon, <2>1, BesidesMain
<1>7. ASSUME NEW f \in Files, PluginFails(f)
      PROVE  MainInv' /\ LogInv'
  <2>1. UNCHANGED life /\ UNCHANGED info /\ UNCHANGED mainVars
    BY Zenon, <1>7 DEF PluginFails, PluginDies, loaderVars
  <2> QED  BY Zenon, <2>1, BesidesMain
<1>8. ASSUME NEW f \in Files, PluginWrites(f)
      PROVE  MainInv' /\ LogInv'
  <2>1. UNCHANGED life /\ UNCHANGED info /\ UNCHANGED mainVars
    BY Zenon, <1>8 DEF PluginWrites, WriteLine, drainVars
  <2> QED  BY Zenon, <2>1, BesidesMain
<1>9. ASSUME NEW f \in Files, MonitorScans(f)
      PROVE  MainInv' /\ LogInv'
  <2>1. CASE Scan(f, PluginThreshold) /\ UNCHANGED mainVars
    <3>1. UNCHANGED life /\ UNCHANGED info
      BY Zenon, <2>1 DEF Scan, drainVars
    <3> QED  BY Zenon, <2>1, <3>1, BesidesMain
  <2>2. CASE NewProcess /\ UNCHANGED setbacks
    BY Zenon, <2>2, NewProcessKeeps
  <2> QED  BY Zenon, <1>9, <2>1, <2>2 DEF MonitorScans
<1>10. ASSUME NEW f \in Files, NEW line \in Lines, PluginLogs(f, line), UNCHANGED mainVars
       PROVE  MainInv' /\ LogInv'
  <2>1. UNCHANGED life /\ UNCHANGED info
    BY Zenon, <1>10 DEF PluginLogs, drainVars
  <2> QED  BY Zenon, <1>10, <2>1, BesidesMain
<1> QED  BY Zenon, <1>1, <1>2, <1>3, <1>4, <1>5, <1>6, <1>7, <1>8, <1>9, <1>10 DEF OperatorNext

-----------------------------------------------------------------------------
(* The inductive invariant of the process, and what follows from it.       *)

OperatorInv == DrainInv /\ RegisteredFit /\ OutputInv /\ MainInv /\ LogInv

(* The process starts with the invariant.                                  *)
LEMMA OperatorStarts == OperatorInit => OperatorInv
<1> SUFFICES ASSUME OperatorInit PROVE OperatorInv
  OBVIOUS
<1>1. DrainInv
  BY Zenon, InitHolds DEF OperatorInit
<1>2. RegisteredFit
  BY DEF OperatorInit, Init, RegisteredFit
<1>3. OutputInv
  BY OutputAssumption DEF OperatorInit, OutputInit, OutputInv
<1>4. MainInv
  <2>1. Sound => sound
    BY Zenon DEF OperatorInit
  <2> QED  BY <2>1, DeploymentsAssumption DEF OperatorInit, Init, MainInv, StepsOfMain
<1>5. LogInv
  BY DEF OperatorInit, LogInv
<1> QED  BY Zenon, <1>1, <1>2, <1>3, <1>4, <1>5 DEF OperatorInv

(* A process that does nothing keeps it.                                   *)
LEMMA OperatorStutters ==
    ASSUME OperatorInv, UNCHANGED operatorVars
    PROVE  OperatorInv'
<1>1. UNCHANGED drainVars /\ UNCHANGED outputVars /\ UNCHANGED mainVars
  BY Zenon DEF operatorVars
<1>2. UNCHANGED <<info, life, drainClients>>
  BY <1>1 DEF drainVars
<1>3. DrainInv'
  BY Zenon, <1>1, NextKeeps DEF OperatorInv
<1>4. RegisteredFit'
  BY <1>2 DEF OperatorInv, RegisteredFit, InfoOk
<1>5. OutputInv'
  BY <1>1 DEF OperatorInv, OutputInv, outputVars
<1>6. MainInv' /\ LogInv'
  BY Zenon, <1>1, <1>2, BesidesMain DEF OperatorInv
<1> QED  BY Zenon, <1>3, <1>4, <1>5, <1>6 DEF OperatorInv

(* Every step of the process keeps it.                                     *)
LEMMA OperatorKeeps ==
    ASSUME OperatorInv, OperatorNext
    PROVE  OperatorInv'
<1>1. DrainNext \/ UNCHANGED drainVars
  BY DrainStep
<1>2. DrainInv'
  BY Zenon, <1>1, NextKeeps DEF OperatorInv
<1>3. RegisteredFit'
  <2>1. CASE DrainNext
    BY Zenon, <2>1, FitStep DEF OperatorInv
  <2>2. CASE UNCHANGED drainVars
    BY <2>2 DEF OperatorInv, RegisteredFit, InfoOk, drainVars
  <2> QED  BY <1>1, <2>1, <2>2
<1>4. OutputInv' /\ MainInv' /\ LogInv'
  BY Zenon, OutputKept, MainKept DEF OperatorInv
<1> QED  BY Zenon, <1>2, <1>3, <1>4 DEF OperatorInv

(* OperatorInv is an invariant of the operator's process.                  *)
THEOREM OperatorInvariant == OperatorSpec => []OperatorInv
<1>1. OperatorInv /\ [OperatorNext]_operatorVars => OperatorInv'
  BY Zenon, OperatorKeeps, OperatorStutters
<1> QED  BY <1>1, OperatorStarts, PTL DEF OperatorSpec

(* The variables of the process have their types, and the pipes between a  *)
(* plugin and its monitor hold no more lines than they have room for.      *)
THEOREM OperatorTypeCorrect == OperatorSpec => []OperatorTypeOK
<1>1. OperatorInv => OperatorTypeOK
  BY DEF OperatorInv, DrainInv, OutputInv, MainInv, LogInv, OperatorTypeOK
<1> QED  BY <1>1, OperatorInvariant, PTL

(* Every logger keeps the level that the configuration gives to its name,  *)
(* although all are built from one zap.Config (GetLogger, GetNamedLogger). *)
THEOREM LevelsKept == OperatorSpec => []LoggersKeepLevels
<1>1. OperatorInv => LoggersKeepLevels
  BY DEF OperatorInv, LogInv, LevelFor, LoggersKeepLevels
<1> QED  BY <1>1, OperatorInvariant, PTL

(* The manager serves only with a sound deployment, sound plugins and all  *)
(* of its loggers made (main, NewNodeReconciler, NewDrainManager).         *)
THEOREM ServesSound == OperatorSpec => []ServesOnlySound
<1>1. OperatorInv => ServesOnlySound
  <2> SUFFICES ASSUME OperatorInv, main = "serving"
               PROVE  /\ sound /\ life = "up"
                      /\ {"setup", "node", "drain-plugin-client"} \subseteq DOMAIN loggers
                      /\ dep.webhooks => "node-webhook" \in DOMAIN loggers
    BY DEF ServesOnlySound
  <2>1. /\ life = "up" /\ {"setup", "node", "drain-plugin-client"} \subseteq DOMAIN loggers
        /\ dep.webhooks => "node-webhook" \in DOMAIN loggers
    BY DEF OperatorInv, MainInv
  <2>2. /\ \A f \in PluginFiles : InfoOk(f)
        /\ \A f, g \in PluginFiles : info[f].id = info[g].id => f = g
    BY <2>1, UpIsSound DEF OperatorInv
  <2>3. /\ ~ConfigFails(dep) /\ LogConfigOk(Koanf(dep))
        /\ "missing" \notin {dep.webhookCert, dep.metricsCert}
    BY DEF OperatorInv, MainInv
  <2>4. sound
    BY <2>2, <2>3 DEF OperatorInv, MainInv, Sound
  <2> QED  BY <2>1, <2>4
<1> QED  BY <1>1, OperatorInvariant, PTL

(* Wrap's adapter of each of the operator's loggers writes or drops what   *)
(* go-plugin was told it would, and never copies a plugin's stderr.        *)
THEOREM AdaptersFaithful == OperatorSpec => []AdapterFaithful
<1>1. OperatorInv => AdapterFaithful
  <2> SUFFICES ASSUME OperatorInv, NEW n \in DOMAIN loggers
               PROVE  cells[loggers[n]] \in FaithfulLevels
    BY DEF AdapterFaithful
  <2>1. cells[loggers[n]] \in LoggerLevels
    BY DEF OperatorInv, LogInv
  <2> QED  BY Zenon, <2>1, AdapterConsistent DEF FaithfulLevels, LoggerLevels
<1> QED  BY <1>1, OperatorInvariant, PTL

(* What a plugin prints is written at the level the plugin gave it or      *)
(* dropped as being below the logger's, and with all of its arguments.     *)
THEOREM LogsLossless == OperatorSpec => []NothingLost
<1>1. ArgLists \subseteq Seq(ArgKinds)
  <2>1. ASSUME NEW n \in Nat, NEW args \in [1..n -> ArgKinds]
        PROVE  args \in Seq(ArgKinds)
    OBVIOUS
  <2>2. 0..5 \subseteq Nat
    OBVIOUS
  <2> QED  BY Zenon, <2>1, <2>2 DEF ArgLists
<1>2. OperatorInv => NothingLost
  <2> SUFFICES ASSUME OperatorInv, NEW n \in DOMAIN loggers
               PROVE  cells[loggers[n]] \in LosslessLevels
    BY DEF NothingLost
  <2>1. cells[loggers[n]] \in LoggerLevels
    BY DEF OperatorInv, LogInv
  <2>2. LoggerLevels \subseteq Int
    BY DEF LoggerLevels, TraceLevel, DebugLevel, FatalLevel
  <2> QED  BY Zenon, <1>1, <2>1, <2>2, LinesKept, ArgumentsKept DEF LosslessLevels
<1> QED  BY <1>2, OperatorInvariant, PTL

(* When LoadConfig has returned, the configuration it leaves is the one    *)
(* that the ranking of the layers gives, and the check interval that the   *)
(* controller will read is a duration.                                     *)
THEOREM PrecedenceHolds == OperatorSpec => []ConfigPrecedence
<1>1. OperatorInv => ConfigPrecedence
  <2> SUFFICES ASSUME OperatorInv, main = "logger"
               PROVE  /\ \A key \in Keys : Field(koanf, key) = Decided(dep, key)
                      /\ Value(koanf, "reboot.checkInterval") \in {"12h", "1h"}
    BY Zenon DEF ConfigPrecedence
  <2>1. dep \in Deployments /\ koanf = Koanf(dep) /\ ~ConfigFails(dep)
    BY DEF OperatorInv, MainInv
  <2>2. IsSource(dep)
    BY Zenon, <2>1, DeploymentsAssumption
  <2> QED  BY Zenon, <2>1, <2>2, RankingDecides, IntervalDecodes
<1> QED  BY <1>1, OperatorInvariant, PTL

=============================================================================
