SPECIFICATION FairOperatorSpec
CONSTANTS
    Files = {"sub", "a.so", "b.so", "readme"}
    NoFile = "no file"
    Ids = {"i", "j"}
    NoId = ""
    Entries <- MCEntries
    Infos <- MCInfos
    Chatty = {"a.so"}
    Lines <- MCLines
    Deployments <- MCDeployments
    NoLine = NoLine
    PipeSize = 1
    MaxLines = 2
    MaxFaults = 1
    MaxSetbacks = 1
CHECK_DEADLOCK FALSE
INVARIANTS OperatorTypeOK InitBeforeUse AllRegistered OkMeansAll LoggersKeepLevels ConfigPrecedence AdapterFaithful  ServesOnlySound
PROPERTIES PartySpec EventuallyServes PluginCallReturns
