---------------------------- MODULE DrainManager ----------------------------
(***************************************************************************)
(* The drain manager (internal/utils/drain-manager.go): it starts and      *)
(* initialises the plugins of /plugins when the operator starts, and the   *)
(* reconciler then calls IsHealthy, IsDrainOk, RunPreDrain and             *)
(* RunPostDrain, each a loop over the plugins in Go's random map order.    *)
(*                                                                         *)
(* A call of a plugin is a gRPC request (api/plugins): the client sends it *)
(* (Invoke), the plugin's process serves it (Serve), and the client sees   *)
(* the answer or a failure (Outcome).  A failure may hide that the request *)
(* was served.  A plugin that dies stays dead until the operator restarts. *)
(*                                                                         *)
(* Simplifications: the calls are about one node; events and logs are left *)
(* out (PluginOutput has the plugins' own output); a plugin's answers are  *)
(* free, but its PluginInfo and Init fail only as faults; a plugin file    *)
(* always reports the same info; a request that fails is not served later. *)
(***************************************************************************)
EXTENDS Naturals, Sequences

CONSTANTS
    Files,      \* the files of /plugins
    NoFile,     \* no file
    Ids,        \* plugin IDs
    NoId,       \* the empty plugin ID
    Entries,    \* /plugins as os.ReadDir lists it
    Infos,      \* what the plugins' PluginInfo may return, by file
    MaxFaults   \* bound on failing calls, failing Inits and dying plugins

ASSUME PluginsAssumption ==
    /\ NoFile \notin Files /\ NoId \notin Ids
    /\ Entries \in Seq([file : Files, dir : BOOLEAN, so : BOOLEAN])
    /\ \A i, j \in 1..Len(Entries) : Entries[i].file = Entries[j].file => i = j
    /\ MaxFaults \in Nat

VARIABLES
    info,          \* what PluginInfo returns for each file
    life,          \* "down", "loading", "up", or "failed" to load
    at, step,      \* loadPluginsFromDir: the entry, and where initPlugin is
    proc,          \* the plugins' processes: "none", "up", "dead"
    inited,        \* plugins whose process has run Init
    drainClients,  \* ID to file of the registered plugins
    pluginFileId,  \* file to ID of the registered plugins
    call,          \* the method the reconciler is calling
    rpc,           \* the request to a plugin that is under way
    result,        \* what the last method returned
    heard,         \* history: was each plugin "for" or "against" in this call?
    owed,          \* history: plugins told PreDrain and not PostDrain since
    faults

drainVars == <<info, life, at, step, proc, inited, drainClients, pluginFileId,
               call, rpc, result, heard, owed, faults>>

Formats == {"unspecified", "json", "yaml", "other"}

ASSUME InfosAssumption == Infos \subseteq [Files -> [id : Ids \cup {NoId}, format : Formats]]

Ops == {"IsHealthy", "IsDrainOk", "PreDrain", "PostDrain"}
Methods == {"PluginInfo", "Init", "IsSupported"} \cup Ops

Rpcs == [file : Files \cup {NoFile}, method : Methods \cup {"none"},
         at : {"none", "sent", "served"}, ans : {"yes", "no", "error"}]
Calls == [op : Ops \cup {"none"}, todo : SUBSET Ids, nodes : BOOLEAN,
          ok : BOOLEAN, errs : BOOLEAN]
NoRpc == [file |-> NoFile, method |-> "none", at |-> "none", ans |-> "error"]
NoCall == [op |-> "none", todo |-> {}, nodes |-> FALSE, ok |-> TRUE, errs |-> FALSE]

PluginFiles == {Entries[i].file : i \in {j \in 1..Len(Entries) : Entries[j].so /\ ~Entries[j].dir}}
Registered == {id \in Ids : drainClients[id] # NoFile}

(* IsHealthy and IsDrainOk ask every plugin and collect the errors;        *)
(* RunPreDrain and RunPostDrain end at the first one.                      *)
CollectsAlways(op) == TRUE
Collects(op) == op \in {"IsHealthy", "IsDrainOk"}

Init ==
    /\ info \in Infos
    /\ life = "down" /\ at = 1 /\ step = "entry"
    /\ proc = [f \in Files |-> "none"]
    /\ inited = {}
    /\ drainClients = [id \in Ids |-> NoFile]
    /\ pluginFileId = [f \in Files |-> NoId]
    /\ call = NoCall /\ rpc = NoRpc /\ result = "none"
    /\ heard = [f \in Files |-> "none"]
    /\ owed = {}
    /\ faults = 0

Fault == faults < MaxFaults /\ faults' = faults + 1

loaderVars == <<life, at, step, drainClients, pluginFileId>>
callVars == <<call, result, heard>>

-----------------------------------------------------------------------------
(* A plugin call over gRPC.                                                *)

(* DrainClient and the generated client stub send the request.             *)
Invoke(f, m) == rpc' = [file |-> f, method |-> m, at |-> "sent", ans |-> "error"]

Replies(m) == IF m \in {"IsSupported", "IsHealthy", "IsDrainOk"}
              THEN {"yes", "no", "error"} ELSE {"yes", "error"}

(* The generated handler decodes the request and DrainServer calls the     *)
(* plugin.  A PreDrain that fails may have done half of its work.          *)
Serve(a) ==
    LET f == rpc.file IN
    /\ rpc.at = "sent" /\ proc[f] = "up" /\ a \in Replies(rpc.method)
    /\ rpc' = [rpc EXCEPT !.at = "served", !.ans = a]
    /\ inited' = IF rpc.method = "Init" /\ a = "yes" THEN inited \cup {f} ELSE inited
    /\ owed' = CASE rpc.method = "PreDrain" -> owed \cup {f}
                 [] rpc.method = "PostDrain" /\ a = "yes" -> owed \ {f}
                 [] OTHER -> owed
    /\ IF a = "error" /\ rpc.method \in {"PluginInfo", "Init"} THEN Fault ELSE UNCHANGED faults
    /\ UNCHANGED <<info, proc, loaderVars, callVars>>

(* What the client sees: the answer, or the failure of a dead process or   *)
(* of the connection.  gRPC drops the response of a call that failed.      *)
Outcome(a) ==
    \/ rpc.at = "served" /\ a = rpc.ans /\ UNCHANGED faults
    \/ rpc.at # "none" /\ proc[rpc.file] = "dead" /\ a = "error" /\ UNCHANGED faults
    \/ rpc.at # "none" /\ a = "error" /\ Fault

PluginDies(f) ==
    /\ proc[f] = "up"
    /\ Fault
    /\ proc' = [proc EXCEPT ![f] = "dead"]
    /\ inited' = inited \ {f}
    /\ UNCHANGED <<info, rpc, owed, loaderVars, callVars>>

-----------------------------------------------------------------------------
(* Loading, once per start of the operator.                                *)

LoadFails == life' = "failed" /\ rpc' = NoRpc /\ UNCHANGED <<at, step, drainClients, pluginFileId>>

(* /plugins may not exist (no entries), or not be readable.                *)
NewDrainManager ==
    /\ life = "down"
    /\ at' = 1 /\ step' = "entry"
    /\ \/ life' = "loading" /\ UNCHANGED faults
       \/ life' = "failed" /\ Fault
    /\ UNCHANGED <<info, proc, inited, drainClients, pluginFileId, rpc, owed, callVars>>

(* Directories and files that are not called *.so are skipped.             *)
LoadEntry ==
    /\ life = "loading" /\ step = "entry"
    /\ \/ at > Len(Entries) /\ life' = "up" /\ UNCHANGED <<at, step>>
       \/ /\ at <= Len(Entries) /\ Entries[at].file \notin PluginFiles
          /\ at' = at + 1 /\ UNCHANGED <<life, step>>
       \/ /\ at <= Len(Entries) /\ Entries[at].file \in PluginFiles
          /\ step' = "client" /\ UNCHANGED <<life, at>>
    /\ UNCHANGED <<info, proc, inited, drainClients, pluginFileId, rpc, owed, faults, callVars>>

(* Client starts the process and shakes hands, Ping and Dispense follow.   *)
StartClient ==
    LET f == Entries[at].file IN
    /\ life = "loading" /\ step = "client"
    /\ proc' = [proc EXCEPT ![f] = "up"]
    /\ Invoke(f, "PluginInfo")
    /\ step' = "info"
    /\ UNCHANGED <<info, inited, owed, faults, life, at, drainClients, pluginFileId, callVars>>

ClientFails ==
    LET f == Entries[at].file IN
    /\ life = "loading" /\ step = "client"
    /\ Fault
    /\ \/ UNCHANGED proc
       \/ proc' = [proc EXCEPT ![f] = "up"]
    /\ LoadFails
    /\ UNCHANGED <<info, inited, owed, callVars>>

(* The checks of initPlugin, with GetPluginConfig's on the format.         *)
InfoOk(f) == info[f].id # NoId /\ info[f].format \in {"json", "yaml"}

GotPluginInfo(a) ==
    LET f == Entries[at].file IN
    /\ life = "loading" /\ step = "info"
    /\ Outcome(a)
    /\ IF a = "yes" /\ InfoOk(f)
       THEN /\ Invoke(f, "Init")
            /\ step' = "init"
            /\ UNCHANGED <<life, at, drainClients, pluginFileId>>
       ELSE LoadFails
    /\ UNCHANGED <<info, proc, inited, owed, callVars>>

GotInitUnchecked(a) ==
    /\ life = "loading" /\ step = "init"
    /\ Outcome(a)
    /\ rpc' = NoRpc /\ step' = "register"
    /\ UNCHANGED <<info, proc, inited, owed, life, at, drainClients, pluginFileId, callVars>>
GotInit(a) ==
    /\ life = "loading" /\ step = "init"
    /\ Outcome(a)
    /\ IF a = "yes"
       THEN /\ rpc' = NoRpc
            /\ step' = "register"
            /\ UNCHANGED <<life, at, drainClients, pluginFileId>>
       ELSE LoadFails
    /\ UNCHANGED <<info, proc, inited, owed, callVars>>

TakenNever(id) == FALSE
Taken(id) == drainClients[id] # NoFile

Register ==
    LET f == Entries[at].file IN
    LET id == info[f].id IN
    /\ life = "loading" /\ step = "register"
    /\ IF Taken(id)
       THEN LoadFails
       ELSE /\ drainClients' = [drainClients EXCEPT ![id] = f]
            /\ pluginFileId' = [pluginFileId EXCEPT ![f] = id]
            /\ at' = at + 1
            /\ step' = "entry"
            /\ UNCHANGED <<life, rpc>>
    /\ UNCHANGED <<info, proc, inited, owed, faults, callVars>>

-----------------------------------------------------------------------------
(* The methods the reconciler calls.                                       *)

Return(r) == call' = NoCall /\ result' = r

(* IsHealthy looks at the cluster's nodes first.                           *)
Call(op) ==
    /\ life = "up" /\ call = NoCall
    /\ call' = [op |-> op, todo |-> Registered, nodes |-> op = "IsHealthy",
                ok |-> TRUE, errs |-> FALSE]
    /\ heard' = [f \in Files |-> "none"]
    /\ result' = "none"
    /\ UNCHANGED <<info, proc, inited, rpc, owed, faults, loaderVars>>

IsClusterNodesHealthy ==
    /\ call.nodes
    /\ \/ call' = [call EXCEPT !.nodes = FALSE] /\ UNCHANGED <<result, faults>>
       \/ Return("no") /\ UNCHANGED faults
       \/ Return("error") /\ Fault
    /\ UNCHANGED <<info, proc, inited, rpc, owed, heard, loaderVars>>

NextPlugin(id) ==
    /\ ~call.nodes /\ rpc = NoRpc /\ id \in call.todo
    /\ Invoke(drainClients[id], "IsSupported")
    /\ call' = [call EXCEPT !.todo = @ \ {id}]
    /\ UNCHANGED <<info, proc, inited, result, heard, owed, faults, loaderVars>>

Hear(v) == heard' = [heard EXCEPT ![rpc.file] = v]

(* A plugin that failed or refused: collected, or the end of the method.   *)
Refused(a) ==
    /\ rpc' = NoRpc
    /\ Hear("against")
    /\ IF Collects(call.op)
       THEN /\ call' = [call EXCEPT !.ok = FALSE, !.errs = @ \/ a = "error"]
            /\ UNCHANGED result
       ELSE Return("error")

(* A plugin that does not support this cluster takes no part.              *)
GotIsSupported(a) ==
    /\ call # NoCall /\ rpc.method = "IsSupported"
    /\ Outcome(a)
    /\ CASE a = "yes" -> Invoke(rpc.file, call.op) /\ UNCHANGED <<callVars, owed>>
         [] a = "no" -> /\ rpc' = NoRpc
                        /\ Hear("for")
                        /\ owed' = IF call.op = "PostDrain" THEN owed \ {rpc.file} ELSE owed
                        /\ UNCHANGED <<call, result>>
         [] OTHER -> Refused("error") /\ UNCHANGED owed
    /\ UNCHANGED <<info, proc, inited, loaderVars>>

GotAnswer(a) ==
    /\ call # NoCall /\ rpc.method = call.op
    /\ Outcome(a)
    /\ IF a = "yes"
       THEN rpc' = NoRpc /\ Hear("for") /\ UNCHANGED <<call, result>>
       ELSE Refused(a)
    /\ UNCHANGED <<info, proc, inited, owed, loaderVars>>

VerdictErrorsIgnored == IF call.ok \/ call.errs THEN "ok" ELSE "no"
Verdict == IF call.errs THEN "error" ELSE IF call.ok THEN "ok" ELSE "no"

Finish ==
    /\ call # NoCall /\ ~call.nodes /\ call.todo = {} /\ rpc = NoRpc
    /\ Return(Verdict)
    /\ UNCHANGED <<info, proc, inited, rpc, heard, owed, faults, loaderVars>>

-----------------------------------------------------------------------------
(* The operator's process ends, after a failure to load or at any time,    *)
(* and its plugins with it.  It is restarted.                              *)
Stop ==
    /\ life # "down"
    /\ life' = "down"
    /\ proc' = [f \in Files |-> "none"]
    /\ inited' = {}
    /\ drainClients' = [id \in Ids |-> NoFile]
    /\ pluginFileId' = [f \in Files |-> NoId]
    /\ rpc' = NoRpc
    /\ IF call = NoCall THEN UNCHANGED <<call, result>> ELSE Return("error")
    /\ UNCHANGED <<info, at, step, heard, owed, faults>>

LoadNext ==
    \/ LoadEntry \/ StartClient \/ ClientFails \/ Register
    \/ \E a \in {"yes", "no", "error"} : GotPluginInfo(a) \/ GotInit(a)

CallNext ==
    \/ IsClusterNodesHealthy \/ Finish
    \/ \E id \in Ids : NextPlugin(id)
    \/ \E a \in {"yes", "no", "error"} : GotIsSupported(a) \/ GotAnswer(a)

DrainNext ==
    \/ NewDrainManager \/ LoadNext \/ CallNext \/ Stop
    \/ \E op \in Ops : Call(op)
    \/ \E a \in {"yes", "no", "error"} : Serve(a)
    \/ \E f \in Files : PluginDies(f)

DrainSpec == Init /\ [][DrainNext]_drainVars

-----------------------------------------------------------------------------
(* Properties.                                                             *)

(* The variables have their types.                                         *)
DrainTypeOK ==
    /\ info \in Infos
    /\ life \in {"down", "loading", "up", "failed"}
    /\ at \in 1..(Len(Entries) + 1)
    /\ step \in {"entry", "client", "info", "init", "register"}
    /\ proc \in [Files -> {"none", "up", "dead"}]
    /\ inited \subseteq Files
    /\ drainClients \in [Ids -> Files \cup {NoFile}]
    /\ pluginFileId \in [Files -> Ids \cup {NoId}]
    /\ call \in Calls /\ rpc \in Rpcs
    /\ result \in {"none", "ok", "no", "error"}
    /\ heard \in [Files -> {"none", "for", "against"}]
    /\ owed \subseteq Files
    /\ faults \in 0..MaxFaults

(* A plugin's process is asked nothing but PluginInfo and Init before its  *)
(* Init has succeeded: its logger is nil until then (initPlugin, and the   *)
(* registration that follows it).                                          *)
InitBeforeUse ==
    rpc.method \in {"IsSupported"} \cup Ops =>
        rpc.file \in inited \/ proc[rpc.file] # "up"

(* The manager runs only with every plugin file of the directory           *)
(* registered, under an ID of its own, in both maps                        *)
(* (loadPluginsFromDir).                                                   *)
AllRegistered ==
    life = "up" => \A f \in PluginFiles :
        /\ pluginFileId[f] = info[f].id
        /\ \A id \in Ids : drainClients[id] = f <=> id = info[f].id

(* A method that returned "ok" has the word of every plugin of the         *)
(* directory, each of which agreed or does not support this cluster:       *)
(* no plugin was passed over, failed or overruled (IsHealthy, IsDrainOk,   *)
(* RunPreDrain, RunPostDrain).                                             *)
OkMeansAll ==
    result = "ok" => \A f \in PluginFiles : heard[f] = "for"

(* The plugins together keep the promises of PluginParty: nobody is told   *)
(* PreDrain or PostDrain after one failed, and nobody who was told         *)
(* PreDrain, even by a call that failed or before a restart of the         *)
(* operator, is forgotten by a RunPostDrain that succeeds, unless it says  *)
(* by then that it does not support the cluster.                           *)
Party == INSTANCE PluginParty WITH
    op <- call.op,
    owed <- owed # {},
    against <- \E f \in Files : heard[f] = "against"
PartySpec == Party!PartySpec
=============================================================================
