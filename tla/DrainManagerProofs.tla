------------------------- MODULE DrainManagerProofs -------------------------
(***************************************************************************)
(* Proofs about the drain manager, for every plugin directory, every       *)
(* plugin information and every bound on faults: a plugin is asked nothing *)
(* before its Init, all plugins are registered when the manager is up,     *)
(* "ok" is the answer of all of them, and to the reconciler they are one   *)
(* party (PluginParty).                                                    *)
(*                                                                         *)
(* None of this is inductive as it stands. DrainInv adds which plugin the  *)
(* request under way is for, what is known of a plugin at each step of the *)
(* loader, and which plugins a method's loop has heard.                    *)
(***************************************************************************)
EXTENDS DrainManager, TLAPS

(* The file the loader is at.                                              *)
Cur == Entries[at].file

(* A plugin that loadPluginsFromDir is done with: registered under the ID  *)
(* it reports.                                                             *)
Loaded(f) == /\ pluginFileId[f] = info[f].id
             /\ info[f].id \in Ids
             /\ drainClients[info[f].id] = f

(* The request under way: the loader makes it of the file it is at, and    *)
(* Init and the registration come after a good PluginInfo; a method makes  *)
(* it of a registered plugin and asks IsSupported or its own question.     *)
RpcInv ==
    /\ rpc.at = "none" <=> rpc = NoRpc
    /\ rpc # NoRpc => rpc.file \in PluginFiles
    /\ life \in {"down", "failed"} => rpc = NoRpc /\ call = NoCall
    /\ life = "loading" =>
          /\ call = NoCall
          /\ step # "entry" => at \in 1..Len(Entries) /\ Cur \in PluginFiles
          /\ step = "info" => rpc.file = Cur /\ rpc.method = "PluginInfo"
          /\ step = "init" => rpc.file = Cur /\ rpc.method = "Init"
          /\ step \notin {"info", "init"} => rpc = NoRpc
          /\ step \in {"init", "register"} => InfoOk(Cur)
    /\ life = "up" /\ rpc # NoRpc =>
          /\ call # NoCall /\ rpc.method \in {"IsSupported", call.op}
          /\ \E id \in Ids : drainClients[id] = rpc.file

(* The process of a plugin has run Init, or is not there to be asked.      *)
Ready(f) == f \in inited \/ proc[f] # "up"

(* A registered plugin, one about to be registered, and one whose good     *)
(* answer to Init is still to be read, are ready.                          *)
InitInv ==
    /\ \A id \in Ids : drainClients[id] # NoFile => Ready(drainClients[id])
    /\ life = "loading" /\ step = "register" => Ready(Cur)
    /\ life = "loading" /\ step = "init" /\ rpc.at = "served" /\ rpc.ans = "yes" => Ready(Cur)

(* drainClients has a plugin under the ID it reports; the loader has       *)
(* registered the plugins before the file it is at and no others; when it  *)
(* is done, all.                                                           *)
RegInv ==
    /\ \A id \in Ids : drainClients[id] # NoFile =>
          drainClients[id] \in PluginFiles /\ info[drainClients[id]].id = id
    /\ life = "down" => \A id \in Ids : drainClients[id] = NoFile
    /\ life = "loading" =>
          /\ \A id \in Ids : drainClients[id] # NoFile =>
                \E i \in 1..Len(Entries) : i < at /\ Entries[i].file = drainClients[id]
          /\ \A i \in 1..Len(Entries) :
                i < at /\ Entries[i].file \in PluginFiles => Loaded(Entries[i].file)
    /\ life = "up" => \A f \in PluginFiles : Loaded(f)

(* In a call, a plugin has not been heard exactly if its turn is to come   *)
(* or it is being asked, never both; an objection is remembered by         *)
(* IsHealthy and IsDrainOk and ends the other two. A method that returned  *)
(* "ok" heard all plugins for it.                                          *)
CallInv ==
    /\ call # NoCall =>
          /\ life = "up" /\ call.op \in Ops /\ result = "none"
          /\ call.todo \subseteq Registered
          /\ call.nodes => rpc = NoRpc
          /\ \A f \in PluginFiles :
                /\ heard[f] = "none" <=> info[f].id \in call.todo \/ rpc.file = f
                /\ ~(info[f].id \in call.todo /\ rpc.file = f)
          /\ (\E f \in Files : heard[f] = "against") => ~call.ok /\ Collects(call.op)
    /\ result = "ok" => \A f \in PluginFiles : heard[f] = "for"

(* In RunPostDrain a plugin that was heard, or has served the request, is  *)
(* owed nothing any more.                                                  *)
OwedInv ==
    /\ owed \subseteq PluginFiles
    /\ call.op = "PostDrain" => \A f \in owed : heard[f] # "for"
    /\ rpc.method = "PostDrain" /\ rpc.at = "served" /\ rpc.ans = "yes" => rpc.file \notin owed

(* The inductive invariant.                                                *)
DrainInv == DrainTypeOK /\ RpcInv /\ InitInv /\ RegInv /\ CallInv /\ OwedInv

-----------------------------------------------------------------------------
(* Facts about the constants, the records and the parts of actions.       *)

(* The entries of /plugins are known files, and every plugin file has one. *)
LEMMA FileFacts ==
    /\ Len(Entries) \in Nat
    /\ \A i \in 1..Len(Entries) : Entries[i].file \in Files
    /\ PluginFiles \subseteq Files
    /\ \A f \in PluginFiles : \E i \in 1..Len(Entries) : Entries[i].file = f
    /\ NoFile \notin PluginFiles
<1>1. ASSUME NEW S, Entries \in Seq(S)
      PROVE  Len(Entries) \in Nat /\ \A i \in 1..Len(Entries) : Entries[i] \in S
  BY <1>1
<1>2. /\ Len(Entries) \in Nat
      /\ \A i \in 1..Len(Entries) : Entries[i] \in [file : Files, dir : BOOLEAN, so : BOOLEAN]
  BY Zenon, <1>1, PluginsAssumption
<1> QED  BY <1>2, PluginsAssumption DEF PluginFiles

(* No call, no request and a new request have their types.                 *)
LEMMA RecordFacts ==
    /\ NoCall \in Calls
    /\ NoRpc \in Rpcs
    /\ \A f \in Files, m \in Methods :
          [file |-> f, method |-> m, at |-> "sent", ans |-> "error"] \in Rpcs
BY DEF NoCall, Calls, NoRpc, Rpcs

(* The bound on faults is kept.                                            *)
LEMMA FaultFacts ==
    faults \in 0..MaxFaults /\ (Fault \/ UNCHANGED faults) => faults' \in 0..MaxFaults
BY PluginsAssumption DEF Fault

(* The call keeps its type when a plugin refuses or fails.                 *)
LEMMA RefusedOk ==
    ASSUME call \in Calls, NEW a \in {"no", "error"}, Refused(a)
    PROVE  call' \in Calls
<1>1. CASE Collects(call.op)
  <2>1. call' = [call EXCEPT !.ok = FALSE, !.errs = call.errs \/ a = "error"]
    BY <1>1 DEF Refused
  <2>2. (call.errs \/ a = "error") \in BOOLEAN
    OBVIOUS
  <2> QED  BY Zenon, <2>1, <2>2 DEF Calls
<1>2. CASE ~Collects(call.op)
  BY <1>2, RecordFacts DEF Refused, Return
<1> QED  BY <1>1, <1>2

(* A refusal leaves the method running or ends it; it never changes which  *)
(* method it is.                                                           *)
LEMMA OpKept ==
    ASSUME DrainInv, NEW a \in {"no", "error"}, Refused(a)
    PROVE  call'.op \in {call.op, "none"}
<1>1. CASE Collects(call.op)
  BY Zenon, <1>1 DEF DrainInv, DrainTypeOK, Calls, Refused
<1>2. CASE ~Collects(call.op)
  BY <1>2 DEF Refused, Return, NoCall
<1> QED  BY <1>1, <1>2

(* A plugin that is for it is heard, and CallInv is kept.                  *)
LEMMA HeardFor ==
    ASSUME DrainInv, call # NoCall, rpc # NoRpc,
           rpc' = NoRpc, Hear("for"), UNCHANGED <<call, result, info, life, drainClients>>
    PROVE  CallInv'
BY FileFacts DEF DrainInv, DrainTypeOK, CallInv, Hear, NoRpc, Registered

(* A plugin that refuses or fails is heard, and CallInv is kept: the loop  *)
(* remembers it or ends.                                                   *)
LEMMA HeardAgainst ==
    ASSUME DrainInv, call # NoCall, rpc # NoRpc,
           NEW a \in {"no", "error"}, Refused(a), UNCHANGED <<info, life, drainClients>>
    PROVE  CallInv'
<1>1. CASE Collects(call.op)
  <2>1. /\ call'.op = call.op /\ call'.todo = call.todo /\ call'.nodes = call.nodes /\ ~call'.ok
        /\ UNCHANGED result /\ rpc' = NoRpc /\ Hear("against")
    BY Zenon, <1>1 DEF DrainInv, DrainTypeOK, Calls, Refused
  <2>2. /\ rpc.file \in PluginFiles /\ rpc.file \in Files /\ heard[rpc.file] = "none"
        /\ info[rpc.file].id \notin call.todo
    BY FileFacts DEF DrainInv, RpcInv, CallInv
  <2>3. \A f \in Files : heard'[f] = IF f = rpc.file THEN "against" ELSE heard[f]
    BY <2>1, <2>2 DEF DrainInv, DrainTypeOK, Hear
  <2> QED
    BY <1>1, <2>1, <2>2, <2>3, FileFacts DEF DrainInv, CallInv, NoRpc, Registered
<1>2. CASE ~Collects(call.op)
  BY <1>2 DEF Refused, Return, CallInv, NoCall
<1> QED  BY <1>1, <1>2

-----------------------------------------------------------------------------
(* Every action keeps the invariant, conjunct by conjunct.                *)

(* NewDrainManager starts to load, or fails to read /plugins.              *)
LEMMA NewDrainManagerKeeps ==
    ASSUME DrainInv, NewDrainManager
    PROVE  DrainInv'
<1>1. DrainTypeOK'
  BY FaultFacts DEF DrainInv, DrainTypeOK, NewDrainManager, callVars
<1>2. RpcInv'
  BY DEF DrainInv, RpcInv, Cur, InfoOk, NoRpc, NoCall, NewDrainManager, loaderVars, callVars
<1>3. InitInv'
  BY DEF DrainInv, InitInv, Ready, Cur, NoRpc, NewDrainManager, loaderVars, callVars
<1>4. RegInv'
  BY DEF DrainInv, RegInv, Loaded, NewDrainManager, loaderVars, callVars
<1>5. CallInv'
  BY DEF DrainInv, CallInv, NoRpc, NoCall, Registered, NewDrainManager, loaderVars, callVars
<1>6. OwedInv'
  BY DEF DrainInv, OwedInv, NoRpc, NoCall, NewDrainManager, loaderVars, callVars
<1> QED  BY <1>1, <1>2, <1>3, <1>4, <1>5, <1>6 DEF DrainInv

(* loadPluginsFromDir passes over an entry, comes to a plugin or is done.  *)
LEMMA LoadEntryKeeps ==
    ASSUME DrainInv, LoadEntry
    PROVE  DrainInv'
<1>1. DrainTypeOK'
  BY DEF DrainInv, DrainTypeOK, LoadEntry, callVars
<1>2. RpcInv'
  BY DEF DrainInv, RpcInv, DrainTypeOK, Cur, InfoOk, NoRpc, NoCall, LoadEntry, loaderVars,
     callVars
<1>3. InitInv'
  BY DEF DrainInv, InitInv, Ready, Cur, NoRpc, LoadEntry, loaderVars, callVars
<1>4. RegInv'
  BY FileFacts DEF DrainInv, RegInv, DrainTypeOK, Loaded, LoadEntry, loaderVars, callVars
<1>5. CallInv'
  BY DEF DrainInv, CallInv, NoRpc, NoCall, Registered, LoadEntry, loaderVars, callVars
<1>6. OwedInv'
  BY DEF DrainInv, OwedInv, NoRpc, NoCall, LoadEntry, loaderVars, callVars
<1> QED  BY <1>1, <1>2, <1>3, <1>4, <1>5, <1>6 DEF DrainInv

(* The process of a plugin is started and asked for its PluginInfo. It is  *)
(* a plugin that is not registered yet.                                    *)
LEMMA StartClientKeeps ==
    ASSUME DrainInv, StartClient
    PROVE  DrainInv'
<1>1. DrainTypeOK'
  BY RecordFacts, FileFacts DEF DrainInv, DrainTypeOK, RpcInv, Cur, InfoOk, NoRpc, NoCall,
     StartClient, Invoke, Methods, callVars
<1>2. RpcInv'
  BY DEF DrainInv, RpcInv, Cur, InfoOk, NoRpc, NoCall, StartClient, Invoke, loaderVars,
     callVars
<1>3. InitInv'
  <2>1. \A id \in Ids : drainClients[id] # NoFile => drainClients[id] # Cur
    BY PluginsAssumption DEF DrainInv, RpcInv, RegInv, Cur, StartClient
  <2> QED  BY <2>1 DEF DrainInv, InitInv, Ready, Cur, StartClient
<1>4. RegInv'
  BY DEF DrainInv, RegInv, Loaded, StartClient, Invoke, loaderVars, callVars
<1>5. CallInv'
  BY DEF DrainInv, CallInv, NoRpc, NoCall, Registered, StartClient, Invoke, loaderVars,
     callVars
<1>6. OwedInv'
  BY DEF DrainInv, OwedInv, NoRpc, NoCall, StartClient, Invoke, loaderVars, callVars
<1> QED  BY <1>1, <1>2, <1>3, <1>4, <1>5, <1>6 DEF DrainInv

(* The process of a plugin does not start, and loading fails.              *)
LEMMA ClientFailsKeeps ==
    ASSUME DrainInv, ClientFails
    PROVE  DrainInv'
<1>1. DrainTypeOK'
  BY RecordFacts, FaultFacts DEF DrainInv, DrainTypeOK, ClientFails, LoadFails, callVars
<1>2. RpcInv'
  BY DEF DrainInv, RpcInv, Cur, InfoOk, NoRpc, NoCall, ClientFails, LoadFails, loaderVars,
     callVars
<1>3. InitInv'
  <2>1. \A id \in Ids : drainClients[id] # NoFile => drainClients[id] # Cur
    BY PluginsAssumption DEF DrainInv, RpcInv, RegInv, Cur, ClientFails
  <2> QED  BY <2>1 DEF DrainInv, DrainTypeOK, InitInv, Ready, Cur, ClientFails, LoadFails
<1>4. RegInv'
  BY DEF DrainInv, RegInv, Loaded, ClientFails, LoadFails, loaderVars, callVars
<1>5. CallInv'
  BY DEF DrainInv, CallInv, NoRpc, NoCall, Registered, ClientFails, LoadFails, loaderVars,
     callVars
<1>6. OwedInv'
  BY DEF DrainInv, OwedInv, NoRpc, NoCall, ClientFails, LoadFails, loaderVars, callVars
<1> QED  BY <1>1, <1>2, <1>3, <1>4, <1>5, <1>6 DEF DrainInv

(* initPlugin checks what PluginInfo returned and goes on to Init.         *)
LEMMA GotPluginInfoKeeps ==
    ASSUME DrainInv, NEW a \in {"yes", "no", "error"}, GotPluginInfo(a)
    PROVE  DrainInv'
<1>1. DrainTypeOK'
  BY RecordFacts, FaultFacts, FileFacts DEF DrainInv, DrainTypeOK, RpcInv, Cur, InfoOk,
     NoRpc, NoCall, GotPluginInfo, Outcome, LoadFails, Invoke, Methods, callVars
<1>2. RpcInv'
  BY DEF DrainInv, RpcInv, Cur, InfoOk, NoRpc, NoCall, GotPluginInfo, Outcome, LoadFails,
     Invoke, loaderVars, callVars
<1>3. InitInv'
  BY DEF DrainInv, InitInv, Ready, Cur, NoRpc, GotPluginInfo, Outcome, LoadFails, Invoke,
     loaderVars, callVars
<1>4. RegInv'
  <2>1. /\ life = "loading" /\ life' \in {"loading", "failed"}
        /\ UNCHANGED <<info, at, drainClients, pluginFileId>>
    BY DEF GotPluginInfo, LoadFails
  <2> QED  BY <2>1 DEF DrainInv, RegInv, Loaded
<1>5. CallInv'
  BY DEF DrainInv, CallInv, NoRpc, NoCall, Registered, GotPluginInfo, Outcome, LoadFails,
     Invoke, loaderVars, callVars
<1>6. OwedInv'
  BY DEF DrainInv, OwedInv, NoRpc, NoCall, GotPluginInfo, Outcome, LoadFails, Invoke,
     loaderVars, callVars
<1> QED  BY <1>1, <1>2, <1>3, <1>4, <1>5, <1>6 DEF DrainInv

(* initPlugin has the answer of Init.                                      *)
LEMMA GotInitKeeps ==
    ASSUME DrainInv, NEW a \in {"yes", "no", "error"}, GotInit(a)
    PROVE  DrainInv'
<1>1. DrainTypeOK'
  BY RecordFacts, FaultFacts DEF DrainInv, DrainTypeOK, GotInit, Outcome, LoadFails,
     callVars
<1>2. RpcInv'
  BY DEF DrainInv, RpcInv, Cur, InfoOk, NoRpc, NoCall, GotInit, Outcome, LoadFails,
     loaderVars, callVars
<1>3. InitInv'
  BY DEF DrainInv, InitInv, Ready, Cur, NoRpc, GotInit, Outcome, LoadFails, loaderVars,
     callVars
<1>4. RegInv'
  <2>1. /\ life = "loading" /\ life' \in {"loading", "failed"}
        /\ UNCHANGED <<info, at, drainClients, pluginFileId>>
    BY DEF GotInit, LoadFails
  <2> QED  BY <2>1 DEF DrainInv, RegInv, Loaded
<1>5. CallInv'
  BY DEF DrainInv, CallInv, NoRpc, NoCall, Registered, GotInit, Outcome, LoadFails,
     loaderVars, callVars
<1>6. OwedInv'
  BY DEF DrainInv, OwedInv, NoRpc, NoCall, GotInit, Outcome, LoadFails, loaderVars, callVars
<1> QED  BY <1>1, <1>2, <1>3, <1>4, <1>5, <1>6 DEF DrainInv

(* The plugin is registered unless its ID is taken. This is where the      *)
(* entries before the next one become all registered.                      *)
LEMMA RegisterKeeps ==
    ASSUME DrainInv, Register
    PROVE  DrainInv'
<1>1. DrainTypeOK'
  <2>1. Cur \in Files /\ at \in 1..Len(Entries) /\ info[Cur].id \in Ids \cup {NoId}
    BY FileFacts, InfosAssumption DEF DrainInv, DrainTypeOK, RpcInv, Register
  <2>2. CASE Taken(info[Cur].id)
    BY <2>2, RecordFacts DEF DrainInv, DrainTypeOK, Register, LoadFails, Cur, callVars
  <2>3. CASE ~Taken(info[Cur].id)
    BY <2>1, <2>3 DEF DrainInv, DrainTypeOK, Register, Cur, callVars
  <2> QED  BY <2>2, <2>3
<1>2. RpcInv'
  BY DEF DrainInv, RpcInv, Cur, InfoOk, NoRpc, NoCall, Register, LoadFails, Taken, callVars
<1>3. InitInv'
  BY DEF DrainInv, InitInv, DrainTypeOK, Ready, Cur, NoRpc, Register, LoadFails, Taken,
     loaderVars, callVars
<1>4. RegInv'
  <2>1. CASE Taken(info[Cur].id)
    <3>1. life' = "failed" /\ UNCHANGED <<info, drainClients>>
      BY <2>1 DEF Register, LoadFails, Cur
    <3> QED  BY <3>1 DEF DrainInv, RegInv
  <2>2. CASE ~Taken(info[Cur].id)
    <3> DEFINE id == info[Cur].id
    <3>1. /\ Cur \in PluginFiles /\ Cur \in Files /\ at \in 1..Len(Entries)
          /\ life = "loading" /\ life' = life
          /\ id \in Ids /\ drainClients[id] = NoFile
          /\ info' = info /\ at' = at + 1
          /\ drainClients' = [drainClients EXCEPT ![id] = Cur]
          /\ pluginFileId' = [pluginFileId EXCEPT ![Cur] = id]
      BY <2>2, FileFacts, InfosAssumption DEF DrainInv, DrainTypeOK, RpcInv, InfoOk,
         Register, Cur, Taken
    <3>2. \A j \in Ids : drainClients'[j] = IF j = id THEN Cur ELSE drainClients[j]
      BY <3>1 DEF DrainInv, DrainTypeOK
    <3>3. \A f \in Files : pluginFileId'[f] = IF f = Cur THEN id ELSE pluginFileId[f]
      BY <3>1 DEF DrainInv, DrainTypeOK
    <3>4. \A f \in PluginFiles : Loaded(f) => Loaded(f)'
      BY <3>1, <3>2, <3>3, FileFacts DEF Loaded
    <3>5. \A f \in PluginFiles : f = Cur => Loaded(f)'
      BY <3>1, <3>2, <3>3 DEF Loaded
    <3>6. \A j \in Ids : drainClients'[j] # NoFile =>
             drainClients'[j] \in PluginFiles /\ info'[drainClients'[j]].id = j
      BY <3>1, <3>2 DEF DrainInv, RegInv
    <3>7. \A j \in Ids : drainClients'[j] # NoFile =>
             \E i \in 1..Len(Entries) : i < at' /\ Entries[i].file = drainClients'[j]
      BY <3>1, <3>2 DEF DrainInv, RegInv, Cur
    <3>8. \A i \in 1..Len(Entries) :
             i < at' /\ Entries[i].file \in PluginFiles => Loaded(Entries[i].file)'
      <4> SUFFICES ASSUME NEW i \in 1..Len(Entries), i < at', Entries[i].file \in PluginFiles
                   PROVE  Loaded(Entries[i].file)'
        OBVIOUS
      <4>1. CASE i < at
        BY <4>1, <3>1, <3>4 DEF DrainInv, RegInv
      <4>2. CASE i = at
        BY <4>2, <3>5 DEF Cur
      <4> QED  BY <4>1, <4>2, <3>1
    <3> QED  BY SMTT(30), <3>1, <3>6, <3>7, <3>8 DEF RegInv
  <2> QED  BY <2>1, <2>2
<1>5. CallInv'
  BY DEF DrainInv, CallInv, NoRpc, NoCall, Registered, Register, LoadFails, Taken,
     loaderVars, callVars
<1>6. OwedInv'
  BY DEF DrainInv, OwedInv, NoRpc, NoCall, Register, LoadFails, Taken, loaderVars, callVars
<1> QED  BY <1>1, <1>2, <1>3, <1>4, <1>5, <1>6 DEF DrainInv

(* The reconciler calls a method; nobody has been heard.                   *)
LEMMA CallKeeps ==
    ASSUME DrainInv, NEW op \in Ops, Call(op)
    PROVE  DrainInv'
<1>1. DrainTypeOK'
  BY RecordFacts, FaultFacts, FileFacts DEF DrainInv, DrainTypeOK, Call, Registered, Calls,
     loaderVars, callVars
<1>2. RpcInv'
  BY DEF DrainInv, RpcInv, Cur, InfoOk, NoRpc, NoCall, Call, Registered, loaderVars,
     callVars
<1>3. InitInv'
  BY DEF DrainInv, InitInv, Ready, Cur, NoRpc, Call, Registered, loaderVars, callVars
<1>4. RegInv'
  BY DEF DrainInv, RegInv, Loaded, Call, Registered, loaderVars, callVars
<1>5. CallInv'
  <2>1. /\ life = "up" /\ UNCHANGED <<life, info, drainClients, rpc>> /\ rpc = NoRpc
        /\ call' = [op |-> op, todo |-> Registered, nodes |-> op = "IsHealthy",
                    ok |-> TRUE, errs |-> FALSE]
        /\ heard' = [f \in Files |-> "none"] /\ result' = "none"
    BY DEF DrainInv, RpcInv, Call, loaderVars
  <2>2. \A f \in PluginFiles : info[f].id \in Registered /\ f # NoFile /\ f \in Files
    BY <2>1, FileFacts DEF DrainInv, RegInv, Loaded, Registered
  <2> QED  BY <2>1, <2>2 DEF CallInv, NoRpc, Registered
<1>6. OwedInv'
  BY DEF DrainInv, OwedInv, DrainTypeOK, NoRpc, NoCall, Call, Registered, loaderVars,
     callVars
<1> QED  BY <1>1, <1>2, <1>3, <1>4, <1>5, <1>6 DEF DrainInv

(* IsHealthy looks at the nodes before it asks a plugin.                   *)
LEMMA IsClusterNodesHealthyKeeps ==
    ASSUME DrainInv, IsClusterNodesHealthy
    PROVE  DrainInv'
<1>1. DrainTypeOK'
  <2>1. call' \in Calls
    BY Zenon, RecordFacts DEF DrainInv, DrainTypeOK, IsClusterNodesHealthy, Return, Calls
  <2> QED  BY <2>1, FaultFacts DEF DrainInv, DrainTypeOK, IsClusterNodesHealthy, Return,
       loaderVars
<1>2. RpcInv'
  BY DEF DrainInv, RpcInv, CallInv, Cur, InfoOk, NoRpc, NoCall, Registered,
     IsClusterNodesHealthy, Return, loaderVars
<1>3. InitInv'
  BY DEF DrainInv, InitInv, Ready, Cur, NoRpc, IsClusterNodesHealthy, Return, loaderVars,
     callVars
<1>4. RegInv'
  BY DEF DrainInv, RegInv, Loaded, IsClusterNodesHealthy, Return, loaderVars, callVars
<1>5. CallInv'
  <2>1. CASE call' = [call EXCEPT !.nodes = FALSE] /\ UNCHANGED <<result, faults>>
    BY <2>1 DEF DrainInv, CallInv, IsClusterNodesHealthy, loaderVars, NoCall, Registered
  <2>2. CASE call' = NoCall /\ result' # "ok"
    BY <2>2 DEF CallInv
  <2> QED  BY <2>1, <2>2 DEF IsClusterNodesHealthy, Return
<1>6. OwedInv'
  BY DEF DrainInv, OwedInv, DrainTypeOK, NoRpc, NoCall, IsClusterNodesHealthy, Return,
     Calls, loaderVars, callVars
<1> QED  BY <1>1, <1>2, <1>3, <1>4, <1>5, <1>6 DEF DrainInv

(* The loop comes to some plugin that is still to come.                    *)
LEMMA NextPluginKeeps ==
    ASSUME DrainInv, NEW id \in Ids, NextPlugin(id)
    PROVE  DrainInv'
<1>1. DrainTypeOK'
  <2>1. call' \in Calls
    BY DEF DrainInv, DrainTypeOK, NextPlugin, Calls
  <2>2. drainClients[id] \in Files
    BY FileFacts DEF DrainInv, CallInv, RegInv, Registered, NextPlugin, NoCall
  <2>3. rpc' \in Rpcs
    BY <2>2, RecordFacts DEF NextPlugin, Invoke, Methods
  <2> QED  BY <2>1, <2>3 DEF DrainInv, DrainTypeOK, NextPlugin, loaderVars
<1>2. RpcInv'
  <2>1. call # NoCall /\ life = "up" /\ life' = life /\ drainClients' = drainClients
    BY DEF DrainInv, CallInv, NextPlugin, NoCall, loaderVars
  <2>2. drainClients[id] \in PluginFiles
    BY <2>1 DEF DrainInv, CallInv, RegInv, Registered, NextPlugin
  <2>3. rpc' = [file |-> drainClients[id], method |-> "IsSupported", at |-> "sent", ans |-> "error"]
    BY DEF NextPlugin, Invoke
  <2>4. call' # NoCall
    BY <2>1 DEF DrainInv, CallInv, NextPlugin, NoCall, Ops
  <2> QED  BY <2>1, <2>2, <2>3, <2>4 DEF RpcInv, NoRpc
<1>3. InitInv'
  BY DEF DrainInv, InitInv, Ready, Cur, NoRpc, NextPlugin, Invoke, loaderVars
<1>4. RegInv'
  BY DEF DrainInv, RegInv, Loaded, NextPlugin, Invoke, loaderVars, callVars
<1>5. CallInv'
  <2>1. /\ call # NoCall /\ ~call.nodes /\ id \in call.todo /\ rpc = NoRpc
        /\ UNCHANGED <<life, info, drainClients, heard, result>>
        /\ rpc'.file = drainClients[id]
    BY DEF NextPlugin, Invoke, NoCall, loaderVars
  <2>2. /\ call'.op = call.op /\ call'.todo = call.todo \ {id} /\ call'.nodes = call.nodes
        /\ call'.ok = call.ok
    BY DEF DrainInv, NextPlugin
  <2>3. \A f \in PluginFiles : info[f].id = id <=> drainClients[id] = f
    BY <2>1, FileFacts DEF DrainInv, CallInv, RegInv, Loaded
  <2> QED  BY <2>1, <2>2, <2>3, FileFacts DEF DrainInv, CallInv, NoRpc, Registered
<1>6. OwedInv'
  BY DEF DrainInv, OwedInv, NoRpc, NoCall, NextPlugin, Invoke, loaderVars, callVars
<1> QED  BY <1>1, <1>2, <1>3, <1>4, <1>5, <1>6 DEF DrainInv

(* A plugin that does not support the node counts as heard; one that fails *)
(* refuses.                                                                *)
LEMMA GotIsSupportedKeeps ==
    ASSUME DrainInv, NEW a \in {"yes", "no", "error"}, GotIsSupported(a)
    PROVE  DrainInv'
<1>1. DrainTypeOK'
  <2>1. call' \in Calls
    BY RefusedOk DEF DrainInv, DrainTypeOK, GotIsSupported, callVars
  <2>2. rpc' \in Rpcs
    BY RecordFacts, FileFacts DEF DrainInv, RpcInv, CallInv, GotIsSupported, Refused,
       Invoke, NoRpc, Methods
  <2>3. /\ heard' \in [Files -> {"none", "for", "against"}]
        /\ result' \in {"none", "ok", "no", "error"}
    BY DEF DrainInv, DrainTypeOK, GotIsSupported, Refused, Hear, Return, callVars
  <2>4. faults' \in 0..MaxFaults
    BY FaultFacts DEF DrainInv, DrainTypeOK, GotIsSupported, Outcome
  <2> QED  BY <2>1, <2>2, <2>3, <2>4 DEF DrainInv, DrainTypeOK, GotIsSupported, loaderVars
<1>2. RpcInv'
  BY DEF DrainInv, RpcInv, Cur, InfoOk, NoRpc, NoCall, GotIsSupported, Outcome, Invoke,
     Refused, Hear, Return, loaderVars, callVars
<1>3. InitInv'
  BY DEF DrainInv, InitInv, Ready, Cur, NoRpc, InfoOk, NoCall, GotIsSupported, Outcome,
     Invoke, Refused, Hear, Return, loaderVars, callVars
<1>4. RegInv'
  BY DEF DrainInv, RegInv, Loaded, GotIsSupported, Outcome, Invoke, Refused, Hear, Return,
     loaderVars, callVars
<1>5. CallInv'
  <2>1. call # NoCall /\ rpc # NoRpc /\ UNCHANGED <<info, life, drainClients>>
    BY DEF GotIsSupported, NoRpc, loaderVars
  <2>2. CASE a = "yes"
    BY <2>1, <2>2 DEF DrainInv, CallInv, GotIsSupported, Invoke, callVars, NoRpc, Registered
  <2>3. CASE a = "no"
    BY <2>1, <2>3, HeardFor DEF GotIsSupported
  <2>4. CASE a = "error"
    BY <2>1, <2>4, HeardAgainst DEF GotIsSupported
  <2> QED  BY <2>2, <2>3, <2>4
<1>6. OwedInv'
  <2>1. owed' \subseteq owed /\ rpc'.at # "served"
    BY DEF GotIsSupported, Invoke, Refused, NoRpc
  <2>2. ASSUME call'.op = "PostDrain", NEW f \in owed'
        PROVE  heard'[f] # "for"
    <3>1. call.op = "PostDrain"
      BY <2>2, OpKept DEF GotIsSupported, callVars
    <3>2. heard[f] # "for" /\ f \in Files
      BY SMTT(30), <2>1, <2>2, <3>1, FileFacts DEF DrainInv, OwedInv
    <3> QED  BY <2>2, <3>1, <3>2 DEF DrainInv, DrainTypeOK, GotIsSupported, Refused, Hear,
         callVars
  <2> QED  BY <2>1, <2>2 DEF DrainInv, OwedInv
<1> QED  BY <1>1, <1>2, <1>3, <1>4, <1>5, <1>6 DEF DrainInv

(* A plugin has answered, or the call of it failed.                        *)
LEMMA GotAnswerKeeps ==
    ASSUME DrainInv, NEW a \in {"yes", "no", "error"}, GotAnswer(a)
    PROVE  DrainInv'
<1>1. DrainTypeOK'
  <2>1. call' \in Calls
    BY RefusedOk DEF DrainInv, DrainTypeOK, GotAnswer
  <2>2. rpc' \in Rpcs
    BY RecordFacts DEF DrainInv, GotAnswer, Refused, NoRpc
  <2>3. /\ heard' \in [Files -> {"none", "for", "against"}]
        /\ result' \in {"none", "ok", "no", "error"}
    BY SMTT(30) DEF DrainInv, DrainTypeOK, GotAnswer, Refused, Hear, Return, callVars
  <2>4. faults' \in 0..MaxFaults
    BY FaultFacts DEF DrainInv, DrainTypeOK, GotAnswer, Outcome
  <2> QED
    BY SMTT(30), <2>1, <2>2, <2>3, <2>4 DEF DrainInv, DrainTypeOK, GotAnswer, loaderVars
<1>2. RpcInv'
  BY DEF DrainInv, RpcInv, Cur, InfoOk, NoRpc, NoCall, GotAnswer, Outcome, Refused, Hear,
     Return, loaderVars, callVars
<1>3. InitInv'
  BY DEF DrainInv, InitInv, Ready, Cur, NoRpc, InfoOk, NoCall, GotAnswer, Outcome, Refused,
     Hear, Return, loaderVars, callVars
<1>4. RegInv'
  BY DEF DrainInv, RegInv, Loaded, GotAnswer, Outcome, Refused, Hear, Return, loaderVars,
     callVars
<1>5. CallInv'
  <2>1. call # NoCall /\ rpc # NoRpc /\ UNCHANGED <<info, life, drainClients>>
    BY DEF DrainInv, CallInv, GotAnswer, NoRpc, Ops, loaderVars
  <2>2. CASE a = "yes"
    BY <2>1, <2>2, HeardFor DEF GotAnswer
  <2>3. CASE a \in {"no", "error"}
    BY <2>1, <2>3, HeardAgainst DEF GotAnswer
  <2> QED  BY <2>2, <2>3
<1>6. OwedInv'
  <2>1. owed' = owed /\ rpc'.at # "served"
    BY DEF GotAnswer, Refused, NoRpc
  <2>2. ASSUME call'.op = "PostDrain", NEW f \in owed'
        PROVE  heard'[f] # "for"
    <3>1. call.op = "PostDrain"
      BY <2>2, OpKept DEF GotAnswer
    <3>3. heard[f] # "for" /\ f \in Files
      BY <2>1, <2>2, <3>1, FileFacts DEF DrainInv, OwedInv
    <3>2. a = "yes" => rpc.at = "served" /\ rpc.ans = "yes" /\ rpc.method = "PostDrain"
      BY <3>1 DEF GotAnswer, Outcome
    <3> QED  BY <2>1, <3>1, <3>2, <3>3 DEF DrainInv, DrainTypeOK, OwedInv, GotAnswer,
         Refused, Hear
  <2> QED  BY <2>1, <2>2 DEF DrainInv, OwedInv
<1> QED  BY <1>1, <1>2, <1>3, <1>4, <1>5, <1>6 DEF DrainInv

(* The loop is over and the method returns.                                *)
LEMMA FinishKeeps ==
    ASSUME DrainInv, Finish
    PROVE  DrainInv'
<1>1. DrainTypeOK'
  BY RecordFacts DEF DrainInv, DrainTypeOK, Finish, Return, Verdict, loaderVars
<1>2. RpcInv'
  BY DEF DrainInv, RpcInv, Cur, InfoOk, NoRpc, NoCall, Finish, Return, Verdict, loaderVars,
     callVars
<1>3. InitInv'
  BY SMTT(30) DEF DrainInv, InitInv, Ready, Cur, NoRpc, Finish, Return, Verdict,
     loaderVars, callVars
<1>4. RegInv'
  BY DEF DrainInv, RegInv, Loaded, Finish, Return, Verdict, loaderVars, callVars
<1>5. CallInv'
  BY FileFacts DEF DrainInv, CallInv, DrainTypeOK, NoRpc, NoCall, Registered, Finish,
     Return, Verdict, loaderVars, callVars
<1>6. OwedInv'
  BY DEF DrainInv, OwedInv, NoRpc, NoCall, Cur, InfoOk, Finish, Return, Verdict, loaderVars,
     callVars
<1> QED  BY <1>1, <1>2, <1>3, <1>4, <1>5, <1>6 DEF DrainInv

(* The process ends, and with it the plugins.                              *)
LEMMA StopKeeps ==
    ASSUME DrainInv, Stop
    PROVE  DrainInv'
<1>1. DrainTypeOK'
  <2>1. call' \in Calls /\ result' \in {"none", "ok", "no", "error"}
    BY RecordFacts DEF DrainInv, DrainTypeOK, Stop, Return
  <2> QED  BY <2>1, RecordFacts DEF DrainInv, DrainTypeOK, Stop
<1>2. RpcInv'
  BY DEF DrainInv, RpcInv, Cur, InfoOk, NoRpc, NoCall, Stop, Return
<1>3. InitInv'
  BY DEF DrainInv, InitInv, Ready, Cur, NoRpc, Stop, Return, loaderVars, callVars
<1>4. RegInv'
  BY DEF DrainInv, RegInv, Loaded, Stop, Return, loaderVars, callVars
<1>5. CallInv'
  BY DEF DrainInv, CallInv, NoRpc, NoCall, Registered, Stop, Return, loaderVars, callVars
<1>6. OwedInv'
  BY DEF DrainInv, OwedInv, NoRpc, NoCall, Stop, Return, loaderVars, callVars
<1> QED  BY <1>1, <1>2, <1>3, <1>4, <1>5, <1>6 DEF DrainInv

(* The plugin serves the request; Init is what makes it ready, PreDrain    *)
(* and PostDrain change what it is owed.                                   *)
LEMMA ServeKeeps ==
    ASSUME DrainInv, NEW a \in {"yes", "no", "error"}, Serve(a)
    PROVE  DrainInv'
<1>1. DrainTypeOK'
  <2>1. rpc' \in Rpcs /\ rpc.file \in Files
    BY Zenon, FileFacts DEF DrainInv, DrainTypeOK, RpcInv, Serve, Rpcs, Replies, NoRpc
  <2>2. faults' \in 0..MaxFaults
    BY FaultFacts DEF DrainInv, DrainTypeOK, Serve
  <2>3. inited' \subseteq Files /\ owed' \subseteq Files
    BY <2>1 DEF DrainInv, DrainTypeOK, Serve
  <2> QED  BY <2>1, <2>2, <2>3 DEF DrainInv, DrainTypeOK, Serve, loaderVars, callVars
<1>2. RpcInv'
  <2>1. /\ rpc' # NoRpc /\ rpc # NoRpc /\ rpc'.at = "served"
        /\ rpc'.file = rpc.file /\ rpc'.method = rpc.method
    <3>1. rpc' = [rpc EXCEPT !.at = "served", !.ans = a] /\ rpc.at = "sent"
      BY DEF Serve
    <3>2. rpc'.at = "served" /\ rpc'.file = rpc.file /\ rpc'.method = rpc.method
      BY <3>1 DEF DrainInv
    <3>3. NoRpc.at = "none"
      BY DEF NoRpc
    <3> QED  BY Zenon, <3>1, <3>2, <3>3
  <2> QED  BY <2>1 DEF DrainInv, RpcInv, Serve, loaderVars, callVars, Cur, InfoOk
<1>3. InitInv'
  BY DEF DrainInv, InitInv, RpcInv, Ready, Cur, NoRpc, InfoOk, NoCall, Serve, Replies,
     loaderVars, callVars
<1>4. RegInv'
  BY DEF DrainInv, RegInv, Loaded, Serve, Replies, loaderVars, callVars
<1>5. CallInv'
  BY DEF DrainInv, CallInv, NoRpc, NoCall, Registered, Serve, Replies, loaderVars, callVars
<1>6. OwedInv'
  BY DEF DrainInv, OwedInv, DrainTypeOK, RpcInv, NoRpc, NoCall, Cur, InfoOk, Serve, Replies,
     loaderVars, callVars
<1> QED  BY <1>1, <1>2, <1>3, <1>4, <1>5, <1>6 DEF DrainInv

(* A plugin dies.                                                          *)
LEMMA PluginDiesKeeps ==
    ASSUME DrainInv, NEW f \in Files, PluginDies(f)
    PROVE  DrainInv'
<1>1. DrainTypeOK'
  BY SMTT(30), FaultFacts DEF DrainInv, DrainTypeOK, PluginDies, loaderVars, callVars
<1>2. RpcInv'
  BY DEF DrainInv, RpcInv, Cur, InfoOk, NoRpc, NoCall, PluginDies, loaderVars, callVars
<1>3. InitInv'
  BY SMTT(30) DEF DrainInv, InitInv, DrainTypeOK, Ready, Cur, NoRpc, PluginDies, loaderVars, callVars
<1>4. RegInv'
  BY DEF DrainInv, RegInv, Loaded, PluginDies, loaderVars, callVars
<1>5. CallInv'
  BY DEF DrainInv, CallInv, NoRpc, NoCall, Registered, PluginDies, loaderVars, callVars
<1>6. OwedInv'
  BY DEF DrainInv, OwedInv, NoRpc, NoCall, PluginDies, loaderVars, callVars
<1> QED  BY <1>1, <1>2, <1>3, <1>4, <1>5, <1>6 DEF DrainInv

-----------------------------------------------------------------------------
(* The invariant holds before NewDrainManager is called.                   *)
LEMMA InitHolds == Init => DrainInv
<1> SUFFICES ASSUME Init
             PROVE  DrainInv
  OBVIOUS
<1>1. DrainTypeOK
  BY SMTT(30), RecordFacts, PluginsAssumption DEF Init, DrainTypeOK
<1>2. RpcInv /\ InitInv /\ RegInv /\ CallInv /\ OwedInv
  BY DEF Init, RpcInv, InitInv, RegInv, CallInv, OwedInv, NoRpc, NoCall
<1> QED  BY <1>1, <1>2 DEF DrainInv

(* Every step keeps the invariant.                                         *)
LEMMA NextKeeps == DrainInv /\ [DrainNext]_drainVars => DrainInv'
<1> SUFFICES ASSUME DrainInv, [DrainNext]_drainVars
             PROVE  DrainInv'
  OBVIOUS
<1>1. CASE LoadNext
  BY <1>1, LoadEntryKeeps, StartClientKeeps, ClientFailsKeeps, RegisterKeeps,
     GotPluginInfoKeeps, GotInitKeeps DEF LoadNext
<1>2. CASE CallNext
  BY <1>2, IsClusterNodesHealthyKeeps, FinishKeeps, NextPluginKeeps,
     GotIsSupportedKeeps, GotAnswerKeeps DEF CallNext
<1>3. CASE UNCHANGED drainVars
  <2>1. DrainTypeOK'
    BY SMTT(30), <1>3 DEF drainVars, DrainInv, DrainTypeOK
  <2>2. RpcInv'
    BY Zenon, <1>3 DEF drainVars, DrainInv, RpcInv, Cur, InfoOk
  <2>3. InitInv'
    <3>1. /\ life' = life /\ step' = step /\ rpc' = rpc /\ drainClients' = drainClients
          /\ inited' = inited /\ proc' = proc /\ at' = at
      BY Zenon, <1>3 DEF drainVars
    <3>2. (\A id \in Ids : drainClients[id] # NoFile => Ready(drainClients[id]))'
      BY Zenon, <3>1 DEF DrainInv, InitInv, Ready
    <3>3. (life = "loading" /\ step = "register" => Ready(Cur))'
      BY Zenon, <3>1 DEF DrainInv, InitInv, Ready, Cur
    <3>4. (life = "loading" /\ step = "init" /\ rpc.at = "served" /\ rpc.ans = "yes" => Ready(Cur))'
      BY ZenonT(40), <3>1 DEF DrainInv, InitInv, Ready, Cur
    <3> QED  BY Zenon, <3>2, <3>3, <3>4 DEF InitInv
  <2>4. RegInv' /\ OwedInv'
    BY Zenon, <1>3 DEF drainVars, DrainInv, RegInv, OwedInv, Loaded
  <2>5. CallInv'
    BY <1>3 DEF drainVars, DrainInv, CallInv, Registered
  <2> QED  BY <2>1, <2>2, <2>3, <2>4, <2>5 DEF DrainInv
<1> QED  BY <1>1, <1>2, <1>3, NewDrainManagerKeeps, StopKeeps, CallKeeps, ServeKeeps,
     PluginDiesKeeps DEF DrainNext

(* In every behaviour of the drain manager, through broken and dying       *)
(* plugins, lost answers and restarts, the invariant holds.                *)
THEOREM DrainInvariant == DrainSpec => []DrainInv
BY InitHolds, NextKeeps, PTL DEF DrainSpec

(* initPlugin comes first: no plugin that runs is asked IsSupported or a   *)
(* question of a method before its process has run Init.                   *)
THEOREM InitFirst == DrainSpec => []InitBeforeUse
<1>1. DrainInv => InitBeforeUse
  BY SMTT(30), FileFacts DEF DrainInv, DrainTypeOK, RpcInv, InitInv, Ready, InitBeforeUse, Ops, NoRpc
<1> QED  BY <1>1, DrainInvariant, PTL

(* When loadPluginsFromDir has returned without an error, every plugin of  *)
(* the directory is registered, under its own ID.                          *)
THEOREM EveryPluginRegistered == DrainSpec => []AllRegistered
<1>1. DrainInv => AllRegistered
  <2> SUFFICES ASSUME DrainInv, life = "up", NEW f \in PluginFiles
               PROVE  /\ pluginFileId[f] = info[f].id
                      /\ \A id \in Ids : drainClients[id] = f <=> id = info[f].id
    BY DEF AllRegistered
  <2>1. Loaded(f)
    BY DEF DrainInv, RegInv
  <2>2. \A id \in Ids : drainClients[id] = f => info[f].id = id
    BY FileFacts DEF DrainInv, RegInv
  <2> QED  BY <2>1, <2>2 DEF Loaded
<1> QED  BY <1>1, DrainInvariant, PTL

(* When a method has answered "ok", every plugin was asked in that call    *)
(* and none spoke against, whatever the order of the map.                  *)
THEOREM NobodyPassedOver == DrainSpec => []OkMeansAll
<1>1. DrainInv => OkMeansAll
  BY DEF DrainInv, CallInv, OkMeansAll
<1> QED  BY <1>1, DrainInvariant, PTL

-----------------------------------------------------------------------------
(* Some plugin has refused or failed in the current call.                  *)
Against == \E f \in Files : heard[f] = "against"

(* Nothing changes that PluginParty knows of.                              *)
Stutters == UNCHANGED <<call.op, owed # {}, Against, result>>

(* What amounts to a step of PluginParty, one line for each of its         *)
(* actions.                                                                *)
LEMMA PartySteps ==
    /\ \A o \in Ops : call.op = "none" /\ call'.op = o /\ ~Against' /\ result' = "none"
                      /\ UNCHANGED owed => Party!PartyNext
    /\ call.op = "PreDrain" /\ ~Against /\ owed' # {} /\ UNCHANGED <<call.op, Against, result>>
          => Party!PartyNext
    /\ call.op = "PostDrain" /\ ~Against /\ owed' = {} /\ UNCHANGED <<call.op, Against, result>>
          => Party!PartyNext
    /\ call.op # "none" /\ Against' /\ UNCHANGED <<call.op, owed, result>> => Party!PartyNext
    /\ \A r \in {"no", "error"} : call.op # "none" /\ call'.op = "none" /\ result' = r
                                  /\ UNCHANGED owed => Party!PartyNext
    /\ call.op # "none" /\ ~Against /\ ~(call.op = "PostDrain" /\ owed # {})
       /\ call'.op = "none" /\ result' = "ok" /\ UNCHANGED <<owed, Against>> => Party!PartyNext
<1>1. ASSUME NEW o \in Ops, call.op = "none", call'.op = o,
             ~Against', result' = "none", UNCHANGED owed
      PROVE  Party!PartyNext
  BY <1>1 DEF Ops, Against, Party!PartyNext, Party!PartyOps, Party!Call
<1>2. ASSUME call.op = "PreDrain", ~Against, owed' # {}, UNCHANGED <<call.op, Against, result>>
      PROVE  Party!PartyNext
  BY <1>2 DEF Against, Party!PartyNext, Party!Tell
<1>3. ASSUME call.op = "PostDrain", ~Against, owed' = {}, UNCHANGED <<call.op, Against, result>>
      PROVE  Party!PartyNext
  BY <1>3 DEF Against, Party!PartyNext, Party!Settle
<1>4. ASSUME call.op # "none", Against', UNCHANGED <<call.op, owed, result>>
      PROVE  Party!PartyNext
  BY <1>4 DEF Against, Party!PartyNext, Party!Object
<1>5. ASSUME NEW r \in {"no", "error"}, call.op # "none", call'.op = "none",
             result' = r, UNCHANGED owed
      PROVE  Party!PartyNext
  BY Zenon, <1>5 DEF Party!PartyNext, Party!Results, Party!Answer
<1>6. ASSUME call.op # "none", ~Against, ~(call.op = "PostDrain" /\ owed # {}),
             call'.op = "none", result' = "ok", UNCHANGED <<owed, Against>>
      PROVE  Party!PartyNext
  <2>1. Party!Answer("ok")
    BY <1>6, Zenon DEF Against, Party!Answer
  <2> QED  BY <2>1 DEF Party!PartyNext, Party!Results
<1> QED  BY <1>1, <1>2, <1>3, <1>4, <1>5, <1>6

(* A plugin that refuses or fails is an objection of the party, or its     *)
(* failing answer.                                                         *)
LEMMA RefusedStep ==
    ASSUME DrainInv, call # NoCall, rpc # NoRpc,
           NEW a \in {"no", "error"}, Refused(a), UNCHANGED owed
    PROVE  Party!PartyNext
<1>1. call.op # "none" /\ rpc.file \in Files
  BY FileFacts DEF DrainInv, RpcInv, CallInv, Ops
<1>2. Against'
  BY <1>1 DEF DrainInv, DrainTypeOK, Refused, Hear, Against
<1>3. CASE Collects(call.op)
  <2>1. call'.op = call.op /\ result' = result
    BY Zenon, <1>3 DEF DrainInv, DrainTypeOK, Calls, Refused
  <2> QED  BY <1>1, <1>2, <2>1, PartySteps
<1>4. CASE ~Collects(call.op)
  <2>1. call'.op = "none" /\ result' = "error"
    BY <1>4 DEF Refused, Return, NoCall
  <2> QED  BY <1>1, <2>1, PartySteps
<1> QED  BY <1>3, <1>4

(* A plugin that is for it leaves unchanged whether somebody is against    *)
(* it.                                                                     *)
LEMMA HeardForStep ==
    ASSUME DrainInv, call # NoCall, rpc # NoRpc, Hear("for")
    PROVE  Against' = Against
<1>1. rpc.file \in Files /\ heard[rpc.file] = "none"
  BY FileFacts DEF DrainInv, RpcInv, CallInv
<1> QED  BY <1>1 DEF DrainInv, Hear, Against

(* Serving PreDrain tells the party; serving PostDrain settles it if this  *)
(* was the last plugin owed; nothing else matters to the party. Neither is *)
(* served after an objection, since these methods return at the first.     *)
LEMMA ServeStep ==
    ASSUME DrainInv, NEW a \in {"yes", "no", "error"}, Serve(a)
    PROVE  Party!PartyNext \/ Stutters
<1>1. UNCHANGED <<call, heard, result>> /\ UNCHANGED Against
  BY DEF Serve, callVars, Against
<1>2. CASE rpc.method = "PreDrain"
  <2>1. life = "up" /\ rpc # NoRpc
    BY <1>2 DEF DrainInv, DrainTypeOK, RpcInv, NoRpc
  <2>2. call.op = "PreDrain" /\ ~Against
    BY <1>2, <2>1 DEF DrainInv, RpcInv, CallInv, Collects, Against
  <2>3. owed' # {}
    BY <1>2 DEF Serve
  <2> QED  BY <1>1, <2>2, <2>3, PartySteps
<1>3. CASE rpc.method = "PostDrain"
  <2>1. life = "up" /\ rpc # NoRpc
    BY <1>3 DEF DrainInv, DrainTypeOK, RpcInv, NoRpc
  <2>2. call.op = "PostDrain" /\ ~Against
    BY <1>3, <2>1 DEF DrainInv, RpcInv, CallInv, Collects, Against
  <2>3. owed' \subseteq owed
    BY <1>3 DEF Serve
  <2>4. CASE owed' = {}
    BY <1>1, <2>2, <2>4, PartySteps
  <2>5. CASE owed' # {}
    BY <1>1, <2>3, <2>5 DEF Stutters
  <2> QED  BY <2>4, <2>5
<1>4. CASE rpc.method \notin {"PreDrain", "PostDrain"}
  <2>1. owed' = owed
    BY <1>4 DEF Serve
  <2> QED  BY <1>1, <2>1 DEF Stutters
<1> QED  BY <1>2, <1>3, <1>4

(* A plugin that does not support the node is passed over, and is owed     *)
(* nothing after a PostDrain.                                              *)
LEMMA GotIsSupportedStep ==
    ASSUME DrainInv, NEW a \in {"yes", "no", "error"}, GotIsSupported(a)
    PROVE  Party!PartyNext \/ Stutters
<1>1. call # NoCall /\ rpc # NoRpc
  BY DEF GotIsSupported, NoRpc
<1>2. CASE a = "yes"
  BY <1>2 DEF GotIsSupported, callVars, Stutters, Against
<1>3. CASE a = "no"
  <2>1. UNCHANGED <<call, result>> /\ Hear("for") /\ owed' \subseteq owed
        /\ (call.op # "PostDrain" => owed' = owed)
    BY <1>3 DEF GotIsSupported
  <2>2. Against' = Against
    BY <1>1, <2>1, HeardForStep
  <2>3. CASE owed' = owed
    BY <2>1, <2>2, <2>3 DEF Stutters
  <2>4. CASE owed' # owed /\ owed' # {}
    BY <2>1, <2>2, <2>4 DEF Stutters
  <2>5. CASE owed' # owed /\ owed' = {}
    <3>1. ~Against
      BY <1>1, <2>1, <2>5 DEF DrainInv, CallInv, Collects, Against
    <3> QED  BY <2>1, <2>2, <2>5, <3>1, PartySteps
  <2> QED  BY <2>3, <2>4, <2>5
<1>4. CASE a = "error"
  BY <1>1, <1>4, RefusedStep DEF GotIsSupported
<1> QED  BY <1>2, <1>3, <1>4

(* An answer for it changes nothing for the party; one against it is an    *)
(* objection.                                                              *)
LEMMA GotAnswerStep ==
    ASSUME DrainInv, NEW a \in {"yes", "no", "error"}, GotAnswer(a)
    PROVE  Party!PartyNext \/ Stutters
<1>1. call # NoCall /\ rpc # NoRpc
  BY DEF DrainInv, CallInv, GotAnswer, NoRpc, Ops
<1>2. CASE a = "yes"
  <2>1. UNCHANGED <<call, result, owed>> /\ Hear("for")
    BY <1>2 DEF GotAnswer
  <2> QED  BY <1>1, <2>1, HeardForStep DEF Stutters
<1>3. CASE a \in {"no", "error"}
  BY <1>1, <1>3, RefusedStep DEF GotAnswer
<1> QED  BY SMTT(30), <1>2, <1>3

(* A method that gets to the end of its loop gives an answer of the party: *)
(* "ok" only if nobody was against, and after PostDrain only if nobody is  *)
(* owed one.                                                               *)
LEMMA FinishStep ==
    ASSUME DrainInv, Finish
    PROVE  Party!PartyNext
<1>1. /\ call.op # "none" /\ call'.op = "none" /\ result' = Verdict
      /\ UNCHANGED <<owed, heard>> /\ UNCHANGED Against
  BY DEF DrainInv, CallInv, Ops, Finish, Return, NoCall, Against
<1>2. CASE Verdict = "ok"
  <2>1. \A f \in PluginFiles : heard[f] # "none"
    BY FileFacts DEF DrainInv, CallInv, Finish, NoRpc
  <2>2. ~Against
    BY <1>2 DEF DrainInv, CallInv, Finish, Verdict, Against
  <2>3. call.op = "PostDrain" => owed = {}
    BY <2>1, <2>2 DEF DrainInv, DrainTypeOK, OwedInv, Against
  <2> QED  BY SMTT(30), <1>1, <1>2, <2>2, <2>3, PartySteps
<1>3. CASE Verdict # "ok"
  BY <1>1, <1>3, PartySteps DEF Verdict
<1> QED  BY <1>2, <1>3

(* Every step is a step of the party or changes nothing it knows of.       *)
LEMMA NextStep ==
    ASSUME DrainInv, [DrainNext]_drainVars
    PROVE  Party!PartyNext \/ Stutters
<1>1. CASE UNCHANGED <<call, result, heard, owed>>
  BY <1>1 DEF Stutters, Against
<1>2. CASE LoadNext \/ NewDrainManager \/ UNCHANGED drainVars
  BY Zenon, <1>1, <1>2 DEF LoadNext, NewDrainManager, LoadEntry, StartClient,
     ClientFails, Register,
     GotPluginInfo, GotInit, callVars, drainVars
<1>3. ASSUME NEW f \in Files, PluginDies(f)
      PROVE  Stutters
  BY <1>1, <1>3 DEF PluginDies, callVars, Stutters, Against
<1>4. ASSUME NEW op \in Ops, Call(op)
      PROVE  Party!PartyNext
  <2>1. call.op = "none" /\ call'.op = op /\ result' = "none" /\ ~Against' /\ UNCHANGED owed
    BY <1>4 DEF Call, NoCall, Against
  <2> QED  BY <2>1, PartySteps
<1>5. CASE IsClusterNodesHealthy
  <2>1. call # NoCall /\ call.op # "none" /\ UNCHANGED <<heard, owed>>
    BY <1>5 DEF DrainInv, CallInv, IsClusterNodesHealthy, NoCall, Ops
  <2>2. CASE call' = [call EXCEPT !.nodes = FALSE] /\ UNCHANGED <<result, faults>>
    BY <2>1, <2>2 DEF DrainInv, Stutters, Against
  <2>3. CASE call'.op = "none" /\ result' \in {"no", "error"}
    BY <2>1, <2>3, PartySteps
  <2> QED  BY <1>5, <2>2, <2>3 DEF IsClusterNodesHealthy, Return, NoCall
<1>6. ASSUME NEW id \in Ids, NextPlugin(id)
      PROVE  Stutters
  BY <1>6 DEF DrainInv, DrainTypeOK, Calls, NextPlugin, Stutters, Against
<1>7. CASE Stop
  <2>1. CASE call = NoCall
    BY <1>1, <1>7, <2>1 DEF Stop
  <2>2. CASE call # NoCall
    <3>1. call.op # "none" /\ call'.op = "none" /\ result' = "error" /\ UNCHANGED owed
      BY <1>7, <2>2 DEF DrainInv, CallInv, Ops, Stop, Return, NoCall
    <3> QED  BY <3>1, PartySteps
  <2> QED  BY <2>1, <2>2
<1>8. CASE CallNext
  BY <1>5, <1>6, <1>8, GotIsSupportedStep, GotAnswerStep, FinishStep DEF CallNext
<1> QED  BY <1>2, <1>3, <1>4, <1>7, <1>8, ServeStep DEF DrainNext

(* The drain manager implements PluginParty: to the reconciler, which      *)
(* calls IsHealthy, IsDrainOk, RunPreDrain and RunPostDrain, any number of *)
(* plugins in any order are one party.                                     *)
THEOREM OneParty == DrainSpec => PartySpec
<1>1. Init => Party!PartyInit
  BY DEF Init, NoCall, Party!PartyInit
<1>2. DrainInv /\ [DrainNext]_drainVars => [Party!PartyNext]_(Party!partyVars)
  BY NextStep DEF Stutters, Against, Party!partyVars
<1> QED  BY <1>1, <1>2, DrainInvariant, PTL DEF DrainSpec, PartySpec, Party!PartySpec
=============================================================================
