--------------------------- MODULE NodeController ---------------------------
(***************************************************************************)
(* The reconciler of the nodedrain operator                                *)
(* (internal/controller/node_controller.go) with the parts of the drain    *)
(* and reboot managers it calls, the objects it reads and writes through   *)
(* the Kubernetes API, and the actors that share those objects with it.    *)
(*                                                                         *)
(* One Reconcile call runs at a time (controller-runtime's default of one  *)
(* worker, one leader).  It is a sequence of API and plugin calls; pc      *)
(* names the call it is about to make, and every other actor may act       *)
(* between two calls.  node and kubeNode are its local objects: read from  *)
(* the informer cache when the call starts, replaced by the server's       *)
(* answer at every patch.  A patch is a JSON merge patch without a         *)
(* resource version: it is applied to whatever the server holds.           *)
(*                                                                         *)
(* Simplifications:                                                        *)
(*   - whether a timestamp is older than a bound is a free choice, once    *)
(*     the timestamp exists;                                               *)
(*   - the two cache reads that start a Reconcile are one step, and an     *)
(*     informer that catches up does so to the latest version;             *)
(*   - a resource version conflict is a difference of contents;            *)
(*   - drain Nodes are created by the operator, not by hand;               *)
(*   - the plugins are one party; a plugin's refusal is a failing call;    *)
(*   - a crash of the process is a failing call: the container restarts    *)
(*     where it was;                                                       *)
(*   - a Reconcile that makes no call is a stuttering step.                *)
(***************************************************************************)
EXTENDS Integers, FiniteSets

CONSTANTS
    Nodes,          \* the cluster's nodes
    NoNode,         \* no node: nothing is being reconciled, the pod is nowhere
    ContainerNode,  \* config containerNode: nodes are containers, never rebooted
    CacheLag,       \* may the informer caches lag behind the API server?
    EarlyRequests,  \* may a drain be requested before the first status is written?
    Requests,       \* the values of spec.state that users ask for
    Environment,    \* the kinds of outside events that may happen
    MaxEvents,      \* bound on outside events
    MaxFaults,      \* bound on failing calls
    MaxPods,        \* bound on pending reboot pods of a node
    MaxBoots        \* bound on reboots of a node

Unset == ""
NodeStates == {"Active", "Cordoned", "Drained", "RebootIfRequired"}
NodeCurrentStates == {"OK", "Cordoned", "Queued", "Next", "Draining",
                      "Drained", "Undraining", "Rebooting"}
EventKinds == {"request", "delete", "cordon", "unready", "require", "remove", "join"}

ASSUME ConstantsAssumption ==
    /\ NoNode \notin Nodes
    /\ ContainerNode \in BOOLEAN
    /\ CacheLag \in BOOLEAN
    /\ EarlyRequests \in BOOLEAN
    /\ Requests \subseteq NodeStates \cup {Unset}
    /\ Environment \subseteq EventKinds
    /\ MaxEvents \in Nat /\ MaxFaults \in Nat
    /\ MaxPods \in Nat /\ MaxBoots \in Nat

VARIABLES
    apiNode,    \* the drain Node objects, as the API server holds them
    apiKube,    \* the core Node objects, as the API server holds them
    cacheNode,  \* the informer's copy of apiNode
    cacheKube,  \* the informer's copy of apiKube
    pc,         \* the next call of the running Reconcile, "idle" between two
    req,        \* the node being reconciled
    node,       \* Reconcile's local drain Node
    kubeNode,   \* Reconcile's local core Node
    required,   \* Reconcile's local answer to "is a reboot required"
    rebootPods, \* reboot pods created and not yet run, per node
    hostReq,    \* does /var/run/reboot-required exist on the host
    workload,   \* does the node run evictable pods
    hooked,     \* nodes with a PreDrain run and no PostDrain since (plugins)
    vetted,     \* history: nodes that passed the drain gates since they were Next
    home,       \* the node the controller's own pod runs on
    stopping,   \* the controller has deleted its own pod
    events, faults

api    == <<apiNode, apiKube>>
cache  == <<cacheNode, cacheKube>>
local  == <<pc, req, node, kubeNode, required>>
hosts  == <<rebootPods, hostReq, workload>>
notes  == <<hooked, vetted>>
ctl    == <<home, stopping>>
bounds == <<events, faults>>
vars   == <<api, cache, local, hosts, notes, ctl, bounds>>

-----------------------------------------------------------------------------
(* Objects. *)

NoBoot == -1
BootIDs == 0..MaxBoots

\* reboot folds RebootRequired and RebootRequiredLastChecked: "unknown" is a
\* nil timestamp, otherwise the flag.  life is "deleting" once the object has
\* a deletion timestamp and only our finalizer keeps it.
NodeObjects == [life: {"absent", "held", "deleting"},
                state: NodeStates,
                cur: NodeCurrentStates \cup {Unset},
                drained: BOOLEAN,
                reboot: {"unknown", "no", "yes"},
                bootID: BootIDs \cup {NoBoot}]

\* cordon folds spec.unschedulable and the manager that owns the field.
KubeObjects == [present: BOOLEAN,
                cordon: {"none", "us", "other"},
                ready: BOOLEAN,
                boot: BootIDs]

NewObject(s) == [life |-> "held", state |-> s, cur |-> Unset,
                 drained |-> FALSE, reboot |-> "unknown", bootID |-> NoBoot]
NoObject == [NewObject("Active") EXCEPT !.life = "absent"]
NewKube == [present |-> TRUE, cordon |-> "none", ready |-> TRUE, boot |-> 0]
NoKube == [NewKube EXCEPT !.present = FALSE]

\* NodeCurrentState.WorkState: everything it does not list, the empty state of
\* a new object included, is a working state.
WorkState(c) == c \notin {"OK", "Cordoned", "Queued"}

\* NodeState.Drain
DrainState(s) == s \in {"Drained", "RebootIfRequired"}

Unschedulable(kn) == kn.cordon # "none"

\* The states in which a node holds the one working slot.
Slot == {"Next", "Draining", "Drained", "Undraining", "Rebooting"}

\* The first status patch of an object makes the API server fill in the
\* schema's defaults, currentState OK among them.
StatusDefaults(nd) == IF nd.cur = Unset THEN [nd EXCEPT !.cur = "OK"] ELSE nd

-----------------------------------------------------------------------------
(* Plausible mistakes in the definitions that follow.  Nothing uses them:   *)
(* each one replaces a definition to show that a property would notice.    *)

ApplyDefaultsMissing(s) == s
GatedNever(nd) == FALSE
BootSavedUnchecked(nd, kn) == TRUE
RebootedInverted(nd, kn) == kn.boot = nd.bootID /\ kn.ready
UndrainStatesWithNext == {"Next", "Draining", "Drained", "Rebooting"}
UndrainStatesWithoutDraining == {"Drained", "Rebooting"}
DeletingIgnored == {"idle"}
OthersCordonAny(kn) == Unschedulable(kn)
RebootDoneUnrecorded(nd) == [nd EXCEPT !.bootID = NoBoot]
NodeWorkingNotNext(m) == WorkState(cacheNode[m].cur) /\ cacheNode[m].cur # "Next"

-----------------------------------------------------------------------------
(* Control flow of Reconcile: the calls that may come next, computed from   *)
(* the local objects.  "idle" is a return.                                 *)

BootSaved(nd, kn) == kn.boot = nd.bootID

\* What IsNodeRebooted makes of the local objects.
Rebooted(nd, kn) == ContainerNode \/ (kn.boot # nd.bootID /\ kn.ready)

RebootPart(nd, kn) ==
    IF nd.state # "RebootIfRequired" THEN {"idle"}
    ELSE IF nd.cur = "Drained" /\ nd.drained
         THEN {IF BootSaved(nd, kn) THEN "rebootNode" ELSE "setBootID"}
    ELSE {IF nd.cur = "Rebooting" /\ Rebooted(nd, kn) THEN "nodeRebooted" ELSE "idle"}

\* drain asks about health only when the node is Next.
Gated(nd) == nd.cur = "Next"

DrainEntry(nd, kn) ==
    {IF Gated(nd) THEN "vet"
     ELSE IF Unschedulable(kn) THEN "preDrain" ELSE "drainCordon"}

DrainPart(nd, kn) ==
    IF DrainState(nd.state) /\ ~nd.drained THEN DrainEntry(nd, kn)
    ELSE RebootPart(nd, kn)

\* A node that needs no reboot is handed back.
DecideAlways(nd, kn, needed) == DrainPart(nd, kn)

Decide(nd, kn, needed) ==
    IF needed THEN DrainPart(nd, kn)
    ELSE {IF nd.state = "Active" THEN "idle" ELSE "setActive"}

WorkPart(nd, kn) ==
    IF ~WorkState(nd.cur) THEN {IF nd.cur = "Queued" THEN "isNext" ELSE "idle"}
    ELSE IF nd.state = "RebootIfRequired" /\ nd.cur \in {"Next", "Drained"}
         THEN {"recheck"} \cup
              (IF nd.reboot = "unknown" THEN {} ELSE Decide(nd, kn, nd.reboot = "yes"))
    ELSE DrainPart(nd, kn)

\* getManagerOfUnschedulable names somebody else.
OthersCordon(kn) == kn.cordon = "other"

\* The switch on spec.state.
SwitchState(nd, kn) ==
    CASE nd.state = "Active" ->
           {IF OthersCordon(kn) THEN "idle"
            ELSE IF Unschedulable(kn) THEN "uncordon"
            ELSE IF nd.cur # "OK" THEN "setOk" ELSE "cleanup"}
      [] nd.state = "Cordoned" ->
           {IF ~Unschedulable(kn) THEN "cordon"
            ELSE IF nd.cur # "Cordoned" THEN "setCordoned" ELSE "idle"}
      [] OTHER ->
           IF ~WorkState(nd.cur) /\ nd.cur # "Queued" THEN {"enqueue"}
           ELSE WorkPart(nd, kn)

\* checkRebootRequired
CheckReboot(nd, kn) ==
    IF WorkState(nd.cur) THEN SwitchState(nd, kn)
    ELSE {"checkReboot"} \cup
         (IF nd.reboot = "unknown" THEN {} ELSE SwitchState(nd, kn))

NotYetCleared(nd, kn) == ~Unschedulable(kn) /\ nd.drained

AfterUndrain(nd, kn) ==
    IF NotYetCleared(nd, kn) THEN {"clearDrained"} ELSE CheckReboot(nd, kn)

UndrainStates == {"Draining", "Drained", "Rebooting"}

\* The two ways into undrain.
UndrainPart(nd, kn) ==
    IF nd.cur = "Undraining"
    THEN {IF Unschedulable(kn) THEN "undrainHealthy" ELSE "postDrain"}
    ELSE IF nd.cur \in UndrainStates /\ nd.state = "Active"
         THEN {"startUndrain"}
    ELSE AfterUndrain(nd, kn)

Deleting == {"finalize"}

Entry(nd, kn) ==
    CASE nd.life = "absent"   -> {"create"}
      [] nd.life = "deleting" -> Deleting
      [] OTHER                -> UndrainPart(nd, kn)

Labels == {"idle", "create", "finalize", "startUndrain", "undrainHealthy",
           "undrainUncordon", "postDrain", "undrainReset", "undrainOk",
           "clearDrained", "checkReboot", "saveCheck", "uncordon", "setOk",
           "cleanup", "cordon", "setCordoned", "enqueue", "isNext", "promote",
           "recheck", "saveRecheck", "setActive", "vet", "setDraining",
           "drainCordon", "preDrain", "drainCleanup", "evict", "setDrained",
           "setBootID", "rebootNode", "setRebooting", "nodeRebooted",
           "saveRebooted"}

-----------------------------------------------------------------------------
(* Steps of a running Reconcile. *)

\* The server takes a new version of an object; without lag the informer has
\* it at once.
WriteNode(n, new) ==
    /\ apiNode' = [apiNode EXCEPT ![n] = new]
    /\ cacheNode' = IF CacheLag THEN cacheNode ELSE [cacheNode EXCEPT ![n] = new]

WriteKube(n, new) ==
    /\ apiKube' = [apiKube EXCEPT ![n] = new]
    /\ cacheKube' = IF CacheLag THEN cacheKube ELSE [cacheKube EXCEPT ![n] = new]

SameNodes == UNCHANGED <<apiNode, cacheNode>>
SameKubes == UNCHANGED <<apiKube, cacheKube>>

\* Go on to one of the calls L with local objects nd and kn, or return.
Continue(L, nd, kn) ==
    /\ pc' \in L
    /\ IF pc' = "idle"
       THEN req' = NoNode /\ node' = NoObject /\ kubeNode' = NoKube
       ELSE req' = req /\ node' = nd /\ kubeNode' = kn
    /\ required' = FALSE

Return == Continue({"idle"}, node, kubeNode)

\* A patch of the drain Node: new is the object the server ends up with, L
\* what Reconcile does with it.  A patch of an object that is gone fails.
Patched(new, L) ==
    /\ IF apiNode[req].life = "absent"
       THEN SameNodes /\ Return
       ELSE WriteNode(req, new) /\ Continue(L, new, kubeNode)
    /\ SameKubes

\* setCurrentState, after its early return for an unchanged state.
CurrentState(s) == [apiNode[req] EXCEPT !.cur = s]

NotDrained == [StatusDefaults(apiNode[req]) EXCEPT !.drained = FALSE]

\* setUnschedulable, after its early return.
PatchedKube(cordon, L) ==
    LET new == [apiKube[req] EXCEPT !.cordon = cordon] IN
    /\ IF apiKube[req].present
       THEN WriteKube(req, new) /\ Continue(L, node, new)
       ELSE SameKubes /\ Return
    /\ SameNodes

Reconcile(n) ==
    /\ pc = "idle" /\ home # NoNode
    /\ cacheKube[n].present
    /\ pc' \in Entry(cacheNode[n], cacheKube[n]) \ {"idle"}
    /\ req' = n /\ node' = cacheNode[n] /\ kubeNode' = cacheKube[n]
    /\ UNCHANGED <<required, api, cache, hosts, notes, ctl, bounds>>

CreateNewNode ==
    /\ pc = "create"
    /\ \/ /\ apiNode[req].life = "absent"
          /\ WriteNode(req, NewObject(IF Unschedulable(kubeNode) THEN "Cordoned" ELSE "Active"))
       \/ apiNode[req].life # "absent" /\ SameNodes
    /\ Return
    /\ SameKubes /\ UNCHANGED <<hosts, notes, ctl, bounds>>

\* r.Update carries the resource version: it fails on an object that changed.
RemoveFinalizer ==
    /\ pc = "finalize"
    /\ IF apiNode[req] = node
       THEN WriteNode(req, NoObject) /\ vetted' = vetted \ {req}
       ELSE SameNodes /\ UNCHANGED vetted
    /\ Return
    /\ SameKubes /\ UNCHANGED <<hosts, hooked, ctl, bounds>>

StartUndrain ==
    /\ pc = "startUndrain"
    /\ Patched(CurrentState("Undraining"), {"idle"})
    /\ UNCHANGED <<hosts, notes, ctl, bounds>>

ClusterNodesHealthy == \A m \in Nodes : apiKube[m].present => apiKube[m].ready

UndrainHealthy ==
    /\ pc = "undrainHealthy"
    /\ Continue({IF ClusterNodesHealthy THEN "undrainUncordon" ELSE "idle"}, node, kubeNode)
    /\ UNCHANGED <<api, cache, hosts, notes, ctl, bounds>>

UndrainUncordon ==
    /\ pc = "undrainUncordon"
    /\ PatchedKube("none", {"postDrain"})
    /\ UNCHANGED <<hosts, notes, ctl, bounds>>

RunPostDrain ==
    /\ pc = "postDrain"
    /\ hooked' = hooked \ {req}
    /\ Continue({IF node.drained THEN "undrainReset" ELSE "undrainOk"}, node, kubeNode)
    /\ UNCHANGED <<api, cache, hosts, vetted, ctl, bounds>>

UndrainReset ==
    /\ pc = "undrainReset"
    /\ Patched(NotDrained, IF NotDrained.cur = "OK" THEN AfterUndrain(NotDrained, kubeNode)
                           ELSE {"undrainOk"})
    /\ UNCHANGED <<hosts, notes, ctl, bounds>>

UndrainOk ==
    /\ pc = "undrainOk"
    /\ Patched(CurrentState("OK"), AfterUndrain(CurrentState("OK"), kubeNode))
    /\ vetted' = vetted \ {req}
    /\ UNCHANGED <<hosts, hooked, ctl, bounds>>

ClearDrained ==
    /\ pc = "clearDrained"
    /\ Patched(NotDrained, CheckReboot(NotDrained, kubeNode))
    /\ UNCHANGED <<hosts, notes, ctl, bounds>>

\* RebootManager.IsRebootRequired: a pod on the node looks for the file.  The
\* pod does not get to run on a node that is not ready; an exec that fails for
\* any reason counts as "no".
IsRebootRequired ==
    /\ pc \in {"checkReboot", "recheck"}
    /\ IF apiKube[req].present /\ apiKube[req].ready
       THEN /\ pc' = IF pc = "checkReboot" THEN "saveCheck" ELSE "saveRecheck"
            /\ \/ required' = hostReq[req] /\ UNCHANGED faults
               \/ /\ faults < MaxFaults /\ hostReq[req]
                  /\ faults' = faults + 1 /\ required' = FALSE
            /\ UNCHANGED <<req, node, kubeNode>>
       ELSE Return /\ UNCHANGED faults
    /\ UNCHANGED <<api, cache, hosts, notes, ctl, events>>

\* isRebootRequired's patch, and what each of its two callers does next.
SaveRebootRequired ==
    LET new == [StatusDefaults(apiNode[req]) EXCEPT
                    !.reboot = IF required THEN "yes" ELSE "no"] IN
    /\ pc \in {"saveCheck", "saveRecheck"}
    /\ Patched(new, IF pc = "saveCheck" THEN SwitchState(new, kubeNode)
                    ELSE Decide(new, kubeNode, required))
    /\ UNCHANGED <<hosts, notes, ctl, bounds>>

Uncordon ==
    /\ pc = "uncordon"
    /\ PatchedKube("none", {IF node.cur # "OK" THEN "setOk" ELSE "cleanup"})
    /\ UNCHANGED <<hosts, notes, ctl, bounds>>

SetOk ==
    /\ pc = "setOk"
    /\ Patched(CurrentState("OK"), {"cleanup"})
    /\ vetted' = vetted \ {req}
    /\ UNCHANGED <<hosts, hooked, ctl, bounds>>

\* RebootManager.CleanupNode deletes the reboot pods of a node.
CleanupNode(n) == rebootPods' = [rebootPods EXCEPT ![n] = 0]

\* The last call of the Active case.
CleanupActive ==
    /\ pc = "cleanup"
    /\ CleanupNode(req)
    /\ Return
    /\ UNCHANGED <<api, cache, hostReq, workload, notes, ctl, bounds>>

\* A cordon that another manager already holds stays that manager's.
OurCordon == IF Unschedulable(apiKube[req]) THEN apiKube[req].cordon ELSE "us"

Cordon ==
    /\ pc = "cordon"
    /\ PatchedKube(OurCordon,
                   {IF node.cur # "Cordoned" THEN "setCordoned" ELSE "idle"})
    /\ UNCHANGED <<hosts, notes, ctl, bounds>>

SetCordoned ==
    /\ pc = "setCordoned"
    /\ Patched(CurrentState("Cordoned"), {"idle"})
    /\ vetted' = vetted \ {req}
    /\ UNCHANGED <<hosts, hooked, ctl, bounds>>

Enqueue ==
    /\ pc = "enqueue"
    /\ Patched(CurrentState("Queued"), {"idle"})
    /\ vetted' = vetted \ {req}
    /\ UNCHANGED <<hosts, hooked, ctl, bounds>>

\* isNextNode: list the drain Nodes (from the informer), give up when one of
\* them is working.
NodeWorking(m) == cacheNode[m].life # "absent" /\ WorkState(cacheNode[m].cur)

IsNextNode ==
    /\ pc = "isNext"
    /\ Continue({IF \E m \in Nodes : NodeWorking(m) THEN "idle" ELSE "promote"},
                node, kubeNode)
    /\ UNCHANGED <<api, cache, hosts, notes, ctl, bounds>>

Promote ==
    /\ pc = "promote"
    /\ Patched(CurrentState("Next"), {"idle"})
    /\ vetted' = vetted \ {req}
    /\ UNCHANGED <<hosts, hooked, ctl, bounds>>

SetActive ==
    /\ pc = "setActive"
    /\ Patched([apiNode[req] EXCEPT !.state = "Active"], {"idle"})
    /\ UNCHANGED <<hosts, notes, ctl, bounds>>

\* DrainManager.IsHealthy and IsDrainOk; a plugin that says no is an error.
Vet ==
    /\ pc = "vet"
    /\ IF ClusterNodesHealthy
       THEN vetted' = vetted \cup {req} /\ Continue({"setDraining"}, node, kubeNode)
       ELSE UNCHANGED vetted /\ Return
    /\ UNCHANGED <<api, cache, hosts, hooked, ctl, bounds>>

SetDraining ==
    /\ pc = "setDraining"
    /\ Patched(CurrentState("Draining"),
               {IF Unschedulable(kubeNode) THEN "preDrain" ELSE "drainCordon"})
    /\ UNCHANGED <<hosts, notes, ctl, bounds>>

DrainCordon ==
    /\ pc = "drainCordon"
    /\ PatchedKube(OurCordon, {"preDrain"})
    /\ UNCHANGED <<hosts, notes, ctl, bounds>>

\* The controller does not drain the node it runs on: it deletes its own pod.
RescheduleController ==
    /\ pc = "preDrain" /\ home = req
    /\ stopping' = TRUE
    /\ Return
    /\ UNCHANGED <<api, cache, hosts, notes, home, bounds>>

\* DrainManager.RunPreDrain: it stops at the first plugin that fails, the ones
\* before it have run.
RunPreDrain ==
    /\ pc = "preDrain" /\ home # req
    /\ hooked' = hooked \cup {req}
    /\ \/ Continue({"drainCleanup"}, node, kubeNode) /\ UNCHANGED faults
       \/ faults < MaxFaults /\ faults' = faults + 1 /\ Return
    /\ UNCHANGED <<api, cache, hosts, vetted, ctl, events>>

\* CleanupNode, so that the drain does not wait for our own pods.
CleanupBeforeDrain ==
    /\ pc = "drainCleanup"
    /\ CleanupNode(req)
    /\ Continue({"evict"}, node, kubeNode)
    /\ UNCHANGED <<api, cache, hostReq, workload, notes, ctl, bounds>>

RunNodeDrainUnchecked ==
    /\ pc = "evict"
    /\ \E left \in BOOLEAN : workload' = [workload EXCEPT ![req] = left]
    /\ Continue({"setDrained"}, node, kubeNode)
    /\ UNCHANGED <<api, cache, rebootPods, hostReq, notes, ctl, bounds>>
RunNodeDrain ==
    /\ pc = "evict"
    /\ workload' = [workload EXCEPT ![req] = FALSE]
    /\ Continue({"setDrained"}, node, kubeNode)
    /\ UNCHANGED <<api, cache, rebootPods, hostReq, notes, ctl, bounds>>

SetDrained ==
    LET new == [apiNode[req] EXCEPT !.drained = TRUE,
                    !.cur = IF node.cur = "Drained" THEN @ ELSE "Drained"] IN
    /\ pc = "setDrained"
    /\ Patched(new, RebootPart(new, kubeNode))
    /\ UNCHANGED <<hosts, notes, ctl, bounds>>

SetBootID ==
    LET new == [StatusDefaults(apiNode[req]) EXCEPT !.bootID = kubeNode.boot] IN
    /\ pc = "setBootID"
    /\ Patched(new, {"rebootNode"})
    /\ UNCHANGED <<hosts, notes, ctl, bounds>>

\* RebootManager.RebootNode: it asks the API server, not the cache, whether
\* the node is cordoned.
RebootNode ==
    /\ pc = "rebootNode"
    /\ IF ~apiKube[req].present \/ ~Unschedulable(apiKube[req])
       THEN Return /\ UNCHANGED rebootPods
       ELSE /\ Continue({IF node.cur = "Rebooting" THEN "idle" ELSE "setRebooting"},
                        node, kubeNode)
            /\ IF ContainerNode THEN UNCHANGED rebootPods
               ELSE /\ rebootPods[req] < MaxPods
                    /\ rebootPods' = [rebootPods EXCEPT ![req] = @ + 1]
    /\ UNCHANGED <<api, cache, hostReq, workload, notes, ctl, bounds>>

SetRebooting ==
    /\ pc = "setRebooting"
    /\ Patched(CurrentState("Rebooting"), {"idle"})
    /\ UNCHANGED <<hosts, notes, ctl, bounds>>

\* RebootManager.IsNodeRebooted once it is going to say yes: it removes the
\* reboot pods, or the marker file of a container node.
NodeRebooted ==
    /\ pc = "nodeRebooted"
    /\ IF ContainerNode /\ ~(apiKube[req].present /\ apiKube[req].ready)
       THEN Return /\ UNCHANGED <<rebootPods, hostReq>>
       ELSE /\ Continue({"saveRebooted"}, node, kubeNode)
            /\ IF ContainerNode
               THEN hostReq' = [hostReq EXCEPT ![req] = FALSE] /\ UNCHANGED rebootPods
               ELSE CleanupNode(req) /\ UNCHANGED hostReq
    /\ UNCHANGED <<api, cache, workload, notes, ctl, bounds>>

RebootDone(nd) == [nd EXCEPT !.bootID = NoBoot, !.reboot = "no"]

SaveRebooted ==
    LET new == RebootDone(StatusDefaults(apiNode[req])) IN
    /\ pc = "saveRebooted"
    /\ Patched(new, {IF new.state = "Active" THEN "idle" ELSE "setActive"})
    /\ UNCHANGED <<hosts, notes, ctl, bounds>>

\* Any call may fail before it has an effect: a lost request, a plugin's error
\* or refusal, a timeout, the death of the process.
ReconcileError ==
    /\ pc # "idle"
    /\ faults < MaxFaults /\ faults' = faults + 1
    /\ Return
    /\ UNCHANGED <<api, cache, hosts, notes, ctl, events>>

Step ==
    \/ CreateNewNode \/ RemoveFinalizer
    \/ StartUndrain \/ UndrainHealthy \/ UndrainUncordon \/ RunPostDrain
    \/ UndrainReset \/ UndrainOk \/ ClearDrained
    \/ IsRebootRequired \/ SaveRebootRequired
    \/ Uncordon \/ SetOk \/ CleanupActive \/ Cordon \/ SetCordoned
    \/ Enqueue \/ IsNextNode \/ Promote \/ SetActive
    \/ Vet \/ SetDraining \/ DrainCordon \/ RescheduleController
    \/ RunPreDrain \/ CleanupBeforeDrain \/ RunNodeDrain \/ SetDrained
    \/ SetBootID \/ RebootNode \/ SetRebooting \/ NodeRebooted \/ SaveRebooted

-----------------------------------------------------------------------------
(* The controller's pod, the informers, the hosts, users and other managers. *)

Terminate ==
    /\ stopping
    /\ home' = NoNode /\ stopping' = FALSE
    /\ Return
    /\ UNCHANGED <<api, cache, hosts, notes, bounds>>

\* The pod comes back on a node that takes pods, with newly listed caches.
Restart(m) ==
    /\ home = NoNode
    /\ apiKube[m].present /\ apiKube[m].ready /\ ~Unschedulable(apiKube[m])
    /\ home' = m /\ stopping' = FALSE
    /\ cacheNode' = apiNode /\ cacheKube' = apiKube
    /\ UNCHANGED <<api, local, hosts, notes, bounds>>

SyncNode(n) ==
    /\ cacheNode[n] # apiNode[n]
    /\ cacheNode' = [cacheNode EXCEPT ![n] = apiNode[n]]
    /\ UNCHANGED <<api, cacheKube, local, hosts, notes, ctl, bounds>>

SyncKube(n) ==
    /\ cacheKube[n] # apiKube[n]
    /\ cacheKube' = [cacheKube EXCEPT ![n] = apiKube[n]]
    /\ UNCHANGED <<api, cacheNode, local, hosts, notes, ctl, bounds>>

\* The reboot pod tells systemd to reboot; the kubelet comes back with a new
\* boot ID, ready or not yet.  A Reconcile running there dies with its host.
HostReboots(n) ==
    /\ rebootPods[n] > 0 /\ apiKube[n].boot < MaxBoots
    /\ rebootPods' = [rebootPods EXCEPT ![n] = @ - 1]
    /\ hostReq' = [hostReq EXCEPT ![n] = FALSE]
    /\ \E r \in BOOLEAN :
          WriteKube(n, [apiKube[n] EXCEPT !.boot = @ + 1, !.ready = r])
    /\ IF home = n THEN Return ELSE UNCHANGED local
    /\ SameNodes /\ UNCHANGED <<workload, notes, ctl, bounds>>

KubeletReady(n) ==
    /\ apiKube[n].present /\ ~apiKube[n].ready
    /\ WriteKube(n, [apiKube[n] EXCEPT !.ready = TRUE])
    /\ SameNodes /\ UNCHANGED <<local, hosts, notes, ctl, bounds>>

Schedule(n) ==
    /\ apiKube[n].present /\ apiKube[n].ready /\ ~Unschedulable(apiKube[n])
    /\ ~workload[n]
    /\ workload' = [workload EXCEPT ![n] = TRUE]
    /\ UNCHANGED <<api, cache, local, rebootPods, hostReq, notes, ctl, bounds>>

\* The owner reference: the drain Node of a removed core Node is deleted.
GarbageCollect(n) ==
    /\ ~apiKube[n].present /\ apiNode[n].life = "held"
    /\ WriteNode(n, [apiNode[n] EXCEPT !.life = "deleting"])
    /\ SameKubes /\ UNCHANGED <<local, hosts, notes, ctl, bounds>>

Event(kind) ==
    /\ kind \in Environment
    /\ events < MaxEvents /\ events' = events + 1
    /\ UNCHANGED faults

\* applyDefaults of the mutating webhook.
ApplyDefaults(s) == IF s = Unset THEN "Active" ELSE s

\* A write of a spec passes the webhook, which the controller's pod serves and
\* whose failure policy is to refuse.
UserRequest(n, s) ==
    /\ Event("request")
    /\ home # NoNode
    /\ apiNode[n].life # "absent"
    /\ apiNode[n].state # ApplyDefaults(s)
    /\ EarlyRequests \/ apiNode[n].cur # Unset \/ ~DrainState(ApplyDefaults(s))
    /\ WriteNode(n, [apiNode[n] EXCEPT !.state = ApplyDefaults(s)])
    /\ SameKubes /\ UNCHANGED <<local, hosts, notes, ctl>>

UserDelete(n) ==
    /\ Event("delete")
    /\ apiNode[n].life = "held"
    /\ WriteNode(n, [apiNode[n] EXCEPT !.life = "deleting"])
    /\ SameKubes /\ UNCHANGED <<local, hosts, notes, ctl>>

OtherManager(n) ==
    /\ Event("cordon")
    /\ apiKube[n].present
    /\ WriteKube(n, [apiKube[n] EXCEPT !.cordon =
                        IF Unschedulable(apiKube[n]) THEN "none" ELSE "other"])
    /\ SameNodes /\ UNCHANGED <<local, hosts, notes, ctl>>

NodeUnready(n) ==
    /\ Event("unready")
    /\ apiKube[n].present /\ apiKube[n].ready
    /\ WriteKube(n, [apiKube[n] EXCEPT !.ready = FALSE])
    /\ SameNodes /\ UNCHANGED <<local, hosts, notes, ctl>>

RebootBecomesRequired(n) ==
    /\ Event("require")
    /\ ~hostReq[n]
    /\ hostReq' = [hostReq EXCEPT ![n] = TRUE]
    /\ UNCHANGED <<api, cache, local, rebootPods, workload, notes, ctl>>

\* A core Node is deleted with its pods, the controller's own included.
NodeRemoved(n) ==
    /\ Event("remove")
    /\ apiKube[n].present
    /\ WriteKube(n, [apiKube[n] EXCEPT !.present = FALSE])
    /\ rebootPods' = [rebootPods EXCEPT ![n] = 0]
    /\ workload' = [workload EXCEPT ![n] = FALSE]
    /\ IF home = n THEN home' = NoNode /\ stopping' = FALSE /\ Return
                   ELSE UNCHANGED <<ctl, local>>
    /\ SameNodes /\ UNCHANGED <<hostReq, notes>>

\* The same host registers again, after the garbage collector has seen it go.
NodeJoins(n) ==
    /\ Event("join")
    /\ ~apiKube[n].present /\ apiNode[n].life # "held"
    /\ WriteKube(n, [apiKube[n] EXCEPT !.present = TRUE, !.cordon = "none"])
    /\ SameNodes /\ UNCHANGED <<local, hosts, notes, ctl>>

-----------------------------------------------------------------------------
Init ==
    /\ apiNode = [n \in Nodes |-> NoObject]
    /\ apiKube = [n \in Nodes |-> NewKube]
    /\ cacheNode = apiNode /\ cacheKube = apiKube
    /\ pc = "idle" /\ req = NoNode /\ node = NoObject /\ kubeNode = NoKube
    /\ required = FALSE
    /\ rebootPods = [n \in Nodes |-> 0]
    /\ hostReq \in [Nodes -> BOOLEAN]
    /\ workload = [n \in Nodes |-> TRUE]
    /\ hooked = {} /\ vetted = {}
    /\ home \in Nodes /\ stopping = FALSE
    /\ events = 0 /\ faults = 0

Next ==
    \/ \E n \in Nodes : Reconcile(n)
    \/ Step
    \/ ReconcileError
    \/ Terminate
    \/ \E n \in Nodes :
          \/ Restart(n) \/ SyncNode(n) \/ SyncKube(n)
          \/ HostReboots(n) \/ KubeletReady(n) \/ Schedule(n) \/ GarbageCollect(n)
          \/ \E s \in Requests : UserRequest(n, s)
          \/ UserDelete(n) \/ OtherManager(n) \/ NodeUnready(n)
          \/ RebootBecomesRequired(n) \/ NodeRemoved(n) \/ NodeJoins(n)

Spec == Init /\ [][Next]_vars

(***************************************************************************)
(* Fairness.  A started Reconcile goes on.  Every node is reconciled again *)
(* and again: the work queue is fair and the informers resync.  Hosts,     *)
(* kubelets, the scheduler of the controller's pod, the garbage collector  *)
(* and the watches do their part.  Users and other managers owe nothing.   *)
(***************************************************************************)
FairSpec ==
    /\ Spec
    /\ WF_vars(Step)
    /\ WF_vars(Terminate)
    /\ WF_vars(\E m \in Nodes : Restart(m))
    /\ \A n \in Nodes :
          /\ SF_vars(Reconcile(n))
          /\ WF_vars(SyncNode(n)) /\ WF_vars(SyncKube(n))
          /\ WF_vars(HostReboots(n)) /\ WF_vars(KubeletReady(n))
          /\ WF_vars(GarbageCollect(n))

-----------------------------------------------------------------------------
(* Properties. *)

TypeObjects ==
    /\ apiNode \in [Nodes -> NodeObjects] /\ cacheNode \in [Nodes -> NodeObjects]
    /\ apiKube \in [Nodes -> KubeObjects] /\ cacheKube \in [Nodes -> KubeObjects]

TypeLocal ==
    /\ pc \in Labels
    /\ req \in Nodes \cup {NoNode} /\ (req = NoNode <=> pc = "idle")
    /\ node \in NodeObjects /\ kubeNode \in KubeObjects
    /\ required \in BOOLEAN

TypeWorld ==
    /\ rebootPods \in [Nodes -> 0..MaxPods]
    /\ hostReq \in [Nodes -> BOOLEAN] /\ workload \in [Nodes -> BOOLEAN]
    /\ hooked \subseteq Nodes /\ vetted \subseteq Nodes
    /\ home \in Nodes \cup {NoNode} /\ stopping \in BOOLEAN
    /\ events \in 0..MaxEvents /\ faults \in 0..MaxFaults

\* Every variable has its type, a Reconcile is in progress exactly when it has
\* a request, and spec.state is never left empty (the webhook's default).
TypeOK == TypeObjects /\ TypeLocal /\ TypeWorld

\* Two nodes never work at once: what isNextNode's list is for.
AtMostOneWorker ==
    \A m, n \in Nodes : apiNode[m].cur \in Slot /\ apiNode[n].cur \in Slot => m = n

\* A node that is being drained, is drained, or reboots, passed the health
\* gates of drain after it became Next.
DrainVetted ==
    \A n \in Nodes : apiNode[n].cur \in {"Draining", "Drained", "Rebooting"} => n \in vetted

\* status.drained of a cordoned node tells the truth: nothing evictable runs
\* there, however often the node was drained, cordoned and given back.
DrainedMeansEmpty ==
    \A n \in Nodes : apiNode[n].drained /\ Unschedulable(apiKube[n]) => ~workload[n]

\* The operator keeps the promise of DrainLifecycle: one node at a time, through
\* the queue, phase by phase (setCurrentState's callers).
Phase(c) ==
    CASE c = "Queued" -> "queued"
      [] c = "Next" -> "next"
      [] c = "Draining" -> "draining"
      [] c = "Drained" -> "drained"
      [] c = "Rebooting" -> "rebooting"
      [] c = "Undraining" -> "undraining"
      [] OTHER -> "out"

Lifecycle == INSTANCE DrainLifecycle
                WITH phase <- [n \in Nodes |-> Phase(apiNode[n].cur)]
LifecycleSpec == Lifecycle!Spec

\* RebootNode is called for a node that, at that moment, is cordoned, has
\* nothing left to evict, is recorded as drained, and whose boot ID is saved:
\* without the last, IsNodeRebooted would take the old boot for a new one.
RebootOnlyEmpty ==
    [][\A n \in Nodes : rebootPods'[n] > rebootPods[n] =>
          /\ Unschedulable(apiKube[n]) /\ ~workload[n]
          /\ apiNode[n].drained /\ apiNode[n].bootID # NoBoot]_vars

\* RebootIfRequired reboots only nodes recorded as in need of it: the check
\* before the drain (WorkPart, Decide) still decides when the reboot branch is
\* reached, several patches later.
RebootOnlyIfRequired ==
    [][\A n \in Nodes : rebootPods'[n] > rebootPods[n] => apiNode[n].reboot = "yes"]_vars

\* status.rebootRequired outlives the host's need only while a reboot is under
\* way (its boot ID is saved): once SaveRebooted has ended a reboot, the flag,
\* trusted for two minutes, cannot cause another for the need just met.
RebootRecordTrue ==
    \A n \in Nodes : apiNode[n].reboot = "yes" /\ ~hostReq[n] => apiNode[n].bootID # NoBoot

\* A reboot pod that has yet to run is on a cordoned node (RebootNode's "node
\* needs to be cordoned before reboot").
NoRebootWhileSchedulable ==
    \A n \in Nodes : rebootPods[n] > 0 => Unschedulable(apiKube[n])

\* Plugins that were told PreDrain are told PostDrain before the node is OK
\* again, although calls fail and requests are withdrawn at any time.  It is about
\* drains that end by undrain: not those that end in Cordoned or in the deletion
\* of the drain Node, nor those during which others uncordon the node.
HooksBalanced ==
    \A n \in Nodes : apiNode[n].cur = "OK" => n \notin hooked

\* A reboot that was asked for comes to an end: the node is given back, even if
\* it holds the controller, calls fail, or another node is ahead in the queue.
RebootCompletes ==
    \A n \in Nodes :
        apiNode[n].state = "RebootIfRequired" ~>
            apiNode[n].state = "Active" /\ apiNode[n].cur = "OK"

\* A node that is next in line for a reboot gets on with it, or is taken back.
NextGetsOn ==
    \A n \in Nodes :
        apiNode[n].cur = "Next" /\ apiNode[n].state = "RebootIfRequired" ~>
            apiNode[n].cur # "Next" \/ apiNode[n].state # "RebootIfRequired"

\* A node that is to be Active becomes OK, from any state it was in, unless it
\* is asked for something else.
ActiveSettles ==
    \A n \in Nodes :
        apiNode[n].life = "held" /\ apiNode[n].state = "Active" ~>
            apiNode[n].state # "Active" \/ apiNode[n].cur = "OK"

\* The controller that deleted its own pod to drain its node comes back.
ControllerReturns == home = NoNode ~> home # NoNode

\* An object that is being deleted goes away (the finalizer is removed).
DeletionCompletes ==
    \A n \in Nodes : apiNode[n].life = "deleting" ~> apiNode[n].life # "deleting"
-----------------------------------------------------------------------------
(* The inductive invariant behind AtMostOneWorker and LifecycleSpec, for    *)
(* caches that do not lag and users that wait for the first status.        *)

CacheCurrent == cacheNode = apiNode

\* A new object, whose empty current state counts as working, is not drained.
NewNotDrained(nd) == nd.cur = Unset => ~DrainState(nd.state)

\* The current states in which Reconcile can be about to make call l.
CurrentAt(l) ==
    CASE l \in {"isNext", "promote"} -> {"Queued"}
      [] l = "enqueue" -> {"OK", "Cordoned"}
      [] l \in {"vet", "setDraining"} -> {"Next"}
      [] l \in {"recheck", "saveRecheck"} -> {"Next", "Drained"}
      [] l \in {"drainCordon", "preDrain", "drainCleanup", "evict", "setDrained",
                "startUndrain"} -> {"Draining", "Drained", "Rebooting"}
      [] l \in {"setBootID", "rebootNode", "setRebooting"} -> {"Drained"}
      [] l \in {"clearDrained", "checkReboot", "saveCheck"} ->
            (NodeCurrentStates \cup {Unset}) \ {"Undraining"}
      [] OTHER -> NodeCurrentStates \cup {Unset}

\* No object, no current state.
AbsentUnset == \A n \in Nodes : apiNode[n].life = "absent" => apiNode[n].cur = Unset

\* Nobody but Reconcile writes a current state, so its local one is right.
LocalCurrent ==
    pc # "idle" => /\ node.cur = apiNode[req].cur
                   /\ node.cur \in CurrentAt(pc)
                   /\ NewNotDrained(node)

\* What isNextNode saw still holds when its caller promotes the node.
SlotFree == pc = "promote" => \A m \in Nodes : apiNode[m].cur \notin Slot

\* Together: the strengthening of AtMostOneWorker that every step preserves.
IInv ==
    /\ TypeOK
    /\ CacheCurrent
    /\ \A n \in Nodes : NewNotDrained(apiNode[n])
    /\ AbsentUnset
    /\ LocalCurrent
    /\ SlotFree
    /\ AtMostOneWorker
=============================================================================
