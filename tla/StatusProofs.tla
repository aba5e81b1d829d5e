---------------------------- MODULE StatusProofs ----------------------------
(***************************************************************************)
(* What a step of NodeController can do to status, cordons, hosts, notes   *)
(* and requests.                                                           *)
(*                                                                         *)
(* Nobody but Reconcile writes the status of a drain Node, so its local    *)
(* status is right while it runs, and the branch it took to get to a call  *)
(* (Ready) still says something about the object when it makes it: this is *)
(* the invariant Known.  The frames after it (StatusStep, CordonStep,      *)
(* HostStep, NoteStep, SpecStep, FlowStep) say, per kind of state, which   *)
(* call of Reconcile or which event changes it and how; ReconcileProofs    *)
(* reasons with them and not with the actions.                             *)
(***************************************************************************)
EXTENDS WorkSlotProofs

SameStatus(a, b) ==
    a.cur = b.cur /\ a.drained = b.drained /\ a.reboot = b.reboot /\ a.bootID = b.bootID

UndrainCalls == {"undrainHealthy", "undrainUncordon", "postDrain", "undrainReset",
                 "undrainOk"}
DrainCalls == {"vet", "setDraining", "drainCordon", "preDrain", "drainCleanup", "evict",
               "setDrained"}
RebootCalls == {"setBootID", "rebootNode", "setRebooting"}

\* What Reconcile's local objects look like when it is about to make call l.
At(l, nd, kn) ==
    /\ l \in UndrainCalls => nd.cur = "Undraining"
    /\ l \in {"checkReboot", "saveCheck"} => ~WorkState(nd.cur) /\ ~NotYetCleared(nd, kn)
    /\ l \in {"recheck", "saveRecheck"} => nd.cur \in {"Next", "Drained"}
    /\ l \in DrainCalls \cup {"cordon"} => ~nd.drained
    /\ l \in {"preDrain", "drainCleanup", "evict", "setDrained"} => Unschedulable(kn)
    /\ l \in RebootCalls => nd.drained /\ nd.cur = "Drained"
    /\ l \in {"rebootNode", "setRebooting"} => nd.bootID # NoBoot
    /\ l \in {"nodeRebooted", "saveRebooted"} => nd.cur = "Rebooting"
    /\ l = "finalize" => nd.life = "deleting"

Ready(L, nd, kn) == \A l \in L : At(l, nd, kn)

LocalStatus ==
    pc # "idle" => SameStatus(node, apiNode[req]) /\ At(pc, node, kubeNode)

\* The status of an object that does not exist, or that is new.
Fresh(nd) ==
    nd.cur = Unset /\ nd.drained = FALSE /\ nd.reboot = "unknown" /\ nd.bootID = NoBoot

AbsentFresh == \A n \in Nodes : apiNode[n].life = "absent" => Fresh(apiNode[n])

Known == TypeOK /\ CacheCurrent /\ AbsentFresh /\ LocalStatus

-----------------------------------------------------------------------------
(* The control flow of Reconcile takes it to calls it is ready for. *)

Calls == UndrainCalls \cup DrainCalls \cup RebootCalls
         \cup {"checkReboot", "saveCheck", "recheck", "saveRecheck", "cordon",
               "nodeRebooted", "saveRebooted", "finalize"}

\* At says nothing of the other calls.
LEMMA ReadyOther ==
    ASSUME NEW nd, NEW kn, NEW l, l \notin Calls
    PROVE  At(l, nd, kn)
  BY Zenon DEF At, Calls, DrainCalls, RebootCalls, UndrainCalls

\* rebootNode is reached with a drained node.
LEMMA ReadyReboot ==
    ASSUME NEW nd, NEW kn \in KubeObjects
    PROVE  Ready(RebootPart(nd, kn), nd, kn)
  <1>1. kn.boot # NoBoot
    BY ConstantsAssumption DEF KubeObjects, BootIDs, NoBoot
  <1>2. At("idle", nd, kn)
    BY ReadyOther DEF Calls, DrainCalls, RebootCalls, UndrainCalls
  <1>3. CASE nd.cur = "Drained" /\ nd.drained
    BY <1>1, <1>2, <1>3 DEF RebootPart, BootSaved, Ready, At, DrainCalls, RebootCalls,
       UndrainCalls
  <1>4. CASE ~(nd.cur = "Drained" /\ nd.drained)
    BY <1>2, <1>4 DEF RebootPart, Ready, At, DrainCalls, RebootCalls, UndrainCalls
  <1> QED  BY <1>3, <1>4

\* drain is reached with a node that is not drained.
LEMMA ReadyDrain ==
    ASSUME NEW nd, NEW kn \in KubeObjects
    PROVE  Ready(DrainPart(nd, kn), nd, kn)
  <1>1. CASE DrainState(nd.state) /\ ~nd.drained
    BY <1>1 DEF DrainPart, DrainEntry, Ready, At, DrainCalls, RebootCalls, UndrainCalls
  <1>2. CASE ~(DrainState(nd.state) /\ ~nd.drained)
    BY <1>2, ReadyReboot DEF DrainPart
  <1> QED  BY <1>1, <1>2

\* So are both after the decision whether a reboot is required.
LEMMA ReadyDecide ==
    ASSUME NEW nd, NEW kn \in KubeObjects, NEW b
    PROVE  Ready(Decide(nd, kn, b), nd, kn)
  <1>1. At("idle", nd, kn) /\ At("setActive", nd, kn)
    BY ReadyOther DEF Calls, DrainCalls, RebootCalls, UndrainCalls
  <1> QED  BY <1>1, ReadyDrain DEF Decide, Ready

\* And in the branch for nodes that hold the slot or wait for it.
LEMMA ReadyWork ==
    ASSUME NEW nd, NEW kn \in KubeObjects
    PROVE  Ready(WorkPart(nd, kn), nd, kn)
  <1>1. CASE ~WorkState(nd.cur)
    <2>1. At("idle", nd, kn) /\ At("isNext", nd, kn)
      BY ReadyOther DEF Calls, DrainCalls, RebootCalls, UndrainCalls
    <2> QED  BY <1>1, <2>1 DEF WorkPart, Ready
  <1>2. CASE WorkState(nd.cur) /\ nd.state = "RebootIfRequired" /\ nd.cur \in {"Next", "Drained"}
    <2>1. At("recheck", nd, kn)
      BY <1>2 DEF At, DrainCalls, RebootCalls, UndrainCalls
    <2> QED  BY <1>2, <2>1, ReadyDecide DEF WorkPart, Ready
  <1>3. CASE WorkState(nd.cur) /\ ~(nd.state = "RebootIfRequired" /\ nd.cur \in {"Next", "Drained"})
    BY <1>3, ReadyDrain DEF WorkPart
  <1> QED  BY <1>1, <1>2, <1>3

\* The switch on spec.state is ready for whichever call it takes.
LEMMA ReadySwitch ==
    ASSUME NEW nd, NEW kn \in KubeObjects, ~NotYetCleared(nd, kn)
    PROVE  Ready(SwitchState(nd, kn), nd, kn)
  <1>1. \A l \in {"idle", "uncordon", "setOk", "cleanup", "setCordoned", "enqueue"} :
            At(l, nd, kn)
    BY ReadyOther DEF Calls, DrainCalls, RebootCalls, UndrainCalls
  <1>2. CASE nd.state = "Active"
    BY Zenon, <1>1, <1>2 DEF SwitchState, Ready
  <1>3. CASE nd.state = "Cordoned"
    <2>1. ~Unschedulable(kn) => At("cordon", nd, kn)
      BY DEF NotYetCleared, At, DrainCalls, RebootCalls, UndrainCalls
    <2> QED  BY <1>1, <1>3, <2>1 DEF SwitchState, Ready
  <1>4. CASE nd.state \notin {"Active", "Cordoned"}
    BY <1>1, <1>4, ReadyWork DEF SwitchState, Ready
  <1> QED  BY <1>2, <1>3, <1>4

\* So is the check for a reboot before it.
LEMMA ReadyCheck ==
    ASSUME NEW nd, NEW kn \in KubeObjects, ~NotYetCleared(nd, kn)
    PROVE  Ready(CheckReboot(nd, kn), nd, kn)
  <1>1. ~WorkState(nd.cur) => At("checkReboot", nd, kn)
    BY DEF At, DrainCalls, RebootCalls, UndrainCalls
  <1> QED  BY <1>1, ReadySwitch DEF CheckReboot, Ready

\* So is what follows an undrain.
LEMMA ReadyAfter ==
    ASSUME NEW nd, NEW kn \in KubeObjects
    PROVE  Ready(AfterUndrain(nd, kn), nd, kn)
  <1>1. At("clearDrained", nd, kn)
    BY ReadyOther DEF Calls, DrainCalls, RebootCalls, UndrainCalls
  <1> QED  BY <1>1, ReadyCheck DEF AfterUndrain, Ready

\* So is the beginning of Reconcile.
LEMMA ReadyEntry ==
    ASSUME NEW nd, NEW kn \in KubeObjects
    PROVE  Ready(Entry(nd, kn), nd, kn)
  <1>1. At("create", nd, kn) /\ At("startUndrain", nd, kn)
    BY ReadyOther DEF Calls, DrainCalls, RebootCalls, UndrainCalls
  <1>0. nd.life = "deleting" => At("finalize", nd, kn)
    BY DEF At, DrainCalls, RebootCalls, UndrainCalls
  <1>2. CASE nd.cur = "Undraining"
    <2>1. Ready(UndrainPart(nd, kn), nd, kn)
      BY <1>2 DEF UndrainPart, Ready, At, DrainCalls, RebootCalls, UndrainCalls
    <2> QED  BY <1>0, <1>1, <2>1 DEF Entry, Deleting, Ready
  <1>3. CASE nd.cur # "Undraining"
    <2>1. Ready(UndrainPart(nd, kn), nd, kn)
      BY <1>1, <1>3, ReadyAfter DEF UndrainPart, Ready
    <2> QED  BY <1>0, <1>1, <2>1 DEF Entry, Deleting, Ready
  <1> QED  BY <1>2, <1>3

-----------------------------------------------------------------------------
(* Every step keeps Known. *)

\* Going on to a call Reconcile is ready for, with no write, keeps Known.
LEMMA KnownContinue ==
    ASSUME Known, SameNodes, TypeOK', NEW L, NEW kn, pc # "idle", Continue(L, node, kn),
           Ready(L, node, kn)
    PROVE  Known'
  <1>1. apiNode' = apiNode /\ cacheNode' = cacheNode  BY DEF SameNodes
  <1>2. CacheCurrent' /\ AbsentFresh'
    BY <1>1 DEF Known, CacheCurrent, AbsentFresh, Fresh
  <1>3. CASE pc' = "idle"  BY <1>2, <1>3 DEF Known, LocalStatus
  <1>4. CASE pc' # "idle"
    <2>1. pc' \in L /\ req' = req /\ node' = node /\ kubeNode' = kn
      BY <1>4 DEF Continue
    <2>2. At(pc', node', kubeNode')  BY <2>1 DEF Ready
    <2>3. SameStatus(node', apiNode'[req'])
      BY <1>1, <2>1 DEF Known, LocalStatus, SameStatus
    <2> QED  BY <1>2, <2>2, <2>3 DEF Known, LocalStatus, SameStatus, At
  <1> QED  BY <1>3, <1>4

\* Returning keeps Known.
LEMMA KnownReturn ==
    ASSUME Known, SameNodes, TypeOK', Return
    PROVE  Known'
  <1>1. pc' = "idle" /\ apiNode' = apiNode /\ cacheNode' = cacheNode
    BY DEF Return, Continue, SameNodes
  <1> QED  BY <1>1 DEF Known, CacheCurrent, LocalStatus, AbsentFresh, Fresh

\* What touches neither drain Nodes nor Reconcile keeps Known.
LEMMA KnownKeep ==
    ASSUME Known, apiNode' = apiNode, cacheNode' = apiNode, UNCHANGED local, TypeOK'
    PROVE  Known'
  <1>1. UNCHANGED <<pc, req, node, kubeNode>>  BY DEF local
  <1>2. LocalStatus'  BY <1>1 DEF Known, LocalStatus, SameStatus, At
  <1> QED  BY <1>2 DEF Known, CacheCurrent, AbsentFresh, Fresh

\* A patch that leads to a call Reconcile is ready for keeps Known.
LEMMA KnownPatch ==
    ASSUME Known, ~CacheLag, TypeOK', pc # "idle", NEW new, NEW L, Patched(new, L),
           Ready(L, new, kubeNode), new.life = apiNode[req].life
    PROVE  Known'
  <1>0. req \in Nodes /\ apiNode \in [Nodes -> NodeObjects]
    BY StepRequest DEF Known, TypeOK, TypeObjects
  <1>1. CASE apiNode[req].life = "absent"  BY <1>1, KnownReturn DEF Patched
  <1>2. CASE apiNode[req].life # "absent"
    <2>1. WriteNode(req, new) /\ Continue(L, new, kubeNode)  BY <1>2 DEF Patched
    <2>2. CacheCurrent' /\ AbsentFresh'
      BY <1>0, <1>2, <2>1 DEF Known, CacheCurrent, AbsentFresh, Fresh, WriteNode
    <2>3. CASE pc' = "idle"  BY <2>2, <2>3 DEF Known, LocalStatus
    <2>4. CASE pc' # "idle"
      <3>1. pc' \in L /\ req' = req /\ node' = new /\ kubeNode' = kubeNode
        BY <2>1, <2>4 DEF Continue
      <3>3. apiNode'[req'] = new  BY <1>0, <2>1, <3>1 DEF WriteNode
      <3>4. SameStatus(node', apiNode'[req'])  BY <3>1, <3>3 DEF SameStatus
      <3>5. At(pc', node', kubeNode')  BY <3>1 DEF Ready
      <3> QED  BY <2>2, <3>4, <3>5 DEF Known, LocalStatus, SameStatus, At
    <2> QED  BY <2>3, <2>4
  <1> QED  BY <1>1, <1>2

\* A write of a drain Node by somebody else, or one that ends the Reconcile.
LEMMA KnownWrite ==
    ASSUME Known, ~CacheLag, TypeOK', NEW n \in Nodes, NEW new, WriteNode(n, new),
           new.life = "absent" => Fresh(new),
           \/ UNCHANGED local /\ SameStatus(new, apiNode[n])
           \/ Return
    PROVE  Known'
  <1>1. apiNode \in [Nodes -> NodeObjects]  BY DEF Known, TypeOK, TypeObjects
  <1>2. apiNode' = [apiNode EXCEPT ![n] = new] /\ CacheCurrent' /\ AbsentFresh'
    BY <1>1 DEF WriteNode, Known, CacheCurrent, AbsentFresh, Fresh
  <1>3. CASE Return  BY <1>2, <1>3 DEF Return, Continue, Known, LocalStatus
  <1>4. CASE UNCHANGED local /\ SameStatus(new, apiNode[n])
    <2>1. UNCHANGED <<pc, req, node, kubeNode>>  BY <1>4 DEF local
    <2>2. pc # "idle" => req \in Nodes  BY StepRequest DEF Known
    <2>3. \A m \in Nodes : SameStatus(apiNode'[m], apiNode[m])
      BY <1>1, <1>2, <1>4 DEF SameStatus
    <2>4. pc # "idle" => SameStatus(node, apiNode'[req])
      BY <2>2, <2>3 DEF Known, LocalStatus, SameStatus
    <2>5. LocalStatus'  BY <2>1, <2>4 DEF Known, LocalStatus, SameStatus, At
    <2> QED  BY <1>2, <2>5 DEF Known
  <1> QED  BY <1>3, <1>4

\* What the objects of the patches hold.
LEMMA PatchFields ==
    ASSUME TypeOK, pc # "idle"
    PROVE  /\ req \in Nodes /\ apiNode[req] \in NodeObjects /\ kubeNode \in KubeObjects
           /\ \A c : /\ CurrentState(c).cur = c
                     /\ CurrentState(c).drained = apiNode[req].drained
                     /\ CurrentState(c).reboot = apiNode[req].reboot
                     /\ CurrentState(c).bootID = apiNode[req].bootID
                     /\ CurrentState(c).life = apiNode[req].life
           /\ StatusDefaults(apiNode[req]) \in NodeObjects
           /\ StatusDefaults(apiNode[req]).cur =
                 IF apiNode[req].cur = Unset THEN "OK" ELSE apiNode[req].cur
           /\ StatusDefaults(apiNode[req]).drained = apiNode[req].drained
           /\ StatusDefaults(apiNode[req]).reboot = apiNode[req].reboot
           /\ StatusDefaults(apiNode[req]).bootID = apiNode[req].bootID
           /\ StatusDefaults(apiNode[req]).life = apiNode[req].life
           /\ NotDrained.cur = StatusDefaults(apiNode[req]).cur
           /\ NotDrained.drained = FALSE
           /\ NotDrained.reboot = apiNode[req].reboot
           /\ NotDrained.bootID = apiNode[req].bootID
           /\ NotDrained.life = apiNode[req].life
  <1>1. req \in Nodes /\ apiNode[req] \in NodeObjects /\ kubeNode \in KubeObjects
    BY StepRequest DEF TypeOK, TypeObjects, TypeLocal
  <1>2. \A c : /\ CurrentState(c).cur = c
               /\ CurrentState(c).drained = apiNode[req].drained
               /\ CurrentState(c).reboot = apiNode[req].reboot
               /\ CurrentState(c).bootID = apiNode[req].bootID
               /\ CurrentState(c).life = apiNode[req].life
    BY <1>1 DEF CurrentState, NodeObjects
  <1> DEFINE sd == StatusDefaults(apiNode[req])
  <1>3. sd \in NodeObjects  BY Zenon, <1>1, NodeEdits
  <1>4. /\ sd.cur = IF apiNode[req].cur = Unset THEN "OK" ELSE apiNode[req].cur
        /\ sd.drained = apiNode[req].drained
        /\ sd.reboot = apiNode[req].reboot
        /\ sd.bootID = apiNode[req].bootID
        /\ sd.life = apiNode[req].life
    BY <1>1 DEF StatusDefaults, NodeObjects
  <1>5. NotDrained = [sd EXCEPT !.drained = FALSE]  BY DEF NotDrained
  <1> HIDE DEF sd
  <1>6. /\ NotDrained.cur = sd.cur /\ NotDrained.drained = FALSE
        /\ NotDrained.reboot = sd.reboot /\ NotDrained.bootID = sd.bootID
        /\ NotDrained.life = sd.life
    BY <1>3, <1>5 DEF NodeObjects
  <1> QED  BY Zenon, <1>1, <1>2, <1>3, <1>4, <1>6 DEF sd

\* The patches Reconcile makes are of that kind.
LEMMA KnownNodePatch ==
    ASSUME Known, ~CacheLag, TypeOK',
           \/ StartUndrain \/ UndrainReset \/ UndrainOk \/ ClearDrained
           \/ SaveRebootRequired \/ SetOk \/ SetCordoned \/ Enqueue \/ Promote
           \/ SetActive \/ SetDraining \/ SetDrained \/ SetBootID \/ SetRebooting
           \/ SaveRebooted
    PROVE  Known'
  <1>1. pc # "idle"
    BY DEF StartUndrain, UndrainReset, UndrainOk, ClearDrained, SaveRebootRequired,
       SetOk, SetCordoned, Enqueue, Promote, SetActive, SetDraining, SetDrained,
       SetBootID, SetRebooting, SaveRebooted
  <1> DEFINE sd == StatusDefaults(apiNode[req])
  <1>2. TypeOK /\ SameStatus(node, apiNode[req]) /\ At(pc, node, kubeNode)
    BY <1>1 DEF Known, LocalStatus
  <1>3. /\ apiNode[req] \in NodeObjects /\ kubeNode \in KubeObjects
        /\ sd \in NodeObjects
        /\ sd.cur = IF apiNode[req].cur = Unset THEN "OK" ELSE apiNode[req].cur
        /\ sd.drained = apiNode[req].drained /\ sd.life = apiNode[req].life
        /\ NotDrained.life = apiNode[req].life
        /\ \A c : CurrentState(c).life = apiNode[req].life
    BY Zenon, <1>1, <1>2, PatchFields
  <1>4. ASSUME NEW new, NEW L, Patched(new, L), Ready(L, new, kubeNode),
               new.life = apiNode[req].life
        PROVE  Known'
    BY <1>1, <1>4, KnownPatch
  <1>5. \A nd, l : l \in {"idle", "cleanup", "setActive"} => At(l, nd, kubeNode)
    BY ReadyOther DEF Calls, DrainCalls, RebootCalls, UndrainCalls
  <1>6. \A nd, l : l \in {"idle", "cleanup", "setActive"} => Ready({l}, nd, kubeNode)
    BY <1>5 DEF Ready
  <1> HIDE DEF sd
  <1>a. CASE StartUndrain  BY <1>a, <1>3, <1>4, <1>6 DEF StartUndrain
  <1>b. CASE UndrainReset
    <2>1. apiNode[req].cur = "Undraining"
      BY <1>b, <1>2 DEF UndrainReset, SameStatus, At, UndrainCalls
    <2>2. NotDrained.cur = "Undraining"
      BY Zenon, <1>1, <1>2, <2>1, PatchFields DEF Unset
    <2>3. Ready({"undrainOk"}, NotDrained, kubeNode)
      BY <2>2 DEF Ready, At, UndrainCalls, DrainCalls, RebootCalls
    <2> QED  BY <1>b, <1>3, <1>4, <2>2, <2>3 DEF UndrainReset
  <1>c. CASE UndrainOk
    BY <1>c, <1>3, <1>4, ReadyAfter DEF UndrainOk
  <1>d. CASE ClearDrained
    <2>1. ~NotYetCleared(NotDrained, kubeNode)
      BY Zenon, <1>1, <1>2, PatchFields DEF NotYetCleared
    <2> QED  BY <1>d, <1>3, <1>4, <2>1, ReadyCheck DEF ClearDrained
  <1>e. CASE SaveRebootRequired
    <2> DEFINE new == [sd EXCEPT !.reboot = IF required THEN "yes" ELSE "no"]
               L == IF pc = "saveCheck" THEN SwitchState(new, kubeNode)
                    ELSE Decide(new, kubeNode, required)
    <2>1. Patched(new, L) /\ pc \in {"saveCheck", "saveRecheck"}
      BY <1>e DEF SaveRebootRequired, sd
    <2>2. new.drained = node.drained /\ new.life = apiNode[req].life
      BY <1>2, <1>3 DEF NodeObjects, SameStatus
    <2>3. pc = "saveCheck" => ~NotYetCleared(new, kubeNode)
      BY <1>2, <2>2 DEF At, NotYetCleared
    <2> HIDE DEF new
    <2>4. Ready(L, new, kubeNode)
      BY <1>3, <2>3, ReadySwitch, ReadyDecide
    <2> HIDE DEF L
    <2> QED  BY <1>4, <2>1, <2>2, <2>4
  <1>f. CASE SetOk  BY <1>f, <1>3, <1>4, <1>6 DEF SetOk
  <1>g. CASE SetCordoned  BY <1>g, <1>3, <1>4, <1>6 DEF SetCordoned
  <1>h. CASE Enqueue  BY <1>h, <1>3, <1>4, <1>6 DEF Enqueue
  <1>i. CASE Promote  BY <1>i, <1>3, <1>4, <1>6 DEF Promote
  <1>j. CASE SetActive
    <2>1. [apiNode[req] EXCEPT !.state = "Active"].life = apiNode[req].life
      BY <1>3 DEF NodeObjects
    <2> QED  BY <1>j, <1>4, <1>6, <2>1 DEF SetActive
  <1>k. CASE SetDraining
    <2> DEFINE new == CurrentState("Draining")
               l == IF Unschedulable(kubeNode) THEN "preDrain" ELSE "drainCordon"
    <2>1. ~new.drained
      BY <1>1, <1>2, <1>k, PatchFields DEF SetDraining, At, DrainCalls, SameStatus
    <2>2. Patched(new, {l}) /\ new.life = apiNode[req].life
      BY <1>3, <1>k DEF SetDraining
    <2> HIDE DEF new
    <2>3. Ready({l}, new, kubeNode)
      BY <2>1 DEF Ready, At, UndrainCalls, DrainCalls, RebootCalls
    <2> HIDE DEF l
    <2> QED  BY <1>4, <2>2, <2>3
  <1>l. CASE SetDrained
    <2> DEFINE new == [apiNode[req] EXCEPT !.drained = TRUE,
                          !.cur = IF node.cur = "Drained" THEN @ ELSE "Drained"]
    <2>1. Patched(new, RebootPart(new, kubeNode))  BY <1>l DEF SetDrained
    <2>2. new.life = apiNode[req].life  BY <1>3 DEF NodeObjects
    <2> HIDE DEF new
    <2> QED  BY <1>3, <1>4, <2>1, <2>2, ReadyReboot
  <1>m. CASE SetBootID
    <2> DEFINE new == [sd EXCEPT !.bootID = kubeNode.boot]
    <2>1. Patched(new, {"rebootNode"})  BY <1>m DEF SetBootID, sd
    <2>2. apiNode[req].cur = "Drained" /\ apiNode[req].drained
      BY <1>2, <1>m DEF SetBootID, At, RebootCalls, SameStatus
    <2>3. sd.cur = "Drained" /\ sd.drained  BY Zenon, <1>3, <2>2 DEF Unset
    <2>4. /\ new.cur = "Drained" /\ new.drained /\ new.bootID = kubeNode.boot
          /\ new.life = apiNode[req].life
      BY <1>3, <2>3 DEF NodeObjects
    <2>5. kubeNode.boot # NoBoot
      BY <1>3, ConstantsAssumption DEF KubeObjects, BootIDs, NoBoot
    <2> HIDE DEF new
    <2>6. Ready({"rebootNode"}, new, kubeNode)
      BY <2>4, <2>5 DEF Ready, At, UndrainCalls, DrainCalls, RebootCalls
    <2> QED  BY <1>4, <2>1, <2>4, <2>6
  <1>n. CASE SetRebooting  BY <1>n, <1>3, <1>4, <1>6 DEF SetRebooting
  <1>o. CASE SaveRebooted
    <2>1. RebootDone(sd).life = apiNode[req].life  BY <1>3 DEF RebootDone, NodeObjects
    <2> QED  BY <1>o, <1>4, <1>6, <2>1 DEF SaveRebooted, sd
  <1> QED  BY <1>a, <1>b, <1>c, <1>d, <1>e, <1>f, <1>g, <1>h, <1>i, <1>j, <1>k,
              <1>l, <1>m, <1>n, <1>o

\* Steps of Reconcile that write no drain Node.
LEMMA KnownOtherCall ==
    ASSUME Known, TypeOK',
           \/ UndrainHealthy \/ UndrainUncordon \/ RunPostDrain \/ IsRebootRequired
           \/ Uncordon \/ CleanupActive \/ Cordon \/ IsNextNode \/ Vet \/ DrainCordon
           \/ RescheduleController \/ RunPreDrain \/ CleanupBeforeDrain
           \/ RunNodeDrain \/ RebootNode \/ NodeRebooted \/ ReconcileError
    PROVE  Known'
  <1>1. SameNodes
    BY Zenon DEF UndrainHealthy, UndrainUncordon, RunPostDrain, IsRebootRequired, Uncordon,
       CleanupActive, Cordon, IsNextNode, Vet, DrainCordon, RescheduleController,
       RunPreDrain, CleanupBeforeDrain, RunNodeDrain, RebootNode, NodeRebooted,
       ReconcileError, PatchedKube, SameNodes, api, cache
  <1>2. pc # "idle"
    BY Zenon DEF UndrainHealthy, UndrainUncordon, RunPostDrain, IsRebootRequired, Uncordon,
       CleanupActive, Cordon, IsNextNode, Vet, DrainCordon, RescheduleController,
       RunPreDrain, CleanupBeforeDrain, RunNodeDrain, RebootNode, NodeRebooted,
       ReconcileError
  <1>3. At(pc, node, kubeNode)  BY <1>2 DEF Known, LocalStatus
  <1>4. CASE Return  BY <1>1, <1>4, KnownReturn
  <1>5. ASSUME NEW l, NEW kn, Continue({l}, node, kn), At(l, node, kn)
        PROVE  Known'
    BY <1>1, <1>2, <1>5, KnownContinue DEF Ready
  <1>6. \A l, kn : l \in {"idle", "setOk", "cleanup", "setCordoned", "promote"} =>
                       At(l, node, kn)
    BY ReadyOther DEF Calls, DrainCalls, RebootCalls, UndrainCalls
  <1>a. CASE UndrainHealthy
    <2>1. At("undrainUncordon", node, kubeNode)
      BY <1>3, <1>a DEF UndrainHealthy, At, UndrainCalls, DrainCalls, RebootCalls
    <2> QED  BY <1>5, <1>6, <1>a, <2>1 DEF UndrainHealthy
  <1>b. CASE UndrainUncordon
    <2>1. \A kn : At("postDrain", node, kn)
      BY <1>3, <1>b DEF UndrainUncordon, At, UndrainCalls, DrainCalls, RebootCalls
    <2> QED  BY <1>4, <1>5, <1>b, <2>1 DEF UndrainUncordon, PatchedKube
  <1>c. CASE RunPostDrain
    <2>1. At("undrainReset", node, kubeNode) /\ At("undrainOk", node, kubeNode)
      BY <1>3, <1>c DEF RunPostDrain, At, UndrainCalls, DrainCalls, RebootCalls
    <2> QED  BY <1>5, <1>c, <2>1 DEF RunPostDrain
  <1>d. CASE IsRebootRequired
    <2>1. CASE ~(apiKube[req].present /\ apiKube[req].ready)
      BY <1>4, <1>d, <2>1 DEF IsRebootRequired
    <2>2. CASE apiKube[req].present /\ apiKube[req].ready
      <3>1. /\ pc \in {"checkReboot", "recheck"}
            /\ pc' = IF pc = "checkReboot" THEN "saveCheck" ELSE "saveRecheck"
            /\ req' = req /\ node' = node /\ kubeNode' = kubeNode
            /\ apiNode' = apiNode /\ cacheNode' = cacheNode
        BY <1>1, <1>d, <2>2 DEF IsRebootRequired, SameNodes
      <3>2. At(pc', node, kubeNode)
        BY <1>3, <3>1 DEF At, UndrainCalls, DrainCalls, RebootCalls
      <3>3. LocalStatus'
        BY <1>2, <3>1, <3>2 DEF Known, LocalStatus, SameStatus, At
      <3> QED  BY <3>1, <3>3 DEF Known, CacheCurrent, AbsentFresh, Fresh
    <2> QED  BY <2>1, <2>2
  <1>e. CASE Uncordon  BY <1>4, <1>5, <1>6, <1>e DEF Uncordon, PatchedKube
  <1>f. CASE CleanupActive  BY <1>4, <1>f DEF CleanupActive
  <1>g. CASE Cordon  BY <1>4, <1>5, <1>6, <1>g DEF Cordon, PatchedKube
  <1>h. CASE IsNextNode  BY <1>5, <1>6, <1>h DEF IsNextNode
  <1>i. CASE Vet
    <2>1. At("setDraining", node, kubeNode)
      BY <1>3, <1>i DEF Vet, At, UndrainCalls, DrainCalls, RebootCalls
    <2> QED  BY <1>4, <1>5, <1>i, <2>1 DEF Vet
  <1>j. CASE DrainCordon
    <2> DEFINE kn == [apiKube[req] EXCEPT !.cordon = OurCordon]
    <2>1. req \in Nodes /\ apiKube[req] \in KubeObjects
      BY <1>2, StepRequest DEF Known, TypeOK, TypeObjects
    <2>2. Unschedulable(kn)  BY <2>1 DEF OurCordon, Unschedulable, KubeObjects
    <2>3. Return \/ Continue({"preDrain"}, node, kn)
      BY <1>j DEF DrainCordon, PatchedKube
    <2> HIDE DEF kn
    <2>4. At("preDrain", node, kn)
      BY <1>3, <1>j, <2>2 DEF DrainCordon, At, UndrainCalls, DrainCalls, RebootCalls
    <2> QED  BY <1>4, <1>5, <2>3, <2>4
  <1>k. CASE RescheduleController  BY <1>4, <1>k DEF RescheduleController
  <1>l. CASE RunPreDrain
    <2>1. At("drainCleanup", node, kubeNode)
      BY <1>3, <1>l DEF RunPreDrain, At, UndrainCalls, DrainCalls, RebootCalls
    <2> QED  BY <1>4, <1>5, <1>l, <2>1 DEF RunPreDrain
  <1>m. CASE CleanupBeforeDrain
    <2>1. At("evict", node, kubeNode)
      BY <1>3, <1>m DEF CleanupBeforeDrain, At, UndrainCalls, DrainCalls, RebootCalls
    <2> QED  BY <1>5, <1>m, <2>1 DEF CleanupBeforeDrain
  <1>n. CASE RunNodeDrain
    <2>1. At("setDrained", node, kubeNode)
      BY <1>3, <1>n DEF RunNodeDrain, At, UndrainCalls, DrainCalls, RebootCalls
    <2> QED  BY <1>5, <1>n, <2>1 DEF RunNodeDrain
  <1>o. CASE RebootNode
    <2>1. At("setRebooting", node, kubeNode)
      BY <1>3, <1>o DEF RebootNode, At, UndrainCalls, DrainCalls, RebootCalls
    <2>2. node.cur # "Rebooting"
      BY <1>3, <1>o DEF RebootNode, At, RebootCalls
    <2>3. Return \/ Continue({"setRebooting"}, node, kubeNode)
      BY <1>o, <2>2 DEF RebootNode
    <2> QED  BY <1>4, <1>5, <2>1, <2>3
  <1>p. CASE NodeRebooted
    <2>1. At("saveRebooted", node, kubeNode)
      BY <1>3, <1>p DEF NodeRebooted, At, UndrainCalls, DrainCalls, RebootCalls
    <2> QED  BY <1>4, <1>5, <1>p, <2>1 DEF NodeRebooted
  <1>q. CASE ReconcileError  BY <1>4, <1>q DEF ReconcileError
  <1> QED  BY Zenon, <1>a, <1>b, <1>c, <1>d, <1>e, <1>f, <1>g, <1>h, <1>i, <1>j, <1>k,
              <1>l, <1>m, <1>n, <1>o, <1>p, <1>q

\* The steps that create and remove a drain Node, and the start of a Reconcile.
LEMMA KnownObject ==
    ASSUME Known, ~CacheLag, TypeOK',
           CreateNewNode \/ RemoveFinalizer \/ \E n \in Nodes : Reconcile(n)
    PROVE  Known'
  <1>1. ASSUME CreateNewNode \/ RemoveFinalizer  PROVE Known'
    <2>1. pc # "idle" /\ Return  BY <1>1 DEF CreateNewNode, RemoveFinalizer
    <2>2. req \in Nodes  BY <2>1, StepRequest DEF Known
    <2>3. Fresh(NoObject) /\ \A st : Fresh(NewObject(st))
      BY DEF Fresh, NoObject, NewObject
    <2>4. SameNodes \/ \E new : WriteNode(req, new) /\ Fresh(new)
      BY Zenon, <1>1, <2>3 DEF CreateNewNode, RemoveFinalizer
    <2> QED  BY Zenon, <2>1, <2>2, <2>4, KnownReturn, KnownWrite
  <1>2. ASSUME NEW n \in Nodes, Reconcile(n)  PROVE Known'
    <2>1. /\ apiNode' = apiNode /\ cacheNode' = cacheNode /\ req' = n
          /\ node' = apiNode[n] /\ kubeNode' = cacheKube[n]
          /\ pc' \in Entry(apiNode[n], cacheKube[n])
      BY <1>2 DEF Reconcile, api, cache, Known, CacheCurrent
    <2>2. cacheKube[n] \in KubeObjects  BY DEF Known, TypeOK, TypeObjects
    <2>3. At(pc', node', kubeNode')  BY <2>1, <2>2, ReadyEntry DEF Ready
    <2>4. SameStatus(node', apiNode'[req'])  BY <2>1 DEF SameStatus
    <2>5. LocalStatus'  BY <2>3, <2>4 DEF LocalStatus, SameStatus, At
    <2> QED  BY <2>1, <2>5 DEF Known, CacheCurrent, AbsentFresh, Fresh
  <1> QED  BY <1>1, <1>2

\* The other actors: they write no status.
LEMMA KnownAround ==
    ASSUME Known, ~CacheLag, TypeOK',
           \/ Terminate
           \/ \E n \in Nodes :
                 \/ Restart(n) \/ SyncNode(n) \/ SyncKube(n)
                 \/ HostReboots(n) \/ KubeletReady(n) \/ Schedule(n) \/ GarbageCollect(n)
                 \/ \E s \in Requests : UserRequest(n, s)
                 \/ UserDelete(n) \/ OtherManager(n) \/ NodeUnready(n)
                 \/ RebootBecomesRequired(n) \/ NodeRemoved(n) \/ NodeJoins(n)
    PROVE  Known'
  <1>1. cacheNode = apiNode  BY DEF Known, CacheCurrent
  <1>2. CASE Terminate
    BY <1>2, KnownReturn DEF Terminate, SameNodes, api, cache
  <1>3. ASSUME NEW n \in Nodes,
               \/ Restart(n) \/ SyncNode(n) \/ SyncKube(n)
               \/ KubeletReady(n) \/ Schedule(n) \/ OtherManager(n) \/ NodeUnready(n)
               \/ RebootBecomesRequired(n) \/ NodeJoins(n)
        PROVE  Known'
    <2>1. apiNode' = apiNode /\ cacheNode' = apiNode /\ UNCHANGED local
      BY Zenon, <1>1, <1>3 DEF Restart, SyncNode, SyncKube, KubeletReady, Schedule,
         OtherManager,
         NodeUnready, RebootBecomesRequired, NodeJoins, SameNodes, api, cache
    <2> QED  BY <2>1, KnownKeep
  <1>4. ASSUME NEW n \in Nodes, HostReboots(n) \/ NodeRemoved(n)
        PROVE  Known'
    <2>1. SameNodes /\ (Return \/ UNCHANGED local)
      BY Zenon, <1>4 DEF HostReboots, NodeRemoved
    <2> QED  BY Zenon, <1>1, <2>1, KnownReturn, KnownKeep DEF SameNodes
  <1>5. ASSUME NEW n \in Nodes, GarbageCollect(n) \/ UserDelete(n)
        PROVE  Known'
    <2> DEFINE new == [apiNode[n] EXCEPT !.life = "deleting"]
    <2>1. apiNode[n] \in NodeObjects  BY DEF Known, TypeOK, TypeObjects
    <2>2. SameStatus(new, apiNode[n]) /\ new.life = "deleting"
      BY <2>1 DEF NodeObjects, SameStatus
    <2>3. WriteNode(n, new) /\ UNCHANGED local
      BY Zenon, <1>5 DEF GarbageCollect, UserDelete
    <2> HIDE DEF new
    <2> QED  BY <2>2, <2>3, KnownWrite
  <1>6. ASSUME NEW n \in Nodes, NEW s \in Requests, UserRequest(n, s)
        PROVE  Known'
    <2> DEFINE new == [apiNode[n] EXCEPT !.state = ApplyDefaults(s)]
    <2>1. apiNode[n] \in NodeObjects  BY DEF Known, TypeOK, TypeObjects
    <2>2. SameStatus(new, apiNode[n]) /\ new.life = apiNode[n].life
      BY <2>1 DEF NodeObjects, SameStatus
    <2>3. WriteNode(n, new) /\ UNCHANGED local /\ apiNode[n].life # "absent"
      BY Zenon, <1>6 DEF UserRequest
    <2> HIDE DEF new
    <2> QED  BY <2>2, <2>3, KnownWrite
  <1> QED  BY <1>2, <1>3, <1>4, <1>5, <1>6

\* Every step keeps Known, when the cache does not lag.
LEMMA KnownStep ==
    ASSUME Known, ~CacheLag, [Next]_vars
    PROVE  Known'
  <1>0. TypeOK'  BY TypeStep DEF Known
  <1>1. CASE UNCHANGED vars
    <2>1. apiNode' = apiNode /\ cacheNode' = apiNode /\ UNCHANGED local
      BY <1>1 DEF vars, api, cache, Known, CacheCurrent
    <2> QED  BY <1>0, <2>1, KnownKeep
  <1>2. CASE (\E n \in Nodes : Reconcile(n)) \/ Step \/ ReconcileError
    BY <1>0, <1>2, KnownNodePatch, KnownOtherCall, KnownObject DEF Step
  <1>3. CASE Next /\ ~(\E n \in Nodes : Reconcile(n)) /\ ~Step /\ ~ReconcileError
    BY Zenon, <1>0, <1>3, KnownAround DEF Next
  <1> QED  BY <1>1, <1>2, <1>3

\* Known holds at the start.
LEMMA KnownInit == Init => Known
  <1> SUFFICES ASSUME Init  PROVE Known
    OBVIOUS
  <1>1. Fresh(NoObject)  BY DEF Fresh, NoObject, NewObject
  <1>2. \A n \in Nodes : apiNode[n] = NoObject  BY DEF Init
  <1> QED  BY <1>1, <1>2, TypeInit DEF Init, Known, CacheCurrent, LocalStatus, AbsentFresh

\* The local status of a running Reconcile is the API server's, and the branches
\* it took still hold when it makes its next call.
THEOREM KnownInvariant ==
    ASSUME ~CacheLag
    PROVE  Spec => []Known
  BY KnownInit, KnownStep, PTL DEF Spec

-----------------------------------------------------------------------------
(* What a step can do to the status of a drain Node, to a cordon, to the      *)
(* hosts and to the notes on hooks and gates, by the call Reconcile makes.    *)

\* The calls that only ever follow another call: no branch starts with them.
Inner == {"undrainUncordon", "undrainReset", "undrainOk", "saveCheck", "saveRecheck",
          "promote", "setDraining", "drainCleanup", "evict", "setDrained", "setRebooting",
          "saveRebooted"}

Heads == Labels \ Inner

\* The branches of Reconcile start with the other calls.
LEMMA HeadLabels ==
    ASSUME NEW nd, NEW kn, NEW b
    PROVE  /\ RebootPart(nd, kn) \subseteq Heads
           /\ Decide(nd, kn, b) \subseteq Heads
           /\ SwitchState(nd, kn) \subseteq Heads
           /\ CheckReboot(nd, kn) \subseteq Heads
           /\ AfterUndrain(nd, kn) \subseteq Heads
           /\ Entry(nd, kn) \subseteq Heads
  <1>0. {"idle", "create", "finalize", "startUndrain", "undrainHealthy", "postDrain",
         "clearDrained", "checkReboot", "uncordon", "setOk", "cleanup", "cordon",
         "setCordoned", "enqueue", "isNext", "recheck", "setActive", "vet", "drainCordon",
         "preDrain", "setBootID", "rebootNode", "nodeRebooted"} \subseteq Heads
    BY DEF Heads, Inner, Labels
  <1>1. RebootPart(nd, kn) \subseteq Heads  BY <1>0 DEF RebootPart
  <1>2. DrainPart(nd, kn) \subseteq Heads
    BY <1>0, <1>1 DEF DrainPart, DrainEntry
  <1>3. \A c : Decide(nd, kn, c) \subseteq Heads  BY <1>0, <1>2 DEF Decide
  <1>4. WorkPart(nd, kn) \subseteq Heads  BY <1>0, <1>2, <1>3 DEF WorkPart
  <1>5. SwitchState(nd, kn) \subseteq Heads  BY <1>0, <1>4 DEF SwitchState
  <1>6. CheckReboot(nd, kn) \subseteq Heads  BY <1>0, <1>5 DEF CheckReboot
  <1>7. AfterUndrain(nd, kn) \subseteq Heads  BY <1>0, <1>6 DEF AfterUndrain
  <1>8. UndrainPart(nd, kn) \subseteq Heads  BY <1>0, <1>7 DEF UndrainPart
  <1>9. Entry(nd, kn) \subseteq Heads  BY <1>0, <1>8 DEF Entry, Deleting
  <1> QED  BY <1>1, <1>3, <1>5, <1>6, <1>7, <1>9

\* The calls that write the drain Node.
NodeWrites == {"finalize", "startUndrain", "undrainReset", "undrainOk", "clearDrained",
               "saveCheck", "saveRecheck", "setOk", "setCordoned", "enqueue", "promote",
               "setActive", "setDraining", "setDrained", "setBootID", "setRebooting",
               "saveRebooted"}

\* What call l makes of the status old.
Writes(l, new, old) ==
    /\ l = "finalize" => Fresh(new) /\ old.life = "deleting"
    /\ l = "startUndrain" => new.cur = "Undraining"
    /\ l \in {"undrainOk", "setOk"} => new.cur = "OK"
    /\ l = "setCordoned" => new.cur = "Cordoned"
    /\ l = "enqueue" => new.cur = "Queued"
    /\ l = "promote" => new.cur = "Next"
    /\ l = "setDraining" => new.cur = "Draining"
    /\ l = "setDrained" => new.cur = "Drained" /\ new.drained
    /\ l = "setRebooting" => new.cur = "Rebooting"
    /\ l \in {"undrainReset", "clearDrained"} => ~new.drained
    /\ l \in {"saveCheck", "saveRecheck"} => new.reboot = IF required THEN "yes" ELSE "no"
    /\ l = "setBootID" => new.bootID # NoBoot
    /\ l = "saveRebooted" => new.bootID = NoBoot /\ new.reboot = "no"
    /\ l \in {"undrainReset", "clearDrained", "saveCheck", "saveRecheck", "setActive",
              "setBootID", "saveRebooted"} =>
          new.cur = old.cur \/ (old.cur = Unset /\ new.cur = "OK")
    /\ l \notin {"finalize", "undrainReset", "clearDrained", "setDrained"} =>
          new.drained = old.drained
    /\ l \notin {"finalize", "saveCheck", "saveRecheck", "saveRebooted"} =>
          new.reboot = old.reboot
    /\ l \notin {"finalize", "setBootID", "saveRebooted"} => new.bootID = old.bootID

StatusStep(n) ==
    \/ SameStatus(apiNode'[n], apiNode[n])
    \/ n = req /\ pc \in NodeWrites /\ Writes(pc, apiNode'[n], apiNode[n])

\* What a patch of the drain Node does.
LEMMA PatchEffect ==
    ASSUME TypeOK, pc # "idle", NEW new, NEW L, Patched(new, L)
    PROVE  /\ \A n \in Nodes : \/ /\ apiNode'[n] = apiNode[n]
                                  /\ n = req => apiNode[n].life = "absent"
                               \/ n = req /\ apiNode'[n] = new
           /\ pc' = "idle" \/ pc' \in L
           /\ apiKube' = apiKube
  <1>1. req \in Nodes /\ apiNode \in [Nodes -> NodeObjects]
    BY StepRequest DEF TypeOK, TypeObjects
  <1>2. apiKube' = apiKube  BY DEF Patched, SameKubes
  <1>3. CASE apiNode[req].life = "absent"
    BY <1>2, <1>3 DEF Patched, SameNodes, Return, Continue
  <1>4. CASE apiNode[req].life # "absent"
    <2>1. WriteNode(req, new) /\ Continue(L, new, kubeNode)  BY <1>4 DEF Patched
    <2> QED  BY <1>1, <1>2, <2>1 DEF WriteNode, Continue
  <1> QED  BY <1>3, <1>4

\* A patch changes the status as the call that makes it says.
LEMMA StatusPatch ==
    ASSUME Known,
           \/ StartUndrain \/ UndrainReset \/ UndrainOk \/ ClearDrained
           \/ SaveRebootRequired \/ SetOk \/ SetCordoned \/ Enqueue \/ Promote
           \/ SetActive \/ SetDraining \/ SetDrained \/ SetBootID \/ SetRebooting
           \/ SaveRebooted
    PROVE  \A n \in Nodes : StatusStep(n)
  <1>1. pc # "idle" /\ pc \in NodeWrites
    BY DEF StartUndrain, UndrainReset, UndrainOk, ClearDrained, SaveRebootRequired,
       SetOk, SetCordoned, Enqueue, Promote, SetActive, SetDraining, SetDrained,
       SetBootID, SetRebooting, SaveRebooted, NodeWrites
  <1> DEFINE old == apiNode[req]
             sd == StatusDefaults(old)
  <1>2. TypeOK /\ SameStatus(node, old) /\ At(pc, node, kubeNode)
    BY <1>1 DEF Known, LocalStatus
  <1>3. ASSUME NEW new, NEW L, Patched(new, L), Writes(pc, new, old)
        PROVE  \A n \in Nodes : StatusStep(n)
    <2> SUFFICES ASSUME NEW n \in Nodes  PROVE StatusStep(n)
      OBVIOUS
    <2>1. apiNode'[n] = apiNode[n] \/ (n = req /\ apiNode'[n] = new)
      BY <1>1, <1>2, <1>3, PatchEffect
    <2>2. CASE apiNode'[n] = apiNode[n]  BY <2>2 DEF StatusStep, SameStatus
    <2>3. CASE n = req /\ apiNode'[n] = new  BY <1>1, <1>3, <2>3 DEF StatusStep
    <2> QED  BY <2>1, <2>2, <2>3
  <1>4. \A c : /\ CurrentState(c).cur = c /\ CurrentState(c).drained = old.drained
               /\ CurrentState(c).reboot = old.reboot /\ CurrentState(c).bootID = old.bootID
    BY Zenon, <1>1, <1>2, PatchFields
  <1>5. /\ sd \in NodeObjects /\ sd.drained = old.drained /\ sd.reboot = old.reboot
        /\ sd.bootID = old.bootID
        /\ sd.cur = IF old.cur = Unset THEN "OK" ELSE old.cur
    BY Zenon, <1>1, <1>2, PatchFields
  <1>6. /\ NotDrained.cur = sd.cur /\ NotDrained.drained = FALSE
        /\ NotDrained.reboot = old.reboot /\ NotDrained.bootID = old.bootID
    BY Zenon, <1>1, <1>2, PatchFields
  <1>7. old \in NodeObjects /\ kubeNode \in KubeObjects  BY Zenon, <1>1, <1>2, PatchFields
  <1> HIDE DEF old, sd
  <1>a. CASE StartUndrain  BY <1>a, <1>3, <1>4 DEF StartUndrain, Writes
  <1>b. CASE UndrainReset  BY <1>b, <1>3, <1>5, <1>6 DEF UndrainReset, Writes
  <1>c. CASE UndrainOk  BY <1>c, <1>3, <1>4 DEF UndrainOk, Writes
  <1>d. CASE ClearDrained  BY <1>d, <1>3, <1>5, <1>6 DEF ClearDrained, Writes
  <1>e. CASE SaveRebootRequired
    <2> DEFINE new == [sd EXCEPT !.reboot = IF required THEN "yes" ELSE "no"]
    <2>1. /\ new.cur = sd.cur /\ new.drained = old.drained /\ new.bootID = old.bootID
          /\ new.reboot = IF required THEN "yes" ELSE "no"
      BY <1>5 DEF NodeObjects
    <2>2. pc \in {"saveCheck", "saveRecheck"} /\ \E L : Patched(new, L)
      BY <1>e DEF SaveRebootRequired, sd, old
    <2> HIDE DEF new
    <2>3. Writes(pc, new, old)  BY <1>5, <2>1, <2>2 DEF Writes
    <2> QED  BY <1>3, <2>2, <2>3
  <1>f. CASE SetOk  BY <1>f, <1>3, <1>4 DEF SetOk, Writes
  <1>g. CASE SetCordoned  BY <1>g, <1>3, <1>4 DEF SetCordoned, Writes
  <1>h. CASE Enqueue  BY <1>h, <1>3, <1>4 DEF Enqueue, Writes
  <1>i. CASE Promote  BY <1>i, <1>3, <1>4 DEF Promote, Writes
  <1>j. CASE SetActive
    <2> DEFINE new == [old EXCEPT !.state = "Active"]
    <2>1. /\ new.cur = old.cur /\ new.drained = old.drained /\ new.bootID = old.bootID
          /\ new.reboot = old.reboot
      BY <1>7 DEF NodeObjects
    <2>2. pc = "setActive" /\ \E L : Patched(new, L)  BY <1>j DEF SetActive, old
    <2> HIDE DEF new
    <2>3. Writes(pc, new, old)  BY <2>1, <2>2 DEF Writes
    <2> QED  BY <1>3, <2>2, <2>3
  <1>k. CASE SetDraining  BY <1>k, <1>3, <1>4 DEF SetDraining, Writes
  <1>l. CASE SetDrained
    <2> DEFINE new == [old EXCEPT !.drained = TRUE,
                          !.cur = IF node.cur = "Drained" THEN @ ELSE "Drained"]
    <2>1. /\ new.cur = "Drained" /\ new.drained /\ new.bootID = old.bootID
          /\ new.reboot = old.reboot
      BY <1>2, <1>7 DEF NodeObjects, SameStatus
    <2>2. pc = "setDrained" /\ \E L : Patched(new, L)  BY <1>l DEF SetDrained, old
    <2> HIDE DEF new
    <2>3. Writes(pc, new, old)  BY <2>1, <2>2 DEF Writes
    <2> QED  BY <1>3, <2>2, <2>3
  <1>m. CASE SetBootID
    <2> DEFINE new == [sd EXCEPT !.bootID = kubeNode.boot]
    <2>1. /\ new.cur = sd.cur /\ new.drained = old.drained /\ new.bootID = kubeNode.boot
          /\ new.reboot = old.reboot
      BY <1>5 DEF NodeObjects
    <2>2. kubeNode.boot # NoBoot
      BY <1>7, ConstantsAssumption DEF KubeObjects, BootIDs, NoBoot
    <2>3. pc = "setBootID" /\ \E L : Patched(new, L)  BY <1>m DEF SetBootID, sd, old
    <2> HIDE DEF new
    <2>4. Writes(pc, new, old)  BY <1>5, <2>1, <2>2, <2>3 DEF Writes
    <2> QED  BY <1>3, <2>3, <2>4
  <1>n. CASE SetRebooting  BY <1>n, <1>3, <1>4 DEF SetRebooting, Writes
  <1>o. CASE SaveRebooted
    <2> DEFINE new == RebootDone(sd)
    <2>1. /\ new.cur = sd.cur /\ new.drained = old.drained /\ new.bootID = NoBoot
          /\ new.reboot = "no"
      BY <1>5 DEF NodeObjects, RebootDone
    <2>2. pc = "saveRebooted" /\ \E L : Patched(new, L)  BY <1>o DEF SaveRebooted, sd, old
    <2> HIDE DEF new
    <2>3. Writes(pc, new, old)  BY <1>5, <2>1, <2>2 DEF Writes
    <2> QED  BY <1>3, <2>2, <2>3
  <1> QED  BY <1>a, <1>b, <1>c, <1>d, <1>e, <1>f, <1>g, <1>h, <1>i, <1>j, <1>k,
              <1>l, <1>m, <1>n, <1>o

\* Only Reconcile's patches write a status, each in its own way.
LEMMA StatusFrame ==
    ASSUME Known, [Next]_vars
    PROVE  \A n \in Nodes : StatusStep(n)
  <1>0. TypeOK  BY DEF Known
  <1>1. CASE apiNode' = apiNode  BY <1>1 DEF StatusStep, SameStatus
  <1>2. CASE UNCHANGED vars  BY <1>1, <1>2 DEF vars, api
  <1>3. CASE \/ UndrainHealthy \/ UndrainUncordon \/ RunPostDrain \/ IsRebootRequired
             \/ Uncordon \/ CleanupActive \/ Cordon \/ IsNextNode \/ Vet \/ DrainCordon
             \/ RescheduleController \/ RunPreDrain \/ CleanupBeforeDrain
             \/ RunNodeDrain \/ RebootNode \/ NodeRebooted \/ ReconcileError \/ Terminate
             \/ \E n \in Nodes : Reconcile(n)
    BY Zenon, <1>1, <1>3 DEF UndrainHealthy, UndrainUncordon, RunPostDrain,
       IsRebootRequired, Uncordon, CleanupActive, Cordon, IsNextNode, Vet, DrainCordon,
       RescheduleController, RunPreDrain, CleanupBeforeDrain, RunNodeDrain, RebootNode,
       NodeRebooted, ReconcileError, Terminate, Reconcile, PatchedKube, SameNodes, api
  <1>4. ASSUME CreateNewNode \/ RemoveFinalizer  PROVE \A n \in Nodes : StatusStep(n)
    <2> SUFFICES ASSUME NEW n \in Nodes  PROVE StatusStep(n)
      OBVIOUS
    <2>1. pc \in {"create", "finalize"}  BY <1>4 DEF CreateNewNode, RemoveFinalizer
    <2>2. req \in Nodes /\ apiNode \in [Nodes -> NodeObjects]
      BY <1>0, <2>1, StepRequest DEF TypeOK, TypeObjects
    <2>3. Fresh(NoObject) /\ \A st : Fresh(NewObject(st))
      BY DEF Fresh, NoObject, NewObject
    <2>4. CASE SameNodes  BY <1>1, <2>4 DEF SameNodes
    <2>5. CASE CreateNewNode /\ apiNode[req].life = "absent"
      <3>1. PICK new : WriteNode(req, new) /\ Fresh(new)
        BY Zenon, <2>3, <2>5 DEF CreateNewNode
      <3>2. apiNode'[n] = apiNode[n] \/ (n = req /\ apiNode'[n] = new)
        BY <2>2, <3>1 DEF WriteNode
      <3>3. Fresh(apiNode[req])  BY <2>2, <2>5 DEF Known, AbsentFresh
      <3> QED  BY <3>1, <3>2, <3>3 DEF StatusStep, SameStatus, Fresh
    <2>6. CASE RemoveFinalizer /\ apiNode[req] = node
      <3>1. WriteNode(req, NoObject)  BY <2>6 DEF RemoveFinalizer
      <3>2. apiNode'[n] = apiNode[n] \/ (n = req /\ apiNode'[n] = NoObject)
        BY <2>2, <3>1 DEF WriteNode
      <3>3. pc = "finalize"  BY <2>6 DEF RemoveFinalizer
      <3>4. Writes(pc, NoObject, apiNode[req])
        BY <2>3, <2>6, <3>3 DEF Writes, Known, LocalStatus, At
      <3>5. CASE apiNode'[n] = apiNode[n]  BY <3>5 DEF StatusStep, SameStatus
      <3>6. CASE n = req /\ apiNode'[n] = NoObject
        BY <3>3, <3>4, <3>6 DEF StatusStep, NodeWrites
      <3> QED  BY <3>2, <3>5, <3>6
    <2> QED  BY Zenon, <1>4, <2>4, <2>5, <2>6 DEF CreateNewNode, RemoveFinalizer
  <1>5. CASE \E n \in Nodes :
                \/ Restart(n) \/ SyncNode(n) \/ SyncKube(n) \/ HostReboots(n)
                \/ KubeletReady(n) \/ Schedule(n) \/ OtherManager(n) \/ NodeUnready(n)
                \/ RebootBecomesRequired(n) \/ NodeRemoved(n) \/ NodeJoins(n)
    BY Zenon, <1>1, <1>5 DEF Restart, SyncNode, SyncKube, HostReboots, KubeletReady,
       Schedule, OtherManager, NodeUnready, RebootBecomesRequired, NodeRemoved, NodeJoins,
       SameNodes, api
  <1>6. ASSUME NEW m \in Nodes, NEW new, WriteNode(m, new), SameStatus(new, apiNode[m])
        PROVE  \A n \in Nodes : StatusStep(n)
    <2>1. apiNode \in [Nodes -> NodeObjects]  BY <1>0 DEF TypeOK, TypeObjects
    <2> QED  BY <1>6, <2>1 DEF StatusStep, SameStatus, WriteNode
  <1>7. ASSUME NEW m \in Nodes,
               \/ GarbageCollect(m) \/ UserDelete(m)
               \/ \E s \in Requests : UserRequest(m, s)
        PROVE  \A n \in Nodes : StatusStep(n)
    <2>1. apiNode[m] \in NodeObjects  BY <1>0 DEF TypeOK, TypeObjects
    <2>2. /\ SameStatus([apiNode[m] EXCEPT !.life = "deleting"], apiNode[m])
          /\ \A s : SameStatus([apiNode[m] EXCEPT !.state = s], apiNode[m])
      BY <2>1 DEF NodeObjects, SameStatus
    <2> QED  BY Zenon, <1>6, <1>7, <2>2 DEF GarbageCollect, UserDelete, UserRequest
  <1> QED  BY <1>2, <1>3, <1>4, <1>5, <1>7, StatusPatch DEF Next, Step

\* Where the calls that follow another call come from.
InnerStep ==
    /\ pc' = "setDraining" => UNCHANGED local \/ Vet
    /\ pc' = "setDrained" => UNCHANGED local \/ RunNodeDrain
    /\ pc' \in {"saveCheck", "saveRecheck"} => UNCHANGED local \/ IsRebootRequired
    /\ pc' = "saveRebooted" => UNCHANGED local \/ NodeRebooted
    /\ pc' \in {"undrainReset", "undrainOk"} =>
          UNCHANGED local \/ RunPostDrain \/ (pc = "undrainReset" /\ req' = req)

\* Every step respects the order of those calls.
LEMMA InnerFrame ==
    ASSUME TypeOK, [Next]_vars
    PROVE  InnerStep
  <1>1. CASE UNCHANGED local  BY <1>1 DEF InnerStep
  <1>2. CASE UNCHANGED vars  BY <1>1, <1>2 DEF vars
  <1>3. CASE pc' \in Heads  BY <1>3 DEF InnerStep, Heads, Inner
  <1>4. \A l \in {"idle", "cleanup", "setOk", "setCordoned", "setActive", "preDrain",
                  "drainCordon", "rebootNode", "postDrain"} : l \in Heads
    BY DEF Heads, Inner, Labels
  <1>5. CASE Return  BY <1>3, <1>4, <1>5 DEF Return, Continue
  <1>6. ASSUME pc # "idle", NEW new, NEW L \in SUBSET Heads, Patched(new, L)
        PROVE  InnerStep
    BY <1>3, <1>4, <1>6, PatchEffect
  <1>7. CASE \/ StartUndrain \/ UndrainOk \/ ClearDrained \/ SaveRebootRequired \/ SetOk
             \/ SetCordoned \/ Enqueue \/ Promote \/ SetActive \/ SetDraining \/ SetDrained
             \/ SetBootID \/ SetRebooting \/ SaveRebooted
    <2>1. pc # "idle" /\ \E new, L : L \in SUBSET Heads /\ Patched(new, L)
      <3>a. CASE StartUndrain  BY <1>4, <3>a DEF StartUndrain
      <3>b. CASE UndrainOk  BY Zenon, <3>b, HeadLabels DEF UndrainOk
      <3>c. CASE ClearDrained  BY Zenon, <3>c, HeadLabels DEF ClearDrained
      <3>d. CASE SaveRebootRequired  BY Zenon, <3>d, HeadLabels DEF SaveRebootRequired
      <3>e. CASE SetOk  BY <1>4, <3>e DEF SetOk
      <3>f. CASE SetCordoned  BY <1>4, <3>f DEF SetCordoned
      <3>g. CASE Enqueue  BY <1>4, <3>g DEF Enqueue
      <3>h. CASE Promote  BY <1>4, <3>h DEF Promote
      <3>i. CASE SetActive  BY <1>4, <3>i DEF SetActive
      <3>j. CASE SetDraining  BY <1>4, <3>j DEF SetDraining
      <3>k. CASE SetDrained  BY Zenon, <3>k, HeadLabels DEF SetDrained
      <3>l. CASE SetBootID  BY <1>4, <3>l DEF SetBootID
      <3>m. CASE SetRebooting  BY <1>4, <3>m DEF SetRebooting
      <3>n. CASE SaveRebooted  BY <1>4, <3>n DEF SaveRebooted
      <3> QED  BY <1>7, <3>a, <3>b, <3>c, <3>d, <3>e, <3>f, <3>g, <3>h, <3>i, <3>j, <3>k,
                  <3>l, <3>m, <3>n
    <2> QED  BY <1>6, <2>1
  <1>8. CASE UndrainReset
    <2>1. pc = "undrainReset" /\ \E L : Patched(NotDrained, L)
                                        /\ (L \subseteq Heads \/ L = {"undrainOk"})
      BY Zenon, <1>8, HeadLabels DEF UndrainReset
    <2>2. pc' \in Heads \/ (pc' = "undrainOk" /\ pc' # "idle")
      BY <1>4, <2>1, PatchEffect
    <2>3. pc' # "idle" => req' = req
      BY <1>8 DEF UndrainReset, Patched, Continue, Return
    <2> QED  BY <1>3, <2>1, <2>2, <2>3 DEF InnerStep
  <1>9. CASE UndrainUncordon \/ Uncordon \/ Cordon \/ DrainCordon
    BY <1>3, <1>4, <1>9 DEF UndrainUncordon, Uncordon, Cordon, DrainCordon, PatchedKube,
       Return, Continue
  <1>10. CASE UndrainHealthy \/ IsNextNode \/ RunPreDrain \/ CleanupBeforeDrain \/ RebootNode
    BY <1>10 DEF UndrainHealthy, IsNextNode, RunPreDrain, CleanupBeforeDrain, RebootNode,
       Continue, Return, InnerStep
  <1>11. CASE RunPostDrain
    BY <1>11 DEF RunPostDrain, Continue, InnerStep
  <1>12. CASE IsRebootRequired
    <2>1. pc' \in {"saveCheck", "saveRecheck", "idle"}
      BY <1>12 DEF IsRebootRequired, Return, Continue
    <2> QED  BY <1>12, <2>1 DEF InnerStep
  <1>13. CASE Vet  BY <1>13 DEF Vet, Continue, Return, InnerStep
  <1>14. CASE RunNodeDrain  BY <1>14 DEF RunNodeDrain, Continue, InnerStep
  <1>15. CASE NodeRebooted  BY <1>15 DEF NodeRebooted, Continue, Return, InnerStep
  <1>16. CASE \/ CreateNewNode \/ RemoveFinalizer \/ CleanupActive \/ RescheduleController
              \/ ReconcileError \/ Terminate
    BY <1>5, <1>16 DEF CreateNewNode, RemoveFinalizer, CleanupActive, RescheduleController,
       ReconcileError, Terminate
  <1>17. CASE \E n \in Nodes : Reconcile(n)
    BY Zenon, <1>3, <1>17, HeadLabels DEF Reconcile
  <1>18. CASE \E n \in Nodes :
                \/ Restart(n) \/ SyncNode(n) \/ SyncKube(n)
                \/ HostReboots(n) \/ KubeletReady(n) \/ Schedule(n) \/ GarbageCollect(n)
                \/ \E s \in Requests : UserRequest(n, s)
                \/ UserDelete(n) \/ OtherManager(n) \/ NodeUnready(n)
                \/ RebootBecomesRequired(n) \/ NodeRemoved(n) \/ NodeJoins(n)
    BY Zenon, <1>1, <1>5, <1>18 DEF Restart, SyncNode, SyncKube, HostReboots, KubeletReady,
       Schedule, GarbageCollect, UserRequest, UserDelete, OtherManager, NodeUnready,
       RebootBecomesRequired, NodeRemoved, NodeJoins
  <1> QED  BY <1>2, <1>7, <1>8, <1>9, <1>10, <1>11, <1>12, <1>13, <1>14, <1>15, <1>16,
              <1>17, <1>18 DEF Next, Step

\* How a cordon changes.
CordonStep(n) ==
    \/ apiKube'[n].cordon = apiKube[n].cordon
    \/ n = req /\ pc \in {"undrainUncordon", "uncordon"} /\ ~Unschedulable(apiKube'[n])
    \/ n = req /\ pc \in {"cordon", "drainCordon"} /\ Unschedulable(apiKube'[n])
    \/ "cordon" \in Environment
    \/ ~apiKube[n].present /\ ~Unschedulable(apiKube'[n])

\* Every step changes cordons in these ways only, and only a removal takes a node away.
LEMMA CordonFrame ==
    ASSUME TypeOK, [Next]_vars
    PROVE  \A n \in Nodes : /\ CordonStep(n)
                            /\ apiKube[n].present =>
                                  apiKube'[n].present \/ "remove" \in Environment
  <1> DEFINE Goal == \A n \in Nodes : /\ CordonStep(n)
                                      /\ apiKube[n].present =>
                                            apiKube'[n].present \/ "remove" \in Environment
  <1> SUFFICES Goal  OBVIOUS
  <1> HIDE DEF Goal
  <1>1. apiKube \in [Nodes -> KubeObjects]  BY DEF TypeOK, TypeObjects
  <1>2. CASE apiKube' = apiKube  BY <1>2 DEF CordonStep, Goal
  <1>3. ASSUME NEW m \in Nodes, NEW new, WriteKube(m, new),
               new.present = apiKube[m].present \/ "remove" \in Environment
                  \/ ~apiKube[m].present,
               \/ new.cordon = apiKube[m].cordon
               \/ m = req /\ pc \in {"undrainUncordon", "uncordon"} /\ new.cordon = "none"
               \/ m = req /\ pc \in {"cordon", "drainCordon"} /\ new.cordon # "none"
               \/ "cordon" \in Environment
               \/ ~apiKube[m].present /\ new.cordon = "none"
        PROVE  Goal
    <2>1. \A n \in Nodes : apiKube'[n] = apiKube[n] \/ (n = m /\ apiKube'[n] = new)
      BY <1>1, <1>3 DEF WriteKube
    <2> QED  BY <1>3, <2>1 DEF CordonStep, Unschedulable, Goal
  <1>4. \A m \in Nodes : \A c :
           /\ [apiKube[m] EXCEPT !.cordon = c].cordon = c
           /\ [apiKube[m] EXCEPT !.cordon = c].present = apiKube[m].present
    BY <1>1 DEF KubeObjects
  <1>5. ASSUME pc # "idle", NEW c, NEW L, PatchedKube(c, L),
               \/ pc \in {"undrainUncordon", "uncordon"} /\ c = "none"
               \/ pc \in {"cordon", "drainCordon"} /\ c # "none"
        PROVE  Goal
    <2>1. req \in Nodes  BY <1>5, StepRequest
    <2>2. CASE apiKube' = apiKube  BY <1>2, <2>2
    <2>3. CASE WriteKube(req, [apiKube[req] EXCEPT !.cordon = c])
      <3> DEFINE new == [apiKube[req] EXCEPT !.cordon = c]
      <3>1. new.cordon = c /\ new.present = apiKube[req].present  BY <1>4, <2>1
      <3>2. WriteKube(req, new)  BY <2>3
      <3> HIDE DEF new
      <3> QED  BY <1>3, <1>5, <2>1, <3>1, <3>2
    <2> QED  BY <1>5, <2>2, <2>3 DEF PatchedKube, SameKubes
  <1>6. CASE UNCHANGED vars  BY <1>2, <1>6 DEF vars, api
  <1>7. CASE UndrainUncordon \/ Uncordon
    BY Zenon, <1>5, <1>7 DEF UndrainUncordon, Uncordon
  <1>8. CASE Cordon \/ DrainCordon
    <2>1. pc # "idle" /\ req \in Nodes  BY <1>8, StepRequest DEF Cordon, DrainCordon
    <2>2. OurCordon # "none"  BY <1>1, <2>1 DEF OurCordon, Unschedulable, KubeObjects
    <2> QED  BY Zenon, <1>5, <1>8, <2>2 DEF Cordon, DrainCordon
  <1>9. CASE \/ StartUndrain \/ UndrainReset \/ UndrainOk \/ ClearDrained
             \/ SaveRebootRequired \/ SetOk \/ SetCordoned \/ Enqueue \/ Promote
             \/ SetActive \/ SetDraining \/ SetDrained \/ SetBootID \/ SetRebooting
             \/ SaveRebooted \/ CreateNewNode \/ RemoveFinalizer
    <2>1. SameKubes
      BY Zenon, <1>9 DEF StartUndrain, UndrainReset, UndrainOk, ClearDrained,
         SaveRebootRequired, SetOk, SetCordoned, Enqueue, Promote, SetActive, SetDraining,
         SetDrained, SetBootID, SetRebooting, SaveRebooted, CreateNewNode,
         RemoveFinalizer, Patched
    <2> QED  BY <1>2, <2>1 DEF SameKubes
  <1>10. CASE \/ UndrainHealthy \/ RunPostDrain \/ IsRebootRequired \/ CleanupActive
              \/ IsNextNode \/ Vet \/ RescheduleController \/ RunPreDrain
              \/ CleanupBeforeDrain \/ RunNodeDrain \/ RebootNode \/ NodeRebooted
              \/ ReconcileError \/ Terminate \/ \E n \in Nodes : Reconcile(n)
    <2>1. UNCHANGED api
      BY Zenon, <1>10 DEF UndrainHealthy, RunPostDrain, IsRebootRequired, CleanupActive,
         IsNextNode, Vet, RescheduleController, RunPreDrain, CleanupBeforeDrain,
         RunNodeDrain, RebootNode, NodeRebooted, ReconcileError, Terminate, Reconcile
    <2> QED  BY <1>2, <2>1 DEF api
  <1>11. CASE \E n \in Nodes :
                 \/ Restart(n) \/ SyncNode(n) \/ SyncKube(n) \/ Schedule(n)
                 \/ GarbageCollect(n) \/ UserDelete(n) \/ RebootBecomesRequired(n)
                 \/ \E s \in Requests : UserRequest(n, s)
    <2>1. apiKube' = apiKube
      BY Zenon, <1>11 DEF Restart, SyncNode, SyncKube, Schedule, GarbageCollect,
         UserDelete, RebootBecomesRequired, UserRequest, SameKubes, api
    <2> QED  BY <1>2, <2>1
  <1>12. ASSUME NEW m \in Nodes, HostReboots(m) \/ KubeletReady(m) \/ NodeUnready(m)
         PROVE  Goal
    <2>1. PICK r \in BOOLEAN :
             WriteKube(m, [apiKube[m] EXCEPT !.boot = @ + 1, !.ready = r])
             \/ WriteKube(m, [apiKube[m] EXCEPT !.ready = r])
      BY Zenon, <1>12 DEF HostReboots, KubeletReady, NodeUnready
    <2>2. apiKube[m] \in KubeObjects  BY <1>1
    <2>3. /\ [apiKube[m] EXCEPT !.boot = @ + 1, !.ready = r].cordon = apiKube[m].cordon
          /\ [apiKube[m] EXCEPT !.boot = @ + 1, !.ready = r].present = apiKube[m].present
          /\ [apiKube[m] EXCEPT !.ready = r].cordon = apiKube[m].cordon
          /\ [apiKube[m] EXCEPT !.ready = r].present = apiKube[m].present
      BY <2>2 DEF KubeObjects
    <2> QED  BY Zenon, <1>3, <2>1, <2>3
  <1>13. ASSUME NEW m \in Nodes, OtherManager(m)  PROVE Goal
    BY Zenon, <1>3, <1>4, <1>13 DEF OtherManager, Event
  <1>14. ASSUME NEW m \in Nodes, NodeRemoved(m) \/ NodeJoins(m)  PROVE Goal
    <2>1. /\ [apiKube[m] EXCEPT !.present = FALSE].cordon = apiKube[m].cordon
          /\ [apiKube[m] EXCEPT !.present = TRUE, !.cordon = "none"].cordon = "none"
      BY <1>1 DEF KubeObjects
    <2> QED  BY Zenon, <1>3, <1>14, <2>1 DEF NodeRemoved, NodeJoins, Event
  <1> QED  BY <1>6, <1>7, <1>8, <1>9, <1>10, <1>11, <1>12, <1>13, <1>14 DEF Next, Step

\* How the hosts change.
HostStep(n) ==
    /\ workload'[n] => workload[n] \/ ~Unschedulable(apiKube'[n])
    /\ rebootPods'[n] > rebootPods[n] =>
          /\ n = req /\ pc = "rebootNode" /\ Unschedulable(apiKube[n])
          /\ ~ContainerNode
    /\ hostReq[n] => hostReq'[n] \/ rebootPods[n] > 0 \/ (n = req /\ pc = "nodeRebooted")

\* Every step changes the hosts in these ways only.
LEMMA HostFrame ==
    ASSUME TypeOK, [Next]_vars
    PROVE  \A n \in Nodes : HostStep(n)
  <1> SUFFICES ASSUME NEW n \in Nodes  PROVE HostStep(n)
    OBVIOUS
  <1>1. /\ rebootPods \in [Nodes -> 0..MaxPods] /\ hostReq \in [Nodes -> BOOLEAN]
        /\ workload \in [Nodes -> BOOLEAN]
    BY DEF TypeOK, TypeWorld
  <1>2. CASE UNCHANGED hosts
    BY <1>1, <1>2 DEF hosts, HostStep
  <1>3. CASE UNCHANGED vars  BY <1>2, <1>3 DEF vars
  <1>4. CASE \/ StartUndrain \/ UndrainReset \/ UndrainOk \/ ClearDrained
             \/ SaveRebootRequired \/ SetOk \/ SetCordoned \/ Enqueue \/ Promote
             \/ SetActive \/ SetDraining \/ SetDrained \/ SetBootID \/ SetRebooting
             \/ SaveRebooted \/ CreateNewNode \/ RemoveFinalizer
    BY Zenon, <1>2, <1>4 DEF StartUndrain, UndrainReset, UndrainOk, ClearDrained,
       SaveRebootRequired, SetOk, SetCordoned, Enqueue, Promote, SetActive, SetDraining,
       SetDrained, SetBootID, SetRebooting, SaveRebooted, CreateNewNode, RemoveFinalizer
  <1>5. CASE \/ UndrainHealthy \/ UndrainUncordon \/ RunPostDrain \/ IsRebootRequired
             \/ Uncordon \/ Cordon \/ IsNextNode \/ Vet \/ DrainCordon
             \/ RescheduleController \/ RunPreDrain \/ ReconcileError \/ Terminate
             \/ \E m \in Nodes : Reconcile(m)
    BY Zenon, <1>2, <1>5 DEF UndrainHealthy, UndrainUncordon, RunPostDrain,
       IsRebootRequired, Uncordon, Cordon, IsNextNode, Vet, DrainCordon,
       RescheduleController, RunPreDrain, ReconcileError, Terminate, Reconcile
  <1>6. CASE \E m \in Nodes :
                \/ Restart(m) \/ SyncNode(m) \/ SyncKube(m) \/ KubeletReady(m)
                \/ GarbageCollect(m) \/ \E s \in Requests : UserRequest(m, s)
                \/ UserDelete(m) \/ OtherManager(m) \/ NodeUnready(m) \/ NodeJoins(m)
    BY Zenon, <1>2, <1>6 DEF Restart, SyncNode, SyncKube, KubeletReady, GarbageCollect,
       UserRequest, UserDelete, OtherManager, NodeUnready, NodeJoins
  <1>7. CASE CleanupActive \/ CleanupBeforeDrain
    <2>1. /\ rebootPods' = [rebootPods EXCEPT ![req] = 0]
          /\ hostReq' = hostReq /\ workload' = workload
      BY <1>7 DEF CleanupActive, CleanupBeforeDrain, CleanupNode
    <2>2. ~(rebootPods'[n] > rebootPods[n])  BY <1>1, <2>1
    <2> QED  BY <1>1, <2>1, <2>2 DEF HostStep
  <1>8. CASE RunNodeDrain
    BY <1>1, <1>8 DEF RunNodeDrain, HostStep
  <1>9. CASE RebootNode
    <2>1. pc = "rebootNode" /\ hostReq' = hostReq /\ workload' = workload
      BY <1>9 DEF RebootNode
    <2>2. rebootPods'[n] > rebootPods[n] => n = req /\ Unschedulable(apiKube[n]) /\ ~ContainerNode
      BY <1>1, <1>9 DEF RebootNode
    <2> QED  BY <1>1, <2>1, <2>2 DEF HostStep
  <1>10. CASE NodeRebooted
    <2>1. pc = "nodeRebooted" /\ workload' = workload  BY <1>10 DEF NodeRebooted
    <2>2. ~(rebootPods'[n] > rebootPods[n])
      BY <1>1, <1>10 DEF NodeRebooted, CleanupNode
    <2>3. hostReq[n] => hostReq'[n] \/ n = req
      BY <1>1, <1>10 DEF NodeRebooted
    <2> QED  BY <2>1, <2>2, <2>3 DEF HostStep
  <1>11. ASSUME NEW m \in Nodes, HostReboots(m)  PROVE HostStep(n)
    <2>1. /\ rebootPods[m] > 0 /\ rebootPods' = [rebootPods EXCEPT ![m] = rebootPods[m] - 1]
          /\ hostReq' = [hostReq EXCEPT ![m] = FALSE] /\ workload' = workload
      BY Zenon, <1>11 DEF HostReboots
    <2>2. ~(rebootPods'[n] > rebootPods[n])  BY <1>1, <2>1
    <2> QED  BY <1>1, <2>1, <2>2 DEF HostStep
  <1>12. ASSUME NEW m \in Nodes, Schedule(m)  PROVE HostStep(n)
    BY <1>1, <1>12 DEF Schedule, HostStep, api, Unschedulable
  <1>13. ASSUME NEW m \in Nodes, RebootBecomesRequired(m)  PROVE HostStep(n)
    BY <1>1, <1>13 DEF RebootBecomesRequired, HostStep
  <1>14. ASSUME NEW m \in Nodes, NodeRemoved(m)  PROVE HostStep(n)
    <2>1. /\ rebootPods' = [rebootPods EXCEPT ![m] = 0]
          /\ workload' = [workload EXCEPT ![m] = FALSE] /\ hostReq' = hostReq
      BY <1>14 DEF NodeRemoved
    <2>2. ~(rebootPods'[n] > rebootPods[n])  BY <1>1, <2>1
    <2> QED  BY <1>1, <2>1, <2>2 DEF HostStep
  <1> QED  BY <1>3, <1>4, <1>5, <1>6, <1>7, <1>8, <1>9, <1>10, <1>11, <1>12, <1>13,
              <1>14 DEF Next, Step

\* How the notes on hooks and gates change.
NoteStep(n) ==
    /\ n \in hooked' => n \in hooked \/ (n = req /\ pc = "preDrain")
    /\ n \in vetted =>
          \/ n \in vetted'
          \/ /\ n = req /\ pc \in {"finalize", "undrainOk", "setOk", "setCordoned",
                                   "enqueue", "promote"}
             /\ apiNode'[n].cur \notin {"Draining", "Drained", "Rebooting"}

\* Every step changes the notes in these ways only.
LEMMA NoteFrame ==
    ASSUME Known, [Next]_vars
    PROVE  \A n \in Nodes : NoteStep(n)
  <1> SUFFICES ASSUME NEW n \in Nodes  PROVE NoteStep(n)
    OBVIOUS
  <1>1. CASE UNCHANGED notes  BY <1>1 DEF notes, NoteStep
  <1>2. CASE UNCHANGED vars  BY <1>1, <1>2 DEF vars
  <1>3. ASSUME NEW c, NEW L, Patched(CurrentState(c), L), pc # "idle", hooked' = hooked,
               c \notin {"Draining", "Drained", "Rebooting"}, vetted' = vetted \ {req},
               pc \in {"undrainOk", "setOk", "setCordoned", "enqueue", "promote"}
        PROVE  NoteStep(n)
    <2>1. TypeOK /\ req \in Nodes /\ CurrentState(c).cur = c
      BY <1>3, PatchFields DEF Known
    <2>2. \/ apiNode'[req] = apiNode[req] /\ apiNode[req].life = "absent"
          \/ apiNode'[req] = CurrentState(c)
      BY <1>3, <2>1, PatchEffect
    <2>3. apiNode[req].life = "absent" => apiNode[req].cur = Unset
      BY <2>1 DEF Known, AbsentFresh, Fresh
    <2>4. apiNode'[req].cur \notin {"Draining", "Drained", "Rebooting"}
      BY Zenon, <1>3, <2>1, <2>2, <2>3 DEF Unset
    <2> QED  BY <1>3, <2>4 DEF NoteStep
  <1>4. CASE UndrainOk \/ SetOk  BY <1>3, <1>4 DEF UndrainOk, SetOk
  <1>5. CASE SetCordoned \/ Enqueue \/ Promote
    BY <1>3, <1>5 DEF SetCordoned, Enqueue, Promote
  <1>6. CASE RemoveFinalizer
    <2>1. pc = "finalize" /\ hooked' = hooked  BY <1>6 DEF RemoveFinalizer
    <2>2. CASE vetted' = vetted  BY <2>1, <2>2 DEF NoteStep
    <2>3. CASE vetted' # vetted
      <3>1. WriteNode(req, NoObject) /\ vetted' = vetted \ {req}
        BY <1>6, <2>3 DEF RemoveFinalizer
      <3>2. req \in Nodes /\ apiNode \in [Nodes -> NodeObjects]
        BY <2>1, StepRequest DEF Known, TypeOK, TypeObjects
      <3>3. apiNode'[req].cur = Unset
        BY <3>1, <3>2 DEF WriteNode, NoObject, NewObject
      <3>4. apiNode'[req].cur \notin {"Draining", "Drained", "Rebooting"}
        BY Zenon, <3>3 DEF Unset
      <3> QED  BY <2>1, <3>1, <3>4 DEF NoteStep
    <2> QED  BY <2>2, <2>3
  <1>7. CASE Vet  BY <1>7 DEF Vet, NoteStep
  <1>8. CASE RunPostDrain  BY <1>8 DEF RunPostDrain, NoteStep
  <1>9. CASE RunPreDrain  BY <1>9 DEF RunPreDrain, NoteStep
  <1>10. CASE \/ StartUndrain \/ UndrainReset \/ ClearDrained
              \/ SaveRebootRequired \/ SetActive \/ SetDraining \/ SetDrained \/ SetBootID
              \/ SetRebooting \/ SaveRebooted \/ CreateNewNode
    BY Zenon, <1>1, <1>10 DEF StartUndrain, UndrainReset, ClearDrained,
       SaveRebootRequired, SetActive, SetDraining, SetDrained, SetBootID, SetRebooting,
       SaveRebooted, CreateNewNode
  <1>11. CASE \/ UndrainHealthy \/ UndrainUncordon \/ IsRebootRequired
              \/ Uncordon \/ CleanupActive \/ Cordon \/ IsNextNode \/ DrainCordon
              \/ RescheduleController \/ CleanupBeforeDrain \/ RunNodeDrain \/ RebootNode
              \/ NodeRebooted \/ ReconcileError \/ Terminate
              \/ \E m \in Nodes : Reconcile(m)
    BY Zenon, <1>1, <1>11 DEF UndrainHealthy, UndrainUncordon, IsRebootRequired, Uncordon,
       CleanupActive, Cordon, IsNextNode, DrainCordon, RescheduleController,
       CleanupBeforeDrain, RunNodeDrain, RebootNode, NodeRebooted, ReconcileError,
       Terminate, Reconcile
  <1>12. CASE \E m \in Nodes :
                \/ Restart(m) \/ SyncNode(m) \/ SyncKube(m)
                \/ HostReboots(m) \/ KubeletReady(m) \/ Schedule(m) \/ GarbageCollect(m)
                \/ \E s \in Requests : UserRequest(m, s)
                \/ UserDelete(m) \/ OtherManager(m) \/ NodeUnready(m)
                \/ RebootBecomesRequired(m) \/ NodeRemoved(m) \/ NodeJoins(m)
    BY Zenon, <1>1, <1>12 DEF Restart, SyncNode, SyncKube, HostReboots, KubeletReady,
       Schedule, GarbageCollect, UserRequest, UserDelete, OtherManager, NodeUnready,
       RebootBecomesRequired, NodeRemoved, NodeJoins, notes
  <1> QED  BY <1>2, <1>4, <1>5, <1>6, <1>7, <1>8, <1>9, <1>10, <1>11, <1>12 DEF Next, Step

\* How deletions and requests reach an object.
SpecStep(n) ==
    /\ apiNode'[n].life = "deleting" =>
          apiNode[n].life = "deleting" \/ "delete" \in Environment \/ ~apiKube[n].present
    /\ apiNode'[n].life = "absent" => apiNode[n].life \in {"absent", "deleting"}
    /\ \/ apiNode'[n].state \in {apiNode[n].state, "Active"} \cup Requests
       \/ /\ apiNode'[n].state = "Cordoned" /\ n = req /\ pc = "create"
          /\ Unschedulable(kubeNode) /\ apiNode[n].life = "absent"

\* A patch neither deletes an object nor requests anything but Active.
LEMMA SpecPatch ==
    ASSUME TypeOK,
           \/ StartUndrain \/ UndrainReset \/ UndrainOk \/ ClearDrained
           \/ SaveRebootRequired \/ SetOk \/ SetCordoned \/ Enqueue \/ Promote
           \/ SetActive \/ SetDraining \/ SetDrained \/ SetBootID \/ SetRebooting
           \/ SaveRebooted
    PROVE  \A n \in Nodes : SpecStep(n)
  <1>1. pc # "idle"
    BY DEF StartUndrain, UndrainReset, UndrainOk, ClearDrained, SaveRebootRequired,
       SetOk, SetCordoned, Enqueue, Promote, SetActive, SetDraining, SetDrained,
       SetBootID, SetRebooting, SaveRebooted
  <1>2. ASSUME NEW new, NEW L, Patched(new, L), new.life = apiNode[req].life,
               new.state \in {apiNode[req].state, "Active"}
        PROVE  \A n \in Nodes : SpecStep(n)
    <2> SUFFICES ASSUME NEW n \in Nodes  PROVE SpecStep(n)
      OBVIOUS
    <2>1. apiNode'[n] = apiNode[n] \/ (n = req /\ apiNode'[n] = new)
      BY <1>1, <1>2, PatchEffect
    <2> QED  BY <1>2, <2>1 DEF SpecStep
  <1>3. apiNode[req] \in NodeObjects /\ StatusDefaults(apiNode[req]) \in NodeObjects
    BY <1>1, PatchFields
  <1>4. /\ StatusDefaults(apiNode[req]).life = apiNode[req].life
        /\ StatusDefaults(apiNode[req]).state = apiNode[req].state
    BY <1>3 DEF NodeObjects, StatusDefaults
  <1>5. \A c : /\ CurrentState(c).life = apiNode[req].life
               /\ CurrentState(c).state = apiNode[req].state
    BY <1>3 DEF NodeObjects, CurrentState
  <1> DEFINE sd == StatusDefaults(apiNode[req])
             checked == [sd EXCEPT !.reboot = IF required THEN "yes" ELSE "no"]
             booted == [sd EXCEPT !.bootID = kubeNode.boot]
             done == [sd EXCEPT !.bootID = NoBoot, !.reboot = "no"]
             active == [apiNode[req] EXCEPT !.state = "Active"]
             drained == [apiNode[req] EXCEPT !.drained = TRUE,
                            !.cur = IF node.cur = "Drained" THEN @ ELSE "Drained"]
  <1>6. /\ active.life = apiNode[req].life /\ active.state = "Active"
        /\ drained.life = apiNode[req].life /\ drained.state = apiNode[req].state
    BY <1>3 DEF NodeObjects
  <1>7. sd \in NodeObjects /\ sd.life = apiNode[req].life /\ sd.state = apiNode[req].state
    BY <1>3, <1>4
  <1>8. NotDrained = [sd EXCEPT !.drained = FALSE] /\ RebootDone(sd) = done
    BY DEF NotDrained, RebootDone
  <1>9. CASE \/ StartUndrain \/ UndrainOk \/ SetOk \/ SetCordoned \/ Enqueue \/ Promote
             \/ SetDraining \/ SetRebooting
    BY Zenon, <1>2, <1>5, <1>9 DEF StartUndrain, UndrainOk, SetOk, SetCordoned, Enqueue,
       Promote, SetDraining, SetRebooting
  <1>10. CASE SaveRebootRequired
    <2>1. \E L : Patched(checked, L)  BY <1>10 DEF SaveRebootRequired
    <2> HIDE DEF sd
    <2>2. checked.life = apiNode[req].life /\ checked.state = apiNode[req].state
      BY <1>7 DEF NodeObjects
    <2> HIDE DEF checked
    <2> QED  BY <1>2, <2>1, <2>2
  <1>11. CASE SetBootID
    <2>1. \E L : Patched(booted, L)  BY <1>11 DEF SetBootID
    <2> HIDE DEF sd
    <2>2. booted.life = apiNode[req].life /\ booted.state = apiNode[req].state
      BY <1>7 DEF NodeObjects
    <2> HIDE DEF booted
    <2> QED  BY <1>2, <2>1, <2>2
  <1>12. CASE SaveRebooted
    <2>1. \E L : Patched(done, L)  BY <1>8, <1>12 DEF SaveRebooted
    <2> HIDE DEF sd
    <2>2. done.life = apiNode[req].life /\ done.state = apiNode[req].state
      BY <1>7 DEF NodeObjects
    <2> HIDE DEF done
    <2> QED  BY <1>2, <2>1, <2>2
  <1>13. CASE UndrainReset \/ ClearDrained
    <2>1. \E L : Patched(NotDrained, L)  BY <1>13 DEF UndrainReset, ClearDrained
    <2> HIDE DEF sd
    <2>2. NotDrained.life = apiNode[req].life /\ NotDrained.state = apiNode[req].state
      BY <1>7, <1>8 DEF NodeObjects
    <2> QED  BY <1>2, <2>1, <2>2
  <1>14. CASE SetActive
    <2>1. \E L : Patched(active, L)  BY <1>14 DEF SetActive
    <2> HIDE DEF active
    <2> QED  BY <1>2, <1>6, <2>1
  <1>15. CASE SetDrained
    <2>1. \E L : Patched(drained, L)  BY <1>15 DEF SetDrained
    <2> HIDE DEF drained
    <2> QED  BY <1>2, <1>6, <2>1
  <1> QED  BY <1>9, <1>10, <1>11, <1>12, <1>13, <1>14, <1>15

\* Every step changes life and request in these ways only.
LEMMA SpecFrame ==
    ASSUME Known, [Next]_vars
    PROVE  \A n \in Nodes : SpecStep(n)
  <1>0. TypeOK /\ apiNode \in [Nodes -> NodeObjects]  BY DEF Known, TypeOK, TypeObjects
  <1>1. CASE apiNode' = apiNode  BY <1>1 DEF SpecStep
  <1>2. CASE UNCHANGED vars  BY <1>1, <1>2 DEF vars, api
  <1>3. CASE \/ UndrainHealthy \/ UndrainUncordon \/ RunPostDrain \/ IsRebootRequired
             \/ Uncordon \/ CleanupActive \/ Cordon \/ IsNextNode \/ Vet \/ DrainCordon
             \/ RescheduleController \/ RunPreDrain \/ CleanupBeforeDrain
             \/ RunNodeDrain \/ RebootNode \/ NodeRebooted \/ ReconcileError \/ Terminate
             \/ \E n \in Nodes : Reconcile(n)
    BY Zenon, <1>1, <1>3 DEF UndrainHealthy, UndrainUncordon, RunPostDrain,
       IsRebootRequired, Uncordon, CleanupActive, Cordon, IsNextNode, Vet, DrainCordon,
       RescheduleController, RunPreDrain, CleanupBeforeDrain, RunNodeDrain, RebootNode,
       NodeRebooted, ReconcileError, Terminate, Reconcile, PatchedKube, SameNodes, api
  <1>4. CASE \E n \in Nodes :
                \/ Restart(n) \/ SyncNode(n) \/ SyncKube(n) \/ HostReboots(n)
                \/ KubeletReady(n) \/ Schedule(n) \/ OtherManager(n) \/ NodeUnready(n)
                \/ RebootBecomesRequired(n) \/ NodeRemoved(n) \/ NodeJoins(n)
    BY Zenon, <1>1, <1>4 DEF Restart, SyncNode, SyncKube, HostReboots, KubeletReady,
       Schedule, OtherManager, NodeUnready, RebootBecomesRequired, NodeRemoved, NodeJoins,
       SameNodes, api
  <1>5. ASSUME NEW m \in Nodes, GarbageCollect(m) \/ UserDelete(m), NEW n \in Nodes
        PROVE  SpecStep(n)
    <2>1. /\ apiNode' = [apiNode EXCEPT ![m] = [apiNode[m] EXCEPT !.life = "deleting"]]
          /\ "delete" \in Environment \/ ~apiKube[m].present
      BY Zenon, <1>5 DEF GarbageCollect, UserDelete, Event, WriteNode
    <2>2. \/ apiNode'[n] = apiNode[n]
          \/ /\ n = m /\ apiNode'[n].life = "deleting"
             /\ apiNode'[n].state = apiNode[n].state
      BY <1>0, <2>1 DEF NodeObjects
    <2> QED  BY <2>1, <2>2 DEF SpecStep
  <1>6. ASSUME NEW m \in Nodes, NEW s \in Requests, UserRequest(m, s), NEW n \in Nodes
        PROVE  SpecStep(n)
    <2>1. apiNode' = [apiNode EXCEPT ![m] = [apiNode[m] EXCEPT !.state = ApplyDefaults(s)]]
      BY Zenon, <1>6 DEF UserRequest, WriteNode
    <2>2. ApplyDefaults(s) \in {"Active"} \cup Requests  BY DEF ApplyDefaults
    <2>3. \/ apiNode'[n] = apiNode[n]
          \/ /\ n = m /\ apiNode'[n].life = apiNode[n].life
             /\ apiNode'[n].state = ApplyDefaults(s)
      BY <1>0, <2>1 DEF NodeObjects
    <2> QED  BY <2>2, <2>3 DEF SpecStep
  <1>7. ASSUME CreateNewNode, NEW n \in Nodes  PROVE SpecStep(n)
    <2>1. pc = "create" /\ req \in Nodes  BY <1>0, <1>7, StepRequest DEF CreateNewNode
    <2>2. CASE SameNodes  BY <1>1, <2>2 DEF SameNodes
    <2>3. CASE apiNode[req].life = "absent" /\ ~SameNodes
      <3> DEFINE s == IF Unschedulable(kubeNode) THEN "Cordoned" ELSE "Active"
      <3>1. WriteNode(req, NewObject(s))  BY <1>7, <2>3 DEF CreateNewNode
      <3>2. NewObject(s).life = "held" /\ NewObject(s).state = s  BY DEF NewObject
      <3>3. apiNode'[n] = apiNode[n] \/ (n = req /\ apiNode'[n] = NewObject(s))
        BY <1>0, <2>1, <3>1 DEF WriteNode
      <3> QED  BY <2>1, <2>3, <3>2, <3>3 DEF SpecStep
    <2> QED  BY <1>7, <2>2, <2>3 DEF CreateNewNode
  <1>8. ASSUME RemoveFinalizer, NEW n \in Nodes  PROVE SpecStep(n)
    <2>1. pc = "finalize" /\ req \in Nodes  BY <1>0, <1>8, StepRequest DEF RemoveFinalizer
    <2>2. CASE SameNodes  BY <1>1, <2>2 DEF SameNodes
    <2>3. CASE apiNode[req] = node /\ ~SameNodes
      <3>1. WriteNode(req, NoObject)  BY <1>8, <2>3 DEF RemoveFinalizer
      <3>2. NoObject.life = "absent" /\ NoObject.state = "Active"
        BY DEF NoObject, NewObject
      <3>3. apiNode'[n] = apiNode[n] \/ (n = req /\ apiNode'[n] = NoObject)
        BY <1>0, <2>1, <3>1 DEF WriteNode
      <3>4. apiNode[req].life = "deleting"
        BY <2>1, <2>3 DEF Known, LocalStatus, At
      <3> QED  BY <3>2, <3>3, <3>4 DEF SpecStep
    <2> QED  BY <1>8, <2>2, <2>3 DEF RemoveFinalizer
  <1> QED  BY <1>0, <1>2, <1>3, <1>4, <1>5, <1>6, <1>7, <1>8, SpecPatch DEF Next, Step

-----------------------------------------------------------------------------
(* The control flow of Reconcile across a step. *)

\* A call, and the call that may follow it without another decision.
Follows ==
    {<<"undrainHealthy", "undrainUncordon">>, <<"undrainUncordon", "postDrain">>,
     <<"postDrain", "undrainReset">>, <<"postDrain", "undrainOk">>,
     <<"undrainReset", "undrainOk">>, <<"checkReboot", "saveCheck">>,
     <<"recheck", "saveRecheck">>, <<"uncordon", "setOk">>, <<"uncordon", "cleanup">>,
     <<"setOk", "cleanup">>, <<"cordon", "setCordoned">>, <<"isNext", "promote">>,
     <<"vet", "setDraining">>, <<"setDraining", "preDrain">>,
     <<"setDraining", "drainCordon">>, <<"drainCordon", "preDrain">>,
     <<"preDrain", "drainCleanup">>, <<"drainCleanup", "evict">>, <<"evict", "setDrained">>,
     <<"setBootID", "rebootNode">>, <<"rebootNode", "setRebooting">>,
     <<"nodeRebooted", "saveRebooted">>, <<"saveRebooted", "setActive">>}

\* The call that follows a decision, made on the local objects.
Decides ==
    \/ pc \in {"undrainReset", "undrainOk"} /\ node'.cur = "OK"
       /\ pc' \in AfterUndrain(node', kubeNode')
    \/ pc = "clearDrained" /\ pc' \in CheckReboot(node', kubeNode')
    \/ pc = "saveCheck" /\ pc' \in SwitchState(node', kubeNode')
    \/ pc = "saveRecheck" /\ pc' \in Decide(node', kubeNode', node'.reboot = "yes")
    \/ pc = "setDrained" /\ pc' \in RebootPart(node', kubeNode')

FlowStep ==
    \/ pc' = "idle"
    \/ UNCHANGED local
    \/ \E n \in Nodes : Reconcile(n)
    \/ /\ pc # "idle" /\ req' = req
       /\ node' \in {node, apiNode'[req]}
       /\ <<pc, pc'>> \in Follows \/ Decides

\* Where a patch of the drain Node leads.
LEMMA PatchFlow ==
    ASSUME TypeOK, pc # "idle", NEW new, NEW L, Patched(new, L), pc' # "idle"
    PROVE  /\ req' = req /\ pc' \in L /\ kubeNode' = kubeNode
           /\ node' = new /\ node' = apiNode'[req]
  <1>1. req \in Nodes /\ apiNode \in [Nodes -> NodeObjects]
    BY StepRequest DEF TypeOK, TypeObjects
  <1>2. CASE apiNode[req].life = "absent"
    BY <1>2 DEF Patched, Return, Continue
  <1>3. CASE apiNode[req].life # "absent"
    <2>1. WriteNode(req, new) /\ Continue(L, new, kubeNode)  BY <1>3 DEF Patched
    <2> QED  BY <1>1, <2>1 DEF WriteNode, Continue
  <1> QED  BY <1>2, <1>3

\* Where a patch of the core Node leads.
LEMMA KubeFlow ==
    ASSUME TypeOK, pc # "idle", NEW c, NEW L, PatchedKube(c, L), pc' # "idle"
    PROVE  /\ req' = req /\ pc' \in L /\ node' = node /\ kubeNode' = apiKube'[req]
  <1>1. req \in Nodes /\ apiKube \in [Nodes -> KubeObjects]
    BY StepRequest DEF TypeOK, TypeObjects
  <1>2. CASE ~apiKube[req].present
    BY <1>2 DEF PatchedKube, Return, Continue
  <1>3. CASE apiKube[req].present
    <2> DEFINE new == [apiKube[req] EXCEPT !.cordon = c]
    <2>1. WriteKube(req, new) /\ Continue(L, node, new)  BY <1>3 DEF PatchedKube
    <2> HIDE DEF new
    <2> QED  BY <1>1, <2>1 DEF WriteKube, Continue
  <1> QED  BY <1>2, <1>3

\* A patch leads to the call that follows it, or to a decision.
LEMMA FlowPatch ==
    ASSUME TypeOK, pc' # "idle",
           \/ StartUndrain \/ UndrainReset \/ UndrainOk \/ ClearDrained
           \/ SaveRebootRequired \/ SetOk \/ SetCordoned \/ Enqueue \/ Promote
           \/ SetActive \/ SetDraining \/ SetDrained \/ SetBootID \/ SetRebooting
           \/ SaveRebooted
    PROVE  /\ pc # "idle" /\ req' = req /\ node' = apiNode'[req]
           /\ <<pc, pc'>> \in Follows \/ Decides
  <1>1. pc # "idle"
    BY DEF StartUndrain, UndrainReset, UndrainOk, ClearDrained, SaveRebootRequired,
       SetOk, SetCordoned, Enqueue, Promote, SetActive, SetDraining, SetDrained,
       SetBootID, SetRebooting, SaveRebooted
  <1> DEFINE Goal == /\ req' = req /\ node' = apiNode'[req]
                     /\ <<pc, pc'>> \in Follows \/ Decides
  <1> SUFFICES Goal  BY <1>1
  <1>2. CASE StartUndrain \/ SetCordoned \/ Enqueue \/ Promote \/ SetActive \/ SetRebooting
    BY <1>1, <1>2, PatchFlow DEF StartUndrain, SetCordoned, Enqueue, Promote, SetActive,
       SetRebooting
  <1>3. CASE UndrainReset
    <2>1. CASE NotDrained.cur = "OK"
      <3>1. Patched(NotDrained, AfterUndrain(NotDrained, kubeNode)) /\ pc = "undrainReset"
        BY <1>3, <2>1 DEF UndrainReset
      <3> QED  BY <1>1, <2>1, <3>1, PatchFlow DEF Decides
    <2>2. CASE NotDrained.cur # "OK"
      <3>1. Patched(NotDrained, {"undrainOk"}) /\ pc = "undrainReset"
        BY <1>3, <2>2 DEF UndrainReset
      <3> QED  BY <1>1, <3>1, PatchFlow DEF Follows
    <2> QED  BY <2>1, <2>2
  <1>4. CASE UndrainOk
    <2>1. /\ Patched(CurrentState("OK"), AfterUndrain(CurrentState("OK"), kubeNode))
          /\ pc = "undrainOk"
      BY <1>4 DEF UndrainOk
    <2>2. CurrentState("OK").cur = "OK"  BY <1>1, PatchFields
    <2> QED  BY <1>1, <2>1, <2>2, PatchFlow DEF Decides
  <1>5. CASE ClearDrained
    <2>1. Patched(NotDrained, CheckReboot(NotDrained, kubeNode)) /\ pc = "clearDrained"
      BY <1>5 DEF ClearDrained
    <2> QED  BY <1>1, <2>1, PatchFlow DEF Decides
  <1>6. CASE SaveRebootRequired
    <2> DEFINE sd == StatusDefaults(apiNode[req])
               new == [sd EXCEPT !.reboot = IF required THEN "yes" ELSE "no"]
    <2>1. sd \in NodeObjects /\ required \in BOOLEAN
      BY <1>1, PatchFields DEF TypeOK, TypeLocal
    <2>2. CASE pc = "saveCheck"
      <3>1. Patched(new, SwitchState(new, kubeNode))
        BY <1>6, <2>2 DEF SaveRebootRequired
      <3> HIDE DEF new
      <3> QED  BY <1>1, <2>2, <3>1, PatchFlow DEF Decides
    <2>3. CASE pc = "saveRecheck"
      <3>1. Patched(new, Decide(new, kubeNode, required))
        BY <1>6, <2>3 DEF SaveRebootRequired
      <3> HIDE DEF sd
      <3>2. new.reboot = "yes" <=> required  BY <2>1 DEF NodeObjects
      <3> HIDE DEF new
      <3>3. Decide(new, kubeNode, required) = Decide(new, kubeNode, new.reboot = "yes")
        BY <3>2 DEF Decide
      <3> QED  BY <1>1, <2>3, <3>1, <3>3, PatchFlow DEF Decides
    <2> QED  BY <1>6, <2>2, <2>3 DEF SaveRebootRequired
  <1>7. CASE SetOk
    <2>1. Patched(CurrentState("OK"), {"cleanup"}) /\ pc = "setOk"  BY <1>7 DEF SetOk
    <2> QED  BY <1>1, <2>1, PatchFlow DEF Follows
  <1>8. CASE SetDraining
    <2>1. /\ pc = "setDraining"
          /\ \E L : Patched(CurrentState("Draining"), L) /\ L \subseteq {"preDrain", "drainCordon"}
      BY <1>8 DEF SetDraining
    <2> QED  BY <1>1, <2>1, PatchFlow DEF Follows
  <1>9. CASE SetDrained
    <2> DEFINE new == [apiNode[req] EXCEPT !.drained = TRUE,
                          !.cur = IF node.cur = "Drained" THEN @ ELSE "Drained"]
    <2>1. Patched(new, RebootPart(new, kubeNode)) /\ pc = "setDrained"
      BY <1>9 DEF SetDrained
    <2> HIDE DEF new
    <2> QED  BY <1>1, <2>1, PatchFlow DEF Decides
  <1>10. CASE SetBootID
    <2>1. pc = "setBootID" /\ \E new : Patched(new, {"rebootNode"})  BY <1>10 DEF SetBootID
    <2> QED  BY <1>1, <2>1, PatchFlow DEF Follows
  <1>11. CASE SaveRebooted
    <2>1. /\ pc = "saveRebooted"
          /\ \E new, L : Patched(new, L) /\ L \subseteq {"idle", "setActive"}
      BY <1>11 DEF SaveRebooted
    <2> QED  BY <1>1, <2>1, PatchFlow DEF Follows
  <1> QED  BY <1>2, <1>3, <1>4, <1>5, <1>6, <1>7, <1>8, <1>9, <1>10, <1>11

\* A running Reconcile goes where the control flow of its code leads it.
LEMMA FlowFrame ==
    ASSUME TypeOK, [Next]_vars
    PROVE  FlowStep
  <1> SUFFICES ASSUME pc' # "idle", ~UNCHANGED local, ~(\E n \in Nodes : Reconcile(n))
               PROVE  /\ pc # "idle" /\ req' = req /\ node' \in {node, apiNode'[req]}
                      /\ <<pc, pc'>> \in Follows \/ Decides
    BY DEF FlowStep
  <1> DEFINE Goal == /\ pc # "idle" /\ req' = req /\ node' \in {node, apiNode'[req]}
                     /\ <<pc, pc'>> \in Follows
  <1>1. CASE \/ StartUndrain \/ UndrainReset \/ UndrainOk \/ ClearDrained
             \/ SaveRebootRequired \/ SetOk \/ SetCordoned \/ Enqueue \/ Promote
             \/ SetActive \/ SetDraining \/ SetDrained \/ SetBootID \/ SetRebooting
             \/ SaveRebooted
    BY <1>1, FlowPatch
  <1>2. ASSUME UndrainHealthy \/ RunPostDrain \/ IsNextNode \/ Vet \/ RunPreDrain
                 \/ CleanupBeforeDrain \/ RunNodeDrain \/ RebootNode \/ NodeRebooted
        PROVE  Goal
    BY <1>2 DEF UndrainHealthy, RunPostDrain, IsNextNode, Vet, RunPreDrain,
       CleanupBeforeDrain, RunNodeDrain, RebootNode, NodeRebooted, Return, Continue, Follows
  <1>3. ASSUME IsRebootRequired  PROVE Goal
    BY <1>3 DEF IsRebootRequired, Return, Continue, Follows
  <1>4. ASSUME UndrainUncordon \/ DrainCordon  PROVE Goal
    BY <1>4, KubeFlow DEF UndrainUncordon, DrainCordon, Follows
  <1>5. ASSUME Uncordon  PROVE Goal
    BY <1>5, KubeFlow DEF Uncordon, Follows
  <1>6. ASSUME Cordon  PROVE Goal
    BY <1>6, KubeFlow DEF Cordon, Follows
  <1>7. CASE \/ CreateNewNode \/ RemoveFinalizer \/ CleanupActive \/ RescheduleController
             \/ ReconcileError \/ Terminate
    BY <1>7 DEF CreateNewNode, RemoveFinalizer, CleanupActive, RescheduleController,
       ReconcileError, Terminate, Return, Continue
  <1>8. CASE \E m \in Nodes :
                \/ Restart(m) \/ SyncNode(m) \/ SyncKube(m)
                \/ KubeletReady(m) \/ Schedule(m) \/ GarbageCollect(m)
                \/ \E s \in Requests : UserRequest(m, s)
                \/ UserDelete(m) \/ OtherManager(m) \/ NodeUnready(m)
                \/ RebootBecomesRequired(m) \/ NodeJoins(m)
    BY Zenon, <1>8 DEF Restart, SyncNode, SyncKube, KubeletReady, Schedule,
       GarbageCollect, UserRequest, UserDelete, OtherManager, NodeUnready,
       RebootBecomesRequired, NodeJoins
  <1>9. CASE \E m \in Nodes : HostReboots(m) \/ NodeRemoved(m)
    <2>1. Return \/ UNCHANGED local  BY Zenon, <1>9 DEF HostReboots, NodeRemoved
    <2> QED  BY <2>1 DEF Return, Continue
  <1>10. CASE UNCHANGED vars  BY <1>10 DEF vars
  <1> QED  BY <1>1, <1>2, <1>3, <1>4, <1>5, <1>6, <1>7, <1>8, <1>9, <1>10 DEF Next, Step

-----------------------------------------------------------------------------
(* Cordons, when nobody else touches them. *)

\* Reconcile's local cordon is the API server's.
CordonKnown ==
    /\ cacheKube = apiKube
    /\ \A n \in Nodes : apiKube[n].present
    /\ pc # "idle" => kubeNode.cordon = apiKube[req].cordon

\* Every step keeps that, when the cache does not lag and nobody else cordons or
\* removes nodes.
LEMMA CordonKnownStep ==
    ASSUME TypeOK, CordonKnown, ~CacheLag, Environment \cap {"cordon", "remove"} = {},
           [Next]_vars
    PROVE  CordonKnown'
  <1>1. apiKube \in [Nodes -> KubeObjects] /\ \A n \in Nodes : apiKube'[n].present
    BY CordonFrame DEF TypeOK, TypeObjects, CordonKnown
  <1>2. ASSUME SameKubes,
               pc' = "idle" \/ (pc # "idle" /\ req' = req /\ kubeNode' = kubeNode)
        PROVE  CordonKnown'
    BY <1>1, <1>2 DEF SameKubes, CordonKnown
  <1>3. ASSUME UNCHANGED local, SameKubes  PROVE CordonKnown'
    BY <1>2, <1>3 DEF local
  <1>4. ASSUME NEW m \in Nodes, NEW new, WriteKube(m, new), new.cordon = apiKube[m].cordon,
               UNCHANGED local \/ pc' = "idle"
        PROVE  CordonKnown'
    <2>1. cacheKube' = apiKube' /\ \A n \in Nodes : apiKube'[n].cordon = apiKube[n].cordon
      BY <1>1, <1>4 DEF WriteKube, CordonKnown
    <2>2. pc # "idle" => req \in Nodes  BY StepRequest
    <2> QED  BY <1>1, <1>4, <2>1, <2>2 DEF local, CordonKnown
  <1>5. CASE \/ StartUndrain \/ UndrainReset \/ UndrainOk \/ ClearDrained
             \/ SaveRebootRequired \/ SetOk \/ SetCordoned \/ Enqueue \/ Promote
             \/ SetActive \/ SetDraining \/ SetDrained \/ SetBootID \/ SetRebooting
             \/ SaveRebooted
    <2>1. pc # "idle" /\ \E new, L : Patched(new, L)
      BY <1>5 DEF StartUndrain, UndrainReset, UndrainOk, ClearDrained, SaveRebootRequired,
         SetOk, SetCordoned, Enqueue, Promote, SetActive, SetDraining, SetDrained,
         SetBootID, SetRebooting, SaveRebooted
    <2>2. SameKubes  BY <2>1 DEF Patched
    <2>3. pc' = "idle" \/ (req' = req /\ kubeNode' = kubeNode)
      BY Zenon, <2>1, PatchFlow
    <2> QED  BY <1>2, <2>1, <2>2, <2>3
  <1>6. CASE \/ UndrainHealthy \/ RunPostDrain \/ IsNextNode \/ Vet \/ RunPreDrain
             \/ CleanupBeforeDrain \/ RunNodeDrain \/ RebootNode \/ NodeRebooted
             \/ IsRebootRequired \/ CreateNewNode \/ RemoveFinalizer \/ CleanupActive
             \/ RescheduleController \/ ReconcileError
    <2>1. SameKubes
      BY Zenon, <1>6 DEF UndrainHealthy, RunPostDrain, IsNextNode, Vet, RunPreDrain,
         CleanupBeforeDrain, RunNodeDrain, RebootNode, NodeRebooted, IsRebootRequired,
         CreateNewNode, RemoveFinalizer, CleanupActive, RescheduleController,
         ReconcileError, SameKubes, api, cache
    <2>2. pc # "idle"
      BY <1>6 DEF UndrainHealthy, RunPostDrain, IsNextNode, Vet, RunPreDrain,
         CleanupBeforeDrain, RunNodeDrain, RebootNode, NodeRebooted, IsRebootRequired,
         CreateNewNode, RemoveFinalizer, CleanupActive, RescheduleController,
         ReconcileError
    <2>3. pc' = "idle" \/ (req' = req /\ kubeNode' = kubeNode)
      BY <1>6 DEF UndrainHealthy, RunPostDrain, IsNextNode, Vet, RunPreDrain,
         CleanupBeforeDrain, RunNodeDrain, RebootNode, NodeRebooted, IsRebootRequired,
         CreateNewNode, RemoveFinalizer, CleanupActive, RescheduleController,
         ReconcileError, Return, Continue
    <2> QED  BY <1>2, <2>1, <2>2, <2>3
  <1>7. CASE UndrainUncordon \/ Uncordon \/ Cordon \/ DrainCordon
    <2>1. pc # "idle" /\ \E c, L : PatchedKube(c, L)
      BY <1>7 DEF UndrainUncordon, Uncordon, Cordon, DrainCordon
    <2>2. pc' = "idle" \/ (req' = req /\ kubeNode' = apiKube'[req])
      BY Zenon, <2>1, KubeFlow
    <2>3. cacheKube' = apiKube'
      BY <2>1 DEF PatchedKube, WriteKube, SameKubes, CordonKnown
    <2> QED  BY <1>1, <2>2, <2>3 DEF CordonKnown
  <1>8. ASSUME NEW m \in Nodes, Reconcile(m)  PROVE CordonKnown'
    BY <1>1, <1>8 DEF Reconcile, CordonKnown, api, cache
  <1>9. CASE Terminate
    BY <1>2, <1>9 DEF Terminate, Return, Continue, SameKubes, api, cache
  <1>10. ASSUME NEW m \in Nodes, Restart(m)  PROVE CordonKnown'
    BY <1>1, <1>10 DEF Restart, CordonKnown, api, local
  <1>11. ASSUME NEW m \in Nodes, SyncKube(m)  PROVE CordonKnown'
    BY <1>11 DEF SyncKube, CordonKnown
  <1>12. ASSUME NEW m \in Nodes, HostReboots(m)  PROVE CordonKnown'
    <2>1. PICK r \in BOOLEAN :
            WriteKube(m, [apiKube[m] EXCEPT !.boot = apiKube[m].boot + 1, !.ready = r])
      BY Zenon, <1>12 DEF HostReboots
    <2>2. [apiKube[m] EXCEPT !.boot = apiKube[m].boot + 1, !.ready = r].cordon
            = apiKube[m].cordon
      BY <1>1 DEF KubeObjects
    <2>3. UNCHANGED local \/ pc' = "idle"  BY <1>12 DEF HostReboots, Return, Continue
    <2> QED  BY Zenon, <1>4, <2>1, <2>2, <2>3
  <1>13. ASSUME NEW m \in Nodes, KubeletReady(m) \/ NodeUnready(m)  PROVE CordonKnown'
    <2>1. UNCHANGED local /\ \E r : WriteKube(m, [apiKube[m] EXCEPT !.ready = r])
      BY Zenon, <1>13 DEF KubeletReady, NodeUnready
    <2>2. \A r : [apiKube[m] EXCEPT !.ready = r].cordon = apiKube[m].cordon
      BY <1>1 DEF KubeObjects
    <2> QED  BY Zenon, <1>4, <2>1, <2>2
  <1>14. ASSUME NEW m \in Nodes, OtherManager(m) \/ NodeRemoved(m) \/ NodeJoins(m)  PROVE FALSE
    BY <1>14 DEF OtherManager, NodeRemoved, NodeJoins, Event, CordonKnown
  <1>15. CASE \E m \in Nodes :
                 \/ SyncNode(m) \/ Schedule(m) \/ GarbageCollect(m)
                 \/ \E s \in Requests : UserRequest(m, s)
                 \/ UserDelete(m) \/ RebootBecomesRequired(m)
    BY Zenon, <1>3, <1>15 DEF SyncNode, Schedule, GarbageCollect, UserRequest, UserDelete,
       RebootBecomesRequired, SameKubes, api, cache
  <1>16. CASE UNCHANGED vars  BY <1>3, <1>16 DEF vars, SameKubes, api, cache
  <1> QED  BY <1>5, <1>6, <1>7, <1>8, <1>9, <1>10, <1>11, <1>12, <1>13, <1>14, <1>15,
              <1>16 DEF Next, Step

=============================================================================
