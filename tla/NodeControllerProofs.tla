------------------------ MODULE NodeControllerProofs ------------------------
(***************************************************************************)
(* Theorems about NodeController for every set of nodes and every bound.   *)
(***************************************************************************)
EXTENDS NodeController, TLAPS

USE ConstantsAssumption

(* What Reconcile does next is always one of its calls. *)

\* Every branch of Reconcile leads to a call it has.
LEMMA NextLabels ==
    ASSUME NEW nd, NEW kn, NEW b
    PROVE  /\ RebootPart(nd, kn) \subseteq Labels
           /\ Decide(nd, kn, b) \subseteq Labels
           /\ SwitchState(nd, kn) \subseteq Labels
           /\ CheckReboot(nd, kn) \subseteq Labels
           /\ AfterUndrain(nd, kn) \subseteq Labels
           /\ Entry(nd, kn) \subseteq Labels
  <1>1. RebootPart(nd, kn) \subseteq Labels  BY DEF RebootPart, Labels
  <1>2. DrainPart(nd, kn) \subseteq Labels
    BY <1>1 DEF DrainPart, DrainEntry, Labels
  <1>3. \A c : Decide(nd, kn, c) \subseteq Labels  BY <1>2 DEF Decide, Labels
  <1>4. WorkPart(nd, kn) \subseteq Labels  BY <1>2, <1>3 DEF WorkPart, Labels
  <1>5. SwitchState(nd, kn) \subseteq Labels  BY <1>4 DEF SwitchState, Labels
  <1>6. CheckReboot(nd, kn) \subseteq Labels  BY <1>5 DEF CheckReboot, Labels
  <1>7. AfterUndrain(nd, kn) \subseteq Labels  BY <1>6 DEF AfterUndrain, Labels
  <1>8. UndrainPart(nd, kn) \subseteq Labels  BY <1>7 DEF UndrainPart, Labels
  <1>9. Entry(nd, kn) \subseteq Labels  BY <1>8 DEF Entry, Deleting, Labels
  <1> QED  BY <1>1, <1>3, <1>5, <1>6, <1>7, <1>9

(* The objects the steps build are objects. *)

\* The objects before they exist.
LEMMA NoObjects ==
    NoObject \in NodeObjects /\ NewKube \in KubeObjects /\ NoKube \in KubeObjects
  <1>1. NewObject("Active") \in NodeObjects
    BY DEF NewObject, NodeObjects, NodeStates
  <1>2. NewKube \in KubeObjects
    BY DEF NewKube, KubeObjects, BootIDs
  <1>3. NoObject \in NodeObjects  BY <1>1 DEF NoObject, NodeObjects
  <1>4. NoKube \in KubeObjects  BY Zenon, <1>2 DEF NoKube, KubeObjects
  <1> QED  BY <1>2, <1>3, <1>4

\* What Reconcile and users write over a drain Node is a drain Node.
LEMMA NodeEdits ==
    ASSUME NEW nd \in NodeObjects
    PROVE  /\ StatusDefaults(nd) \in NodeObjects
           /\ \A c \in NodeCurrentStates : [nd EXCEPT !.cur = c] \in NodeObjects
           /\ \A b \in BOOLEAN : [nd EXCEPT !.drained = b] \in NodeObjects
           /\ \A s \in NodeStates : [nd EXCEPT !.state = s] \in NodeObjects
           /\ \A a \in {"no", "yes"} : [nd EXCEPT !.reboot = a] \in NodeObjects
           /\ \A i \in BootIDs : [nd EXCEPT !.bootID = i] \in NodeObjects
           /\ [nd EXCEPT !.life = "deleting"] \in NodeObjects
           /\ RebootDone(nd) \in NodeObjects
           /\ [nd EXCEPT !.drained = TRUE,
                  !.cur = IF node.cur = "Drained" THEN @ ELSE "Drained"] \in NodeObjects
  <1>1. StatusDefaults(nd) \in NodeObjects
    BY DEF NodeObjects, StatusDefaults, NodeCurrentStates
  <1>2. \A c \in NodeCurrentStates : [nd EXCEPT !.cur = c] \in NodeObjects
    BY DEF NodeObjects
  <1>3. \A b \in BOOLEAN : [nd EXCEPT !.drained = b] \in NodeObjects
    BY DEF NodeObjects
  <1>4. \A s \in NodeStates : [nd EXCEPT !.state = s] \in NodeObjects
    BY DEF NodeObjects
  <1>5. \A a \in {"no", "yes"} : [nd EXCEPT !.reboot = a] \in NodeObjects
    BY DEF NodeObjects
  <1>6. \A i \in BootIDs : [nd EXCEPT !.bootID = i] \in NodeObjects
    BY DEF NodeObjects
  <1>7. [nd EXCEPT !.life = "deleting"] \in NodeObjects
    BY DEF NodeObjects
  <1>8. RebootDone(nd) \in NodeObjects
    BY Zenon DEF NodeObjects, RebootDone
  <1>9. [nd EXCEPT !.drained = TRUE,
            !.cur = IF node.cur = "Drained" THEN @ ELSE "Drained"] \in NodeObjects
    BY Zenon DEF NodeObjects, NodeCurrentStates
  <1> QED  BY <1>1, <1>2, <1>3, <1>4, <1>5, <1>6, <1>7, <1>8, <1>9

\* What happens to a core Node leaves a core Node.
LEMMA KubeEdits ==
    ASSUME NEW kn \in KubeObjects
    PROVE  /\ \A c \in {"none", "us", "other"} : [kn EXCEPT !.cordon = c] \in KubeObjects
           /\ \A b \in BOOLEAN : [kn EXCEPT !.ready = b] \in KubeObjects
           /\ [kn EXCEPT !.present = FALSE] \in KubeObjects
           /\ [kn EXCEPT !.present = TRUE, !.cordon = "none"] \in KubeObjects
           /\ \A b \in BOOLEAN : kn.boot < MaxBoots =>
                 [kn EXCEPT !.boot = @ + 1, !.ready = b] \in KubeObjects
  <1>1. \A c \in {"none", "us", "other"} : [kn EXCEPT !.cordon = c] \in KubeObjects
    BY DEF KubeObjects
  <1>2. \A b \in BOOLEAN : [kn EXCEPT !.ready = b] \in KubeObjects
    BY DEF KubeObjects
  <1>3. [kn EXCEPT !.present = FALSE] \in KubeObjects
    BY Zenon DEF KubeObjects
  <1>4. [kn EXCEPT !.present = TRUE, !.cordon = "none"] \in KubeObjects
    BY Zenon DEF KubeObjects
  <1>5. \A b \in BOOLEAN : kn.boot < MaxBoots =>
            [kn EXCEPT !.boot = @ + 1, !.ready = b] \in KubeObjects
    <2>1. kn.boot \in BootIDs  BY DEF KubeObjects
    <2>2. kn.boot < MaxBoots => kn.boot + 1 \in BootIDs  BY <2>1 DEF BootIDs
    <2> QED  BY Zenon, <2>2 DEF KubeObjects
  <1> QED  BY Zenon, <1>1, <1>2, <1>3, <1>4, <1>5

(* Writes keep the objects typed. *)

\* A write of a drain Node keeps the types of the API server and the cache.
LEMMA WriteNodeType ==
    ASSUME TypeObjects, NEW n \in Nodes, NEW new \in NodeObjects, WriteNode(n, new)
    PROVE  apiNode' \in [Nodes -> NodeObjects] /\ cacheNode' \in [Nodes -> NodeObjects]
  BY DEF TypeObjects, WriteNode

\* A write of a core Node does too.
LEMMA WriteKubeType ==
    ASSUME TypeObjects, NEW n \in Nodes, NEW new \in KubeObjects, WriteKube(n, new)
    PROVE  apiKube' \in [Nodes -> KubeObjects] /\ cacheKube' \in [Nodes -> KubeObjects]
  BY DEF TypeObjects, WriteKube

\* Going on with a call keeps the types of Reconcile's local variables.
LEMMA ContinueType ==
    ASSUME TypeLocal, req \in Nodes, NEW L \in SUBSET Labels,
           NEW nd \in NodeObjects, NEW kn \in KubeObjects, Continue(L, nd, kn)
    PROVE  TypeLocal'
  <1>1. pc' \in Labels /\ required' \in BOOLEAN  BY Zenon DEF Continue
  <1>2. CASE pc' = "idle"  BY <1>1, <1>2, NoObjects DEF TypeLocal, Continue
  <1>3. CASE pc' # "idle"
    <2>1. req' = req /\ node' = nd /\ kubeNode' = kn  BY <1>3 DEF Continue
    <2> QED  BY <1>1, <1>3, <2>1 DEF TypeLocal
  <1> QED  BY <1>2, <1>3

\* So does returning.
LEMMA ReturnType ==
    ASSUME Return
    PROVE  TypeLocal'
  BY Zenon, NoObjects DEF TypeLocal, Return, Continue, Labels

\* A patch of the drain Node, lost or done, keeps both.
LEMMA PatchedType ==
    ASSUME TypeObjects, TypeLocal, req \in Nodes, NEW new \in NodeObjects,
           NEW L \in SUBSET Labels, Patched(new, L)
    PROVE  TypeObjects' /\ TypeLocal'
  <1>1. CASE apiNode[req].life = "absent"
    BY <1>1, ReturnType DEF Patched, SameNodes, SameKubes, TypeObjects
  <1>2. CASE apiNode[req].life # "absent"
    <2>1. WriteNode(req, new) /\ Continue(L, new, kubeNode) /\ SameKubes
      BY <1>2 DEF Patched
    <2>2. TypeLocal'  BY <2>1, ContinueType DEF TypeLocal
    <2>3. TypeObjects'  BY <2>1, WriteNodeType DEF TypeObjects, SameKubes
    <2> QED  BY <2>2, <2>3
  <1> QED  BY <1>1, <1>2

\* A patch of the core Node does too.
LEMMA PatchedKubeType ==
    ASSUME TypeObjects, TypeLocal, req \in Nodes, NEW c \in {"none", "us", "other"},
           NEW L \in SUBSET Labels, PatchedKube(c, L)
    PROVE  TypeObjects' /\ TypeLocal'
  <1> DEFINE new == [apiKube[req] EXCEPT !.cordon = c]
  <1>0. new \in KubeObjects  BY Zenon, KubeEdits DEF TypeObjects
  <1>1. CASE ~apiKube[req].present
    BY <1>1, ReturnType DEF PatchedKube, SameNodes, SameKubes, TypeObjects
  <1>2. CASE apiKube[req].present
    <2>1. WriteKube(req, new) /\ Continue(L, node, new) /\ SameNodes
      BY <1>2 DEF PatchedKube
    <2> HIDE DEF new
    <2>2. TypeLocal'  BY <1>0, <2>1, ContinueType DEF TypeLocal
    <2>3. TypeObjects'  BY <1>0, <2>1, WriteKubeType DEF TypeObjects, SameNodes
    <2> QED  BY <2>2, <2>3
  <1> QED  BY <1>1, <1>2
(* One lemma per group of steps: TypeOK is preserved. *)

\* A running Reconcile has a request.
LEMMA StepRequest ==
    ASSUME TypeOK, pc # "idle"
    PROVE  req \in Nodes
  BY DEF TypeOK, TypeLocal

\* The steps that are a patch of the drain Node.
LEMMA NodePatchType ==
    ASSUME TypeOK,
           \/ StartUndrain \/ UndrainReset \/ UndrainOk \/ ClearDrained
           \/ SaveRebootRequired \/ SetOk \/ SetCordoned \/ Enqueue \/ Promote
           \/ SetActive \/ SetDraining \/ SetDrained \/ SetBootID \/ SetRebooting
           \/ SaveRebooted
    PROVE  TypeOK'
  <1>1. req \in Nodes
    BY StepRequest DEF StartUndrain, UndrainReset, UndrainOk, ClearDrained,
       SaveRebootRequired, SetOk, SetCordoned, Enqueue, Promote, SetActive,
       SetDraining, SetDrained, SetBootID, SetRebooting, SaveRebooted
  <1>2. apiNode[req] \in NodeObjects /\ TypeObjects /\ TypeLocal /\ TypeWorld
    BY <1>1 DEF TypeOK, TypeObjects
  <1>3. /\ \A c \in NodeCurrentStates : CurrentState(c) \in NodeObjects
        /\ NotDrained \in NodeObjects
        /\ StatusDefaults(apiNode[req]) \in NodeObjects
    BY Zenon, <1>2, NodeEdits DEF CurrentState, NotDrained
  <1>4. \A L \in SUBSET Labels, new \in NodeObjects :
            Patched(new, L) => TypeObjects' /\ TypeLocal'
    BY <1>1, <1>2, PatchedType
  <1>5. ASSUME NEW L \in SUBSET Labels, NEW c \in NodeCurrentStates,
               Patched(CurrentState(c), L)
        PROVE  TypeObjects' /\ TypeLocal'
    BY <1>3, <1>4, <1>5
  <1>6. ASSUME UNCHANGED <<hosts, hooked, ctl, bounds>>, vetted' \subseteq vetted
        PROVE  TypeWorld'
    BY <1>2, <1>6 DEF TypeWorld, hosts, ctl, bounds
  <1>7. ASSUME UNCHANGED <<hosts, notes, ctl, bounds>>
        PROVE  TypeWorld'
    BY <1>6, <1>7 DEF notes
  <1>a. CASE StartUndrain
    BY <1>a, <1>5, <1>7 DEF StartUndrain, NodeCurrentStates, Labels, TypeOK
  <1>b. CASE UndrainReset
    <2>1. AfterUndrain(NotDrained, kubeNode) \subseteq Labels /\ {"undrainOk"} \subseteq Labels
      BY NextLabels DEF Labels
    <2> QED  BY <1>b, <1>3, <1>4, <1>7, <2>1 DEF UndrainReset, TypeOK
  <1>c. CASE UndrainOk
    <2>1. AfterUndrain(CurrentState("OK"), kubeNode) \subseteq Labels  BY Zenon, NextLabels
    <2> QED  BY <1>c, <1>5, <1>6, <2>1 DEF UndrainOk, TypeOK, NodeCurrentStates
  <1>d. CASE ClearDrained
    <2>1. CheckReboot(NotDrained, kubeNode) \subseteq Labels  BY Zenon, NextLabels
    <2> QED  BY <1>d, <1>3, <1>4, <1>7, <2>1 DEF ClearDrained, TypeOK
  <1>e. CASE SaveRebootRequired
    <2> DEFINE new == [StatusDefaults(apiNode[req]) EXCEPT
                          !.reboot = IF required THEN "yes" ELSE "no"]
    <2>1. new \in NodeObjects  BY Zenon, <1>3, NodeEdits
    <2>2. SwitchState(new, kubeNode) \subseteq Labels /\ Decide(new, kubeNode, required) \subseteq Labels
      BY Zenon, NextLabels
    <2>3. Patched(new, IF pc = "saveCheck" THEN SwitchState(new, kubeNode)
                       ELSE Decide(new, kubeNode, required))
          /\ UNCHANGED <<hosts, notes, ctl, bounds>>
      BY <1>e DEF SaveRebootRequired
    <2> HIDE DEF new
    <2> QED  BY <1>4, <1>7, <2>1, <2>2, <2>3 DEF TypeOK
  <1>f. CASE SetOk
    BY <1>f, <1>5, <1>6 DEF SetOk, NodeCurrentStates, Labels, TypeOK
  <1>g. CASE SetCordoned
    BY <1>g, <1>5, <1>6 DEF SetCordoned, NodeCurrentStates, Labels, TypeOK
  <1>h. CASE Enqueue
    BY <1>h, <1>5, <1>6 DEF Enqueue, NodeCurrentStates, Labels, TypeOK
  <1>i. CASE Promote
    BY <1>i, <1>5, <1>6 DEF Promote, NodeCurrentStates, Labels, TypeOK
  <1>j. CASE SetActive
    <2>1. [apiNode[req] EXCEPT !.state = "Active"] \in NodeObjects
      BY Zenon, <1>2, NodeEdits DEF NodeStates
    <2> QED  BY <1>j, <1>4, <1>7, <2>1 DEF SetActive, Labels, TypeOK
  <1>k. CASE SetDraining
    BY <1>k, <1>5, <1>7 DEF SetDraining, NodeCurrentStates, Labels, TypeOK
  <1>l. CASE SetDrained
    <2> DEFINE new == [apiNode[req] EXCEPT !.drained = TRUE,
                          !.cur = IF node.cur = "Drained" THEN @ ELSE "Drained"]
    <2>1. new \in NodeObjects  BY Zenon, <1>2, NodeEdits
    <2>2. RebootPart(new, kubeNode) \subseteq Labels  BY Zenon, NextLabels
    <2>3. Patched(new, RebootPart(new, kubeNode)) /\ UNCHANGED <<hosts, notes, ctl, bounds>>
      BY <1>l DEF SetDrained
    <2> HIDE DEF new
    <2> QED  BY <1>4, <1>7, <2>1, <2>2, <2>3 DEF TypeOK
  <1>m. CASE SetBootID
    <2>1. kubeNode.boot \in BootIDs  BY <1>2 DEF TypeLocal, KubeObjects
    <2>2. [StatusDefaults(apiNode[req]) EXCEPT !.bootID = kubeNode.boot] \in NodeObjects
      BY Zenon, <1>3, <2>1, NodeEdits
    <2> QED  BY <1>m, <1>4, <1>7, <2>2 DEF SetBootID, Labels, TypeOK
  <1>n. CASE SetRebooting
    BY <1>n, <1>5, <1>7 DEF SetRebooting, NodeCurrentStates, Labels, TypeOK
  <1>o. CASE SaveRebooted
    <2>1. RebootDone(StatusDefaults(apiNode[req])) \in NodeObjects
      BY Zenon, <1>3, NodeEdits
    <2> QED  BY <1>o, <1>4, <1>7, <2>1 DEF SaveRebooted, Labels, TypeOK
  <1> QED  BY <1>a, <1>b, <1>c, <1>d, <1>e, <1>f, <1>g, <1>h, <1>i, <1>j, <1>k,
              <1>l, <1>m, <1>n, <1>o

\* The steps that are a patch of the core Node.
LEMMA KubePatchType ==
    ASSUME TypeOK, UndrainUncordon \/ Uncordon \/ Cordon \/ DrainCordon
    PROVE  TypeOK'
  <1>1. req \in Nodes
    BY StepRequest DEF UndrainUncordon, Uncordon, Cordon, DrainCordon
  <1>2. TypeObjects /\ TypeLocal /\ TypeWorld  BY DEF TypeOK
  <1>3. OurCordon \in {"none", "us", "other"}
    BY <1>1, <1>2 DEF OurCordon, TypeObjects, KubeObjects
  <1>4. ASSUME NEW c \in {"none", "us", "other"}, NEW L \in SUBSET Labels,
               PatchedKube(c, L), UNCHANGED <<hosts, notes, ctl, bounds>>
        PROVE  TypeOK'
    <2>1. TypeWorld'  BY <1>2, <1>4 DEF TypeWorld, hosts, notes, ctl, bounds
    <2> QED  BY <1>1, <1>2, <1>4, <2>1, PatchedKubeType DEF TypeOK
  <1>5. CASE UndrainUncordon  BY <1>5, <1>4 DEF UndrainUncordon, Labels
  <1>6. CASE Uncordon  BY <1>6, <1>4 DEF Uncordon, Labels
  <1>7. CASE Cordon  BY <1>7, <1>3, <1>4 DEF Cordon, Labels
  <1>8. CASE DrainCordon  BY <1>8, <1>3, <1>4 DEF DrainCordon, Labels
  <1> QED  BY <1>5, <1>6, <1>7, <1>8

\* Deleting a node's pods leaves a possible number of them.
LEMMA CleanupType ==
    ASSUME TypeWorld, NEW n, CleanupNode(n)
    PROVE  rebootPods' \in [Nodes -> 0..MaxPods]
  <1>1. 0 \in 0..MaxPods  OBVIOUS
  <1> QED  BY Zenon, <1>1 DEF CleanupNode, TypeWorld

\* The steps that leave the API objects alone.
LEMMA OtherStepType ==
    ASSUME TypeOK,
           \/ UndrainHealthy \/ RunPostDrain \/ IsRebootRequired \/ CleanupActive
           \/ IsNextNode \/ Vet \/ RescheduleController \/ RunPreDrain
           \/ CleanupBeforeDrain \/ RunNodeDrain \/ RebootNode \/ NodeRebooted
           \/ ReconcileError \/ Terminate
    PROVE  TypeOK'
  <1>1. TypeObjects /\ TypeLocal /\ TypeWorld  BY Zenon DEF TypeOK
  <1>2. TypeObjects'
    BY <1>1 DEF TypeObjects, UndrainHealthy, RunPostDrain, IsRebootRequired,
       CleanupActive, IsNextNode, Vet, RescheduleController, RunPreDrain,
       CleanupBeforeDrain, RunNodeDrain, RebootNode, NodeRebooted, ReconcileError,
       Terminate, api, cache
  <1>3. pc # "idle" => req \in Nodes  BY StepRequest
  <1>4. ASSUME pc # "idle", NEW L \in SUBSET Labels, Continue(L, node, kubeNode)
        PROVE  TypeLocal'
    BY <1>1, <1>3, <1>4, ContinueType DEF TypeLocal
  <1>5. Return => TypeLocal'  BY ReturnType
  <1>a. CASE UndrainHealthy
    <2>1. TypeLocal'  BY <1>a, <1>4 DEF UndrainHealthy, Labels
    <2> QED  BY <1>a, <1>1, <1>2, <2>1
             DEF UndrainHealthy, TypeOK, TypeWorld, hosts, notes, ctl, bounds
  <1>b. CASE RunPostDrain
    <2>1. TypeLocal'  BY <1>b, <1>4 DEF RunPostDrain, Labels
    <2> QED  BY <1>b, <1>1, <1>2, <2>1
             DEF RunPostDrain, TypeOK, TypeWorld, hosts, ctl, bounds
  <1>c. CASE IsRebootRequired
    <2>1. pc # "idle" /\ req \in Nodes  BY <1>c, <1>3 DEF IsRebootRequired
    <2>2. TypeWorld'
      <3>1. UNCHANGED <<rebootPods, hostReq, workload, hooked, vetted, home, stopping, events>>
        BY <1>c DEF IsRebootRequired, hosts, notes, ctl
      <3>2. faults' = faults \/ (faults < MaxFaults /\ faults' = faults + 1)
        BY <1>c DEF IsRebootRequired
      <3>3. faults' \in 0..MaxFaults  BY <1>1, <3>2 DEF TypeWorld
      <3> QED  BY <1>1, <3>1, <3>3 DEF TypeWorld
    <2>3. CASE apiKube[req].present /\ apiKube[req].ready
      <3>1. /\ pc' \in {"saveCheck", "saveRecheck"}
            /\ UNCHANGED <<req, node, kubeNode>>
        BY <1>c, <2>3 DEF IsRebootRequired
      <3>2. hostReq[req] \in BOOLEAN  BY <1>1, <2>1 DEF TypeWorld
      <3>3. required' \in BOOLEAN
        BY Zenon, <1>c, <2>3, <3>2 DEF IsRebootRequired
      <3>4. TypeLocal'  BY <1>1, <2>1, <3>1, <3>3 DEF TypeLocal, Labels
      <3> QED  BY <1>2, <2>2, <3>4 DEF TypeOK
    <2>4. CASE ~(apiKube[req].present /\ apiKube[req].ready)
      BY <1>c, <1>2, <1>5, <2>2, <2>4 DEF IsRebootRequired, TypeOK
    <2> QED  BY <2>3, <2>4
  <1>d. CASE CleanupActive
    <2>1. TypeWorld'
      BY <1>d, <1>1, CleanupType DEF CleanupActive, TypeWorld, notes, ctl, bounds
    <2> QED  BY <1>d, <1>2, <1>5, <2>1 DEF CleanupActive, TypeOK
  <1>e. CASE IsNextNode
    <2>1. TypeLocal'  BY <1>e, <1>4 DEF IsNextNode, Labels
    <2> QED  BY <1>e, <1>1, <1>2, <2>1
             DEF IsNextNode, TypeOK, TypeWorld, hosts, notes, ctl, bounds
  <1>f. CASE Vet
    <2>1. TypeLocal'  BY <1>f, <1>4, <1>5 DEF Vet, Labels
    <2>2. TypeWorld'
      BY <1>f, <1>1, <1>3 DEF Vet, TypeWorld, hosts, ctl, bounds
    <2> QED  BY <1>2, <2>1, <2>2 DEF TypeOK
  <1>g. CASE RescheduleController
    BY <1>g, <1>1, <1>2, <1>5
       DEF RescheduleController, TypeOK, TypeWorld, hosts, notes, bounds
  <1>h. CASE RunPreDrain
    <2>1. TypeLocal'  BY <1>h, <1>4, <1>5 DEF RunPreDrain, Labels
    <2>2. TypeWorld'
      BY <1>h, <1>1, <1>3 DEF RunPreDrain, TypeWorld, hosts, ctl
    <2> QED  BY <1>2, <2>1, <2>2 DEF TypeOK
  <1>i. CASE CleanupBeforeDrain
    <2>1. TypeLocal'  BY <1>i, <1>4 DEF CleanupBeforeDrain, Labels
    <2>2. TypeWorld'
      BY <1>i, <1>1, CleanupType DEF CleanupBeforeDrain, TypeWorld, notes, ctl, bounds
    <2> QED  BY <1>2, <2>1, <2>2 DEF TypeOK
  <1>j. CASE RunNodeDrain
    <2>1. TypeLocal'  BY <1>j, <1>4 DEF RunNodeDrain, Labels
    <2>2. TypeWorld'
      BY Zenon, <1>j, <1>1 DEF RunNodeDrain, TypeWorld, notes, ctl, bounds
    <2> QED  BY <1>2, <2>1, <2>2 DEF TypeOK
  <1>k. CASE RebootNode
    <2>1. TypeLocal'  BY <1>k, <1>4, <1>5 DEF RebootNode, Labels
    <2>2. rebootPods' \in [Nodes -> 0..MaxPods]
      BY <1>k, <1>1, <1>3 DEF RebootNode, TypeWorld
    <2>3. TypeWorld'  BY <1>k, <1>1, <2>2 DEF RebootNode, TypeWorld, notes, ctl, bounds
    <2> QED  BY <1>2, <2>1, <2>3 DEF TypeOK
  <1>l. CASE NodeRebooted
    <2>1. TypeLocal'  BY <1>l, <1>4, <1>5 DEF NodeRebooted, Labels
    <2>2. /\ rebootPods' \in [Nodes -> 0..MaxPods]
          /\ hostReq' \in [Nodes -> BOOLEAN]
      BY Zenon, <1>l, <1>1, CleanupType DEF NodeRebooted, TypeWorld
    <2>3. TypeWorld'
      BY <1>l, <1>1, <2>2 DEF NodeRebooted, TypeWorld, notes, ctl, bounds
    <2> QED  BY <1>2, <2>1, <2>3 DEF TypeOK
  <1>m. CASE ReconcileError
    <2>1. TypeWorld'  BY <1>m, <1>1 DEF ReconcileError, TypeWorld, hosts, notes, ctl
    <2> QED  BY <1>m, <1>2, <1>5, <2>1 DEF ReconcileError, TypeOK
  <1>n. CASE Terminate
    BY Zenon, <1>n, <1>1, <1>2, <1>5 DEF Terminate, TypeOK, TypeWorld, hosts, notes, bounds
  <1> QED  BY <1>a, <1>b, <1>c, <1>d, <1>e, <1>f, <1>g, <1>h, <1>i, <1>j, <1>k,
              <1>l, <1>m, <1>n

\* What starts a Reconcile, ends it early, or happens around it.
LEMMA AroundType ==
    ASSUME TypeOK, NEW n \in Nodes,
           \/ Reconcile(n) \/ CreateNewNode \/ RemoveFinalizer \/ Restart(n)
           \/ SyncNode(n) \/ SyncKube(n) \/ Schedule(n) \/ GarbageCollect(n)
           \/ HostReboots(n) \/ KubeletReady(n)
    PROVE  TypeOK'
  <1>1. TypeObjects /\ TypeLocal /\ TypeWorld  BY DEF TypeOK
  <1>2. /\ apiNode[n] \in NodeObjects /\ cacheNode[n] \in NodeObjects
        /\ apiKube[n] \in KubeObjects /\ cacheKube[n] \in KubeObjects
    BY <1>1 DEF TypeObjects
  <1>3. Return => TypeLocal'  BY ReturnType
  <1>a. CASE Reconcile(n)
    <2>1. Entry(cacheNode[n], cacheKube[n]) \subseteq Labels  BY Zenon, NextLabels
    <2>2. TypeLocal'
      BY Zenon, <1>a, <1>1, <1>2, <2>1 DEF Reconcile, TypeLocal
    <2> QED  BY <1>a, <1>1, <2>2 DEF Reconcile, TypeOK, TypeObjects, TypeWorld,
                api, cache, hosts, notes, ctl, bounds
  <1>b. CASE CreateNewNode
    <2>1. req \in Nodes  BY Zenon, <1>b, StepRequest DEF CreateNewNode
    <2>2. \A s \in {"Active", "Cordoned"} : NewObject(s) \in NodeObjects
      BY DEF NewObject, NodeObjects, NodeStates
    <2>3. TypeObjects'
      BY Zenon, <1>b, <1>1, <2>1, <2>2, WriteNodeType
         DEF CreateNewNode, TypeObjects, SameNodes, SameKubes
    <2> QED  BY Zenon, <1>b, <1>1, <1>3, <2>3
             DEF CreateNewNode, TypeOK, TypeWorld, hosts, notes, ctl, bounds
  <1>c. CASE RemoveFinalizer
    <2>1. req \in Nodes  BY <1>c, StepRequest DEF RemoveFinalizer
    <2>2. TypeObjects'
      BY <1>c, <1>1, <2>1, NoObjects, WriteNodeType
         DEF RemoveFinalizer, TypeObjects, SameNodes, SameKubes
    <2> QED  BY <1>c, <1>1, <1>3, <2>2
             DEF RemoveFinalizer, TypeOK, TypeWorld, hosts, ctl, bounds
  <1>d. CASE Restart(n)
    BY Zenon, <1>d, <1>1 DEF Restart, TypeOK, TypeObjects, TypeLocal, TypeWorld,
       api, local, hosts, notes, bounds
  <1>e. CASE SyncNode(n)
    BY Zenon, <1>e, <1>1, <1>2 DEF SyncNode, TypeOK, TypeObjects, TypeLocal, TypeWorld,
       api, local, hosts, notes, ctl, bounds
  <1>f. CASE SyncKube(n)
    BY Zenon, <1>f, <1>1, <1>2 DEF SyncKube, TypeOK, TypeObjects, TypeLocal, TypeWorld,
       api, local, hosts, notes, ctl, bounds
  <1>g. CASE Schedule(n)
    BY <1>g, <1>1 DEF Schedule, TypeOK, TypeObjects, TypeLocal, TypeWorld,
       api, cache, local, notes, ctl, bounds
  <1>h. CASE GarbageCollect(n)
    <2>1. TypeObjects'
      BY Zenon, <1>h, <1>1, <1>2, NodeEdits, WriteNodeType
         DEF GarbageCollect, TypeObjects, SameKubes
    <2> QED  BY <1>h, <1>1, <2>1 DEF GarbageCollect, TypeOK, TypeLocal, TypeWorld,
                local, hosts, notes, ctl, bounds
  <1>i. CASE HostReboots(n)
    <2>1. TypeObjects'
      BY Zenon, <1>i, <1>1, <1>2, KubeEdits, WriteKubeType
         DEF HostReboots, TypeObjects, SameNodes
    <2>2. TypeLocal'  BY Zenon, <1>i, <1>1, <1>3 DEF HostReboots, TypeLocal, local
    <2>3. rebootPods' \in [Nodes -> 0..MaxPods]
      <3>1. rebootPods \in [Nodes -> 0..MaxPods] /\ rebootPods[n] > 0
        BY Zenon, <1>i, <1>1 DEF HostReboots, TypeWorld
      <3>2. rebootPods[n] - 1 \in 0..MaxPods  BY <3>1
      <3>3. rebootPods' = [rebootPods EXCEPT ![n] = rebootPods[n] - 1]
        BY Zenon, <1>i DEF HostReboots
      <3> QED  BY <3>1, <3>2, <3>3
    <2>4. TypeWorld'
      BY Zenon, <1>i, <1>1, <2>3 DEF HostReboots, TypeWorld, notes, ctl, bounds
    <2> QED  BY <2>1, <2>2, <2>4 DEF TypeOK
  <1>j. CASE KubeletReady(n)
    <2>1. TypeObjects'
      BY Zenon, <1>j, <1>1, <1>2, KubeEdits, WriteKubeType
         DEF KubeletReady, TypeObjects, SameNodes
    <2> QED  BY <1>j, <1>1, <2>1 DEF KubeletReady, TypeOK, TypeLocal, TypeWorld,
                local, hosts, notes, ctl, bounds
  <1> QED  BY <1>a, <1>b, <1>c, <1>d, <1>e, <1>f, <1>g, <1>h, <1>i, <1>j

\* Users, other managers, and what befalls nodes.
LEMMA EventType ==
    ASSUME TypeOK, NEW n \in Nodes,
           \/ \E s \in Requests : UserRequest(n, s)
           \/ UserDelete(n) \/ OtherManager(n) \/ NodeUnready(n)
           \/ RebootBecomesRequired(n) \/ NodeRemoved(n) \/ NodeJoins(n)
    PROVE  TypeOK'
  <1>1. TypeObjects /\ TypeLocal /\ TypeWorld  BY DEF TypeOK
  <1>2. apiNode[n] \in NodeObjects /\ apiKube[n] \in KubeObjects
    BY <1>1 DEF TypeObjects
  <1>3. events' \in 0..MaxEvents /\ faults' \in 0..MaxFaults
    <2>1. \E kind \in EventKinds : Event(kind)
      BY Zenon DEF UserRequest, UserDelete, OtherManager, NodeUnready,
         RebootBecomesRequired, NodeRemoved, NodeJoins, EventKinds
    <2>2. events < MaxEvents /\ events' = events + 1 /\ faults' = faults
      BY <2>1 DEF Event
    <2>3. events \in 0..MaxEvents /\ faults \in 0..MaxFaults  BY <1>1 DEF TypeWorld
    <2> QED  BY <2>2, <2>3
  <1>a. CASE \E s \in Requests : UserRequest(n, s)
    <2>1. PICK s \in Requests : UserRequest(n, s)  BY <1>a
    <2>2. ApplyDefaults(s) \in NodeStates  BY Zenon DEF ApplyDefaults, NodeStates, Unset
    <2>3. TypeObjects'
      BY Zenon, <1>1, <1>2, <2>1, <2>2, NodeEdits, WriteNodeType
         DEF UserRequest, TypeObjects, SameKubes
    <2> QED  BY <1>1, <1>3, <2>1, <2>3 DEF UserRequest, TypeOK, TypeLocal, TypeWorld,
                local, hosts, notes, ctl
  <1>b. CASE UserDelete(n)
    <2>1. TypeObjects'
      BY Zenon, <1>b, <1>1, <1>2, NodeEdits, WriteNodeType DEF UserDelete, TypeObjects,
         SameKubes
    <2> QED  BY <1>b, <1>1, <1>3, <2>1 DEF UserDelete, TypeOK, TypeLocal, TypeWorld,
                local, hosts, notes, ctl
  <1>c. CASE OtherManager(n)
    <2>1. TypeObjects'
      BY Zenon, <1>c, <1>1, <1>2, KubeEdits, WriteKubeType DEF OtherManager, TypeObjects,
         SameNodes
    <2> QED  BY <1>c, <1>1, <1>3, <2>1 DEF OtherManager, TypeOK, TypeLocal, TypeWorld,
                local, hosts, notes, ctl
  <1>d. CASE NodeUnready(n)
    <2>1. TypeObjects'
      BY Zenon, <1>d, <1>1, <1>2, KubeEdits, WriteKubeType DEF NodeUnready, TypeObjects,
         SameNodes
    <2> QED  BY <1>d, <1>1, <1>3, <2>1 DEF NodeUnready, TypeOK, TypeLocal, TypeWorld,
                local, hosts, notes, ctl
  <1>e. CASE RebootBecomesRequired(n)
    BY <1>e, <1>1, <1>3 DEF RebootBecomesRequired, TypeOK, TypeObjects, TypeLocal,
       TypeWorld, api, cache, local, notes, ctl
  <1>f. CASE NodeRemoved(n)
    <2>1. TypeObjects'
      BY Zenon, <1>f, <1>1, <1>2, KubeEdits, WriteKubeType DEF NodeRemoved, TypeObjects,
         SameNodes
    <2>2. TypeLocal'  BY <1>f, <1>1, ReturnType DEF NodeRemoved, TypeLocal, local
    <2>3. rebootPods' \in [Nodes -> 0..MaxPods]
      BY Zenon, <1>f, <1>1, CleanupType DEF NodeRemoved, CleanupNode
    <2>4. TypeWorld'
      BY Zenon, <1>f, <1>1, <1>3, <2>3 DEF NodeRemoved, TypeWorld, notes, ctl
    <2> QED  BY <2>1, <2>2, <2>4 DEF TypeOK
  <1>g. CASE NodeJoins(n)
    <2>1. TypeObjects'
      BY Zenon, <1>g, <1>1, <1>2, KubeEdits, WriteKubeType DEF NodeJoins, TypeObjects,
         SameNodes
    <2> QED  BY <1>g, <1>1, <1>3, <2>1 DEF NodeJoins, TypeOK, TypeLocal, TypeWorld,
                local, hosts, notes, ctl
  <1> QED  BY <1>a, <1>b, <1>c, <1>d, <1>e, <1>f, <1>g

\* The start is typed.
LEMMA TypeInit == Init => TypeOK
  <1> SUFFICES ASSUME Init PROVE TypeOK  OBVIOUS
  <1>1. TypeObjects  BY NoObjects DEF Init, TypeObjects
  <1>2. TypeLocal  BY Zenon, NoObjects DEF Init, TypeLocal, Labels
  <1>3. 0 \in 0..MaxPods /\ 0 \in 0..MaxEvents /\ 0 \in 0..MaxFaults  OBVIOUS
  <1>4. rebootPods \in [Nodes -> 0..MaxPods] /\ workload \in [Nodes -> BOOLEAN]
    BY <1>3 DEF Init
  <1>5. TypeWorld  BY Zenon, <1>3, <1>4 DEF Init, TypeWorld
  <1> QED  BY <1>1, <1>2, <1>5 DEF TypeOK

\* Every step keeps the types.
LEMMA TypeStep == TypeOK /\ [Next]_vars => TypeOK'
  <1> SUFFICES ASSUME TypeOK, [Next]_vars PROVE TypeOK'  OBVIOUS
  <1>1. CASE UNCHANGED vars
    BY <1>1 DEF vars, api, cache, local, hosts, notes, ctl, bounds, TypeOK,
       TypeObjects, TypeLocal, TypeWorld
  <1>2. CASE \E n \in Nodes : Reconcile(n)  BY <1>2, AroundType
  <1>3. CASE Step
    <2>1. req \in Nodes
      BY Zenon, <1>3, StepRequest DEF Step, CreateNewNode, RemoveFinalizer, StartUndrain,
         UndrainHealthy, UndrainUncordon, RunPostDrain, UndrainReset, UndrainOk,
         ClearDrained, IsRebootRequired, SaveRebootRequired, Uncordon, SetOk,
         CleanupActive, Cordon, SetCordoned, Enqueue, IsNextNode, Promote,
         SetActive, Vet, SetDraining, DrainCordon, RescheduleController,
         RunPreDrain, CleanupBeforeDrain, RunNodeDrain, SetDrained, SetBootID,
         RebootNode, SetRebooting, NodeRebooted, SaveRebooted
    <2> QED  BY <1>3, <2>1, NodePatchType, KubePatchType, OtherStepType, AroundType DEF Step
  <1>4. CASE ReconcileError \/ Terminate  BY <1>4, OtherStepType
  <1>5. CASE \E n \in Nodes :
                \/ Restart(n) \/ SyncNode(n) \/ SyncKube(n)
                \/ HostReboots(n) \/ KubeletReady(n) \/ Schedule(n) \/ GarbageCollect(n)
    BY <1>5, AroundType
  <1>6. CASE \E n \in Nodes :
                \/ \E s \in Requests : UserRequest(n, s)
                \/ UserDelete(n) \/ OtherManager(n) \/ NodeUnready(n)
                \/ RebootBecomesRequired(n) \/ NodeRemoved(n) \/ NodeJoins(n)
    BY <1>6, EventType
  <1> QED  BY <1>1, <1>2, <1>3, <1>4, <1>5, <1>6 DEF Next

\* Type correctness: whatever the calls of Reconcile, its failures and the
\* events around it do, every object keeps its shape, and spec.state always has
\* one of the four values the reconciler's switch knows.
THEOREM TypeCorrect == Spec => []TypeOK
  BY TypeInit, TypeStep, PTL DEF Spec

=============================================================================
