--------------------------- MODULE ReconcileProofs ---------------------------
(***************************************************************************)
(* The promises of Reconcile about drained nodes, reboots and hooks.  Each *)
(* invariant below is inductive on top of Known (StatusProofs), and its    *)
(* step follows from what a step can do to the status, the cordon, the     *)
(* hosts and the notes, not from the actions one by one.                   *)
(***************************************************************************)
EXTENDS StatusProofs

-----------------------------------------------------------------------------
(* The gates of drain. *)

\* The node a running drain is about to mark Draining has passed the gates.
VInv == DrainVetted /\ (pc = "setDraining" => req \in vetted)

\* Only drain marks a node Draining, and it does after its gates (Vet).
LEMMA VettedStep ==
    ASSUME IInv, Known, VInv, ~CacheLag, ~EarlyRequests, [Next]_vars
    PROVE  VInv'
  <1>1. TypeOK /\ LegalStep /\ InnerStep
    BY NextStep, InnerFrame DEF IInv
  <1>2. \A n \in Nodes : StatusStep(n) /\ NoteStep(n)
    BY StatusFrame, NoteFrame
  <1>3. ASSUME NEW n \in Nodes, apiNode'[n].cur \in {"Draining", "Drained", "Rebooting"}
        PROVE  n \in vetted'
    <2>1. n \in vetted => n \in vetted'  BY <1>2, <1>3 DEF NoteStep
    <2>2. CASE apiNode[n].cur \in {"Draining", "Drained", "Rebooting"}
      BY <2>1, <2>2 DEF VInv, DrainVetted
    <2>3. CASE apiNode[n].cur \notin {"Draining", "Drained", "Rebooting"}
      <3>1. apiNode'[n].cur = "Draining"
        BY Zenon, <1>1, <1>3, <2>3 DEF LegalStep, SameCur, MoveCur, Legal, Unset
      <3>2. n = req /\ pc = "setDraining"
        <4>1. StatusStep(n) /\ apiNode'[n].cur # apiNode[n].cur  BY <1>2, <2>3, <3>1
        <4>2. n = req /\ pc \in NodeWrites /\ Writes(pc, apiNode'[n], apiNode[n])
          BY <4>1 DEF StatusStep, SameStatus
        <4> QED  BY Zenon, <3>1, <4>1, <4>2 DEF Writes, NodeWrites, Fresh, Unset
      <3> QED  BY <2>1, <3>2 DEF VInv
    <2> QED  BY <2>2, <2>3
  <1>4. ASSUME pc' = "setDraining"  PROVE req' \in vetted'
    <2>1. CASE Vet  BY <1>4, <2>1 DEF Vet, Return, Continue
    <2>2. CASE UNCHANGED local
      <3>1. pc = "setDraining" /\ req' = req  BY <1>4, <2>2 DEF local
      <3>2. req \in Nodes  BY <1>1, <3>1, StepRequest
      <3>3. NoteStep(req) /\ req \in vetted  BY <1>2, <3>1, <3>2 DEF VInv
      <3> QED  BY <3>1, <3>3 DEF NoteStep
    <2> QED  BY <1>1, <1>4, <2>1, <2>2 DEF InnerStep
  <1> QED  BY <1>3, <1>4 DEF VInv, DrainVetted

\* A node is Draining, Drained or Rebooting only after IsHealthy and IsDrainOk
\* let it through since it became Next: no restart, failing call, withdrawn
\* request, deletion or foreign cordon leads drain past its gates.
THEOREM GatesPassed ==
    ASSUME ~CacheLag, ~EarlyRequests
    PROVE  Spec => []DrainVetted
  <1>1. Init => VInv
    <2> SUFFICES ASSUME Init  PROVE VInv
      OBVIOUS
    <2>1. \A n \in Nodes : apiNode[n].cur = Unset  BY DEF Init, NoObject, NewObject
    <2> QED  BY Zenon, <2>1 DEF Init, VInv, DrainVetted, Unset
  <1>2. IInv /\ Known /\ VInv /\ [Next]_vars => VInv'  BY VettedStep
  <1>3. VInv => DrainVetted  BY DEF VInv
  <1> QED  BY <1>1, <1>2, <1>3, SlotInvariant, KnownInvariant, PTL DEF Spec

-----------------------------------------------------------------------------
(* The truth of status.drained. *)

\* Between the eviction and the patch that records it, the node stays empty as
\* long as it stays cordoned.
BInv ==
    /\ DrainedMeansEmpty
    /\ pc = "setDrained" /\ Unschedulable(apiKube[req]) => ~workload[req]

\* Nothing is scheduled on a cordoned node, and only an undrain uncordons it.
LEMMA EmptyStep ==
    ASSUME Known, BInv, "cordon" \notin Environment, [Next]_vars
    PROVE  BInv'
  <1>1. TypeOK /\ InnerStep  BY InnerFrame DEF Known
  <1>2. \A n \in Nodes : StatusStep(n) /\ HostStep(n) /\ CordonStep(n)
    BY <1>1, StatusFrame, HostFrame, CordonFrame
  <1>3. ASSUME NEW n \in Nodes, apiNode'[n].drained, Unschedulable(apiKube'[n]), workload'[n]
        PROVE  FALSE
    <2>1. workload[n]  BY <1>2, <1>3 DEF HostStep
    <2>2. ~(apiNode[n].drained /\ Unschedulable(apiKube[n]))
      BY <2>1 DEF BInv, DrainedMeansEmpty
    <2>3. ~Unschedulable(apiKube[n]) => n = req /\ pc \in {"cordon", "drainCordon"}
      BY <1>2, <1>3 DEF CordonStep, Unschedulable
    <2>4. ~Unschedulable(apiKube[n]) => ~apiNode[n].drained
      BY <2>3 DEF Known, LocalStatus, SameStatus, At, DrainCalls
    <2>5. ~apiNode[n].drained  BY <2>2, <2>4
    <2>6. n = req /\ pc = "setDrained"
      BY <1>2, <1>3, <2>5 DEF StatusStep, SameStatus, Writes, NodeWrites, Fresh
    <2>7. Unschedulable(apiKube[n])  BY <2>3, <2>6
    <2> QED  BY <2>1, <2>6, <2>7 DEF BInv
  <1>4. ASSUME pc' = "setDrained", Unschedulable(apiKube'[req']), workload'[req']
        PROVE  FALSE
    <2>1. CASE RunNodeDrain
      <3>1. req \in Nodes  BY <1>1, <2>1, StepRequest DEF RunNodeDrain
      <3> QED  BY <1>1, <1>4, <2>1, <3>1 DEF RunNodeDrain, Continue, TypeOK, TypeWorld
    <2>2. CASE UNCHANGED local
      <3>1. pc = "setDrained" /\ req' = req  BY <1>4, <2>2 DEF local
      <3>2. req \in Nodes  BY <1>1, <3>1, StepRequest
      <3>3. CordonStep(req) /\ HostStep(req)  BY <1>2, <3>2
      <3>4. Unschedulable(apiKube[req])
        BY <1>4, <3>1, <3>3 DEF CordonStep, Unschedulable
      <3> QED  BY <1>4, <3>1, <3>3, <3>4 DEF HostStep, BInv
    <2> QED  BY <1>1, <1>4, <2>1, <2>2 DEF InnerStep
  <1> QED  BY <1>3, <1>4 DEF BInv, DrainedMeansEmpty

\* So BInv holds always, if nobody else lifts cordons.
LEMMA EmptyInvariant ==
    ASSUME ~CacheLag, "cordon" \notin Environment
    PROVE  Spec => []BInv
  <1>1. Init => BInv
    <2> SUFFICES ASSUME Init  PROVE BInv
      OBVIOUS
    <2>1. \A n \in Nodes : apiNode[n].drained = FALSE  BY DEF Init, NoObject, NewObject
    <2> QED  BY <2>1 DEF Init, BInv, DrainedMeansEmpty
  <1>2. Known /\ BInv /\ [Next]_vars => BInv'  BY EmptyStep
  <1> QED  BY <1>1, <1>2, KnownInvariant, PTL DEF Spec

\* What drain records of a cordoned node is true for as long as it is recorded:
\* undrain and the check after it clear status.drained before the cordon that
\* the next drain finds can be taken for its own.
THEOREM DrainedTruth ==
    ASSUME ~CacheLag, "cordon" \notin Environment
    PROVE  Spec => []DrainedMeansEmpty
  <1>1. BInv => DrainedMeansEmpty  BY DEF BInv
  <1> QED  BY <1>1, EmptyInvariant, PTL

\* RebootNode is called, in a cluster of any size and after any history, only
\* for a node that is empty, cordoned, recorded as drained, with its boot ID
\* saved.
THEOREM RebootsEmpty ==
    ASSUME ~CacheLag, "cordon" \notin Environment
    PROVE  Spec => RebootOnlyEmpty
  <1> DEFINE Safe == \A n \in Nodes : rebootPods'[n] > rebootPods[n] =>
                        /\ Unschedulable(apiKube[n]) /\ ~workload[n]
                        /\ apiNode[n].drained /\ apiNode[n].bootID # NoBoot
  <1>1. Known /\ BInv /\ [Next]_vars => [Safe]_vars
    <2> SUFFICES ASSUME Known, BInv, [Next]_vars,
                        NEW n \in Nodes, rebootPods'[n] > rebootPods[n]
                 PROVE  /\ Unschedulable(apiKube[n]) /\ ~workload[n]
                        /\ apiNode[n].drained /\ apiNode[n].bootID # NoBoot
      OBVIOUS
    <2>1. n = req /\ pc = "rebootNode" /\ Unschedulable(apiKube[n])
      BY HostFrame DEF Known, HostStep
    <2>2. apiNode[n].drained /\ apiNode[n].bootID # NoBoot
      BY <2>1 DEF Known, LocalStatus, SameStatus, At, RebootCalls
    <2> QED  BY <2>1, <2>2 DEF BInv, DrainedMeansEmpty
  <1> HIDE DEF Safe
  <1>2. Spec => [][Safe]_vars
    BY <1>1, KnownInvariant, EmptyInvariant, PTL DEF Spec
  <1> QED  BY <1>2 DEF RebootOnlyEmpty, Safe

-----------------------------------------------------------------------------
(* The record of a need to reboot. *)

\* Nodes stay, and so do their drain Nodes once they exist.
Kept == \A n \in Nodes : apiNode[n].life # "deleting" /\ apiKube[n].present

\* A step that is no deletion or removal by others keeps them.
LEMMA KeptStep ==
    ASSUME Known, Kept, Environment \cap {"delete", "remove"} = {}, [Next]_vars
    PROVE  Kept'
  <1>1. TypeOK  BY DEF Known
  <1> SUFFICES ASSUME NEW n \in Nodes
               PROVE  apiNode'[n].life # "deleting" /\ apiKube'[n].present
    BY DEF Kept
  <1>2. SpecStep(n)  BY SpecFrame
  <1>3. apiKube[n].present => apiKube'[n].present  BY <1>1, CordonFrame
  <1> QED  BY <1>2, <1>3 DEF Kept, SpecStep

\* No object is being deleted at the start.
LEMMA KeptInit == Init => Kept
  BY DEF Init, Kept, NoObject, NewObject, NewKube

\* While a reboot pod waits, the boot ID it will change is saved; SaveRebooted
\* forgets it only when no pod is left; an answer on its way to be recorded is
\* still right unless a reboot is under way.
DInv ==
    /\ RebootRecordTrue
    /\ \A n \in Nodes : rebootPods[n] > 0 => ~ContainerNode /\ apiNode[n].bootID # NoBoot
    /\ \A n \in Nodes : apiNode[n].cur = "Rebooting" /\ apiNode[n].reboot = "yes" =>
                           apiNode[n].bootID # NoBoot
    /\ pc \in {"saveCheck", "saveRecheck"} /\ required /\ ~hostReq[req] =>
          apiNode[req].bootID # NoBoot
    /\ pc = "saveRebooted" => rebootPods[req] = 0

\* RebootNode is called after the boot ID is recorded, and the record is cleared
\* with the reboot.
LEMMA RecordStep ==
    ASSUME Known, Kept, DInv, [Next]_vars
    PROVE  DInv'
  <1>1. TypeOK /\ InnerStep /\ rebootPods \in [Nodes -> Nat] /\ rebootPods' \in [Nodes -> Nat]
    <2>1. TypeOK /\ TypeOK' /\ InnerStep  BY InnerFrame, TypeStep DEF Known
    <2> QED  BY <2>1, ConstantsAssumption DEF TypeOK, TypeWorld
  <1>2. \A n \in Nodes : StatusStep(n) /\ HostStep(n)
    BY <1>1, StatusFrame, HostFrame
  <1>3. ASSUME NEW n \in Nodes, n = req, pc # "idle"
        PROVE  SameStatus(node, apiNode[n]) /\ At(pc, node, kubeNode)
    BY <1>3 DEF Known, LocalStatus
  <1>4. ASSUME NEW n \in Nodes, apiNode'[n].bootID = NoBoot
        PROVE  apiNode[n].bootID = NoBoot \/ (n = req /\ pc = "saveRebooted")
    <2>1. CASE SameStatus(apiNode'[n], apiNode[n])  BY <1>4, <2>1 DEF SameStatus
    <2>2. CASE n = req /\ pc \in NodeWrites /\ Writes(pc, apiNode'[n], apiNode[n])
      <3>1. pc # "finalize"  BY <2>2 DEF Writes, Kept
      <3> QED  BY <1>4, <2>2, <3>1 DEF Writes
    <2> QED  BY <1>2, <2>1, <2>2 DEF StatusStep
  <1>5. ASSUME NEW n \in Nodes, hostReq[n], ~hostReq'[n]
        PROVE  apiNode[n].bootID # NoBoot \/ apiNode[n].reboot # "yes"
    <2>1. CASE rebootPods[n] > 0  BY <2>1 DEF DInv
    <2>2. CASE n = req /\ pc = "nodeRebooted"
      BY <1>3, <2>2 DEF DInv, SameStatus, At
    <2> QED  BY <1>2, <1>5, <2>1, <2>2 DEF HostStep
  <1>6. ASSUME NEW n \in Nodes, rebootPods'[n] > 0
        PROVE  ~ContainerNode /\ apiNode'[n].bootID # NoBoot
    <2>1. CASE rebootPods[n] > 0
      <3>1. ~(n = req /\ pc = "saveRebooted")  BY <2>1 DEF DInv
      <3> QED  BY <1>4, <2>1, <3>1 DEF DInv
    <2>2. CASE ~(rebootPods[n] > 0)
      <3>1. n = req /\ pc = "rebootNode" /\ ~ContainerNode
        BY <1>1, <1>2, <1>6, <2>2 DEF HostStep
      <3>2. apiNode[n].bootID # NoBoot
        BY <1>3, <3>1 DEF SameStatus, At
      <3> QED  BY <1>4, <3>1, <3>2
    <2> QED  BY <2>1, <2>2
  <1>7. ASSUME NEW n \in Nodes, apiNode'[n].cur = "Rebooting", apiNode'[n].reboot = "yes",
               apiNode'[n].bootID = NoBoot
        PROVE  FALSE
    <2>1. CASE SameStatus(apiNode'[n], apiNode[n])
      BY <1>7, <2>1 DEF SameStatus, DInv
    <2>2. CASE n = req /\ pc \in NodeWrites /\ Writes(pc, apiNode'[n], apiNode[n])
      <3>1. SameStatus(node, apiNode[n]) /\ At(pc, node, kubeNode)
        BY <1>3, <2>2 DEF NodeWrites
      <3>2. pc \notin {"finalize", "saveRebooted", "setBootID"}
        BY <1>7, <2>2 DEF Writes, Fresh
      <3>3. apiNode[n].bootID = NoBoot  BY <1>7, <2>2, <3>2 DEF Writes
      <3>4. pc # "setRebooting"  BY <3>1, <3>3 DEF SameStatus, At
      <3>5. apiNode[n].cur = "Rebooting"
        BY <1>7, <2>2, <3>2, <3>4 DEF Writes, NodeWrites
      <3>6. pc \notin {"saveCheck", "saveRecheck"}
        BY <3>1, <3>5 DEF SameStatus, At, WorkState
      <3>7. apiNode[n].reboot = "yes"  BY <1>7, <2>2, <3>2, <3>6 DEF Writes
      <3> QED  BY <3>3, <3>5, <3>7 DEF DInv
    <2> QED  BY <1>2, <2>1, <2>2 DEF StatusStep
  <1>8. ASSUME NEW n \in Nodes, apiNode'[n].reboot = "yes", ~hostReq'[n],
               apiNode'[n].bootID = NoBoot
        PROVE  FALSE
    <2>1. ~(n = req /\ pc \in {"saveRebooted", "finalize"}
              /\ Writes(pc, apiNode'[n], apiNode[n]))
      BY <1>8 DEF Writes, Fresh
    <2>2. apiNode[n].reboot = "yes" => apiNode[n].bootID # NoBoot
      BY <1>5, <1>8 DEF DInv, RebootRecordTrue
    <2>3. CASE SameStatus(apiNode'[n], apiNode[n])
      BY <1>8, <2>2, <2>3 DEF SameStatus
    <2>4. CASE n = req /\ pc \in NodeWrites /\ Writes(pc, apiNode'[n], apiNode[n])
      <3>1. apiNode[n].bootID = NoBoot
        BY <1>8, <2>1, <2>4 DEF Writes
      <3>2. pc \in {"saveCheck", "saveRecheck"} /\ required
        BY <1>8, <2>1, <2>2, <2>4, <3>1 DEF Writes
      <3>3. hostReq[n]  BY <2>4, <3>1, <3>2 DEF DInv
      <3>4. ~(rebootPods[n] > 0)  BY <3>1 DEF DInv
      <3> QED  BY <1>2, <1>8, <3>2, <3>3, <3>4 DEF HostStep
    <2> QED  BY <1>2, <2>3, <2>4 DEF StatusStep
  <1>9. ASSUME pc' \in {"saveCheck", "saveRecheck"}, required', ~hostReq'[req'],
               apiNode'[req'].bootID = NoBoot
        PROVE  FALSE
    <2>1. CASE IsRebootRequired
      BY <1>1, <1>9, <2>1 DEF IsRebootRequired, Return, Continue, hosts
    <2>2. CASE UNCHANGED local
      <3>1. pc \in {"saveCheck", "saveRecheck"} /\ required /\ req' = req
        BY <1>9, <2>2 DEF local
      <3>2. req \in Nodes  BY <1>1, <3>1, StepRequest
      <3>3. apiNode[req].bootID = NoBoot  BY <1>4, <1>9, <3>1, <3>2
      <3>4. hostReq[req] /\ ~(rebootPods[req] > 0)
        BY <3>1, <3>2, <3>3 DEF DInv
      <3> QED  BY <1>2, <1>9, <3>1, <3>2, <3>4 DEF HostStep
    <2> QED  BY <1>1, <1>9, <2>1, <2>2 DEF InnerStep
  <1>10. ASSUME pc' = "saveRebooted"  PROVE rebootPods'[req'] = 0
    <2>1. CASE NodeRebooted
      <3>1. req \in Nodes  BY <1>1, <2>1, StepRequest DEF NodeRebooted
      <3>2. req' = req /\ (ContainerNode => rebootPods' = rebootPods)
        BY <1>10, <2>1 DEF NodeRebooted, Return, Continue
      <3>3. ~ContainerNode => rebootPods' = [rebootPods EXCEPT ![req] = 0]
        BY <1>10, <2>1 DEF NodeRebooted, Return, Continue, CleanupNode
      <3> QED  BY <1>1, <3>1, <3>2, <3>3 DEF DInv
    <2>2. CASE UNCHANGED local
      <3>1. pc = "saveRebooted" /\ req' = req  BY <1>10, <2>2 DEF local
      <3>2. req \in Nodes /\ rebootPods[req] = 0
        BY <1>1, <3>1, StepRequest DEF DInv
      <3>3. ~(rebootPods'[req] > rebootPods[req])
        BY <1>2, <3>1, <3>2 DEF HostStep
      <3> QED  BY <1>1, <3>1, <3>2, <3>3
    <2> QED  BY <1>1, <1>10, <2>1, <2>2 DEF InnerStep
  <1> QED  BY <1>6, <1>7, <1>8, <1>9, <1>10 DEF DInv, RebootRecordTrue

\* status.rebootRequired is never stale: it says yes without the host's need
\* only while a saved boot ID marks a reboot under way.  So one need leads to
\* one reboot, although the record is trusted without asking the host.
THEOREM RecordTrue ==
    ASSUME ~CacheLag, Environment \cap {"delete", "remove"} = {}
    PROVE  Spec => []RebootRecordTrue
  <1>1. Init => DInv
    <2> SUFFICES ASSUME Init  PROVE DInv
      OBVIOUS
    <2>1. \A n \in Nodes : apiNode[n].cur = Unset /\ apiNode[n].reboot = "unknown"
      BY DEF Init, NoObject, NewObject
    <2> QED  BY <2>1 DEF Init, DInv, RebootRecordTrue
  <1>2. Known /\ Kept /\ [Next]_vars => Kept'  BY KeptStep
  <1>3. Known /\ Kept /\ DInv /\ [Next]_vars => DInv'  BY RecordStep
  <1>4. DInv => RebootRecordTrue  BY DEF DInv
  <1> QED  BY <1>1, <1>2, <1>3, <1>4, KeptInit, KnownInvariant, PTL DEF Spec

-----------------------------------------------------------------------------
(* Drains that nobody interferes with: the cordon of a drained node stays     *)
(* until undrain takes it away.                                               *)

\* Where Reconcile gives a node back, or clears status.drained, it has made
\* sure that undrain has nothing to do.
GiveBack == {"clearDrained", "uncordon", "setOk"}

\* Where the branches of Reconcile give a node back.
LEMMA GiveBackPlaces ==
    ASSUME NEW nd, NEW kn, NEW b, NEW l \in GiveBack
    PROVE  /\ l \notin RebootPart(nd, kn) /\ l \notin Decide(nd, kn, b)
           /\ l \in CheckReboot(nd, kn) => nd.state = "Active"
           /\ l \in SwitchState(nd, kn) => nd.state = "Active"
           /\ l \in Entry(nd, kn) =>
                 /\ nd.cur # "Undraining"
                 /\ NotYetCleared(nd, kn) \/ nd.cur \notin UndrainStates
  <1>1. l \notin RebootPart(nd, kn)  BY DEF GiveBack, RebootPart
  <1>2. l \notin DrainPart(nd, kn)  BY <1>1 DEF GiveBack, DrainPart, DrainEntry
  <1>3. \A c : l \notin Decide(nd, kn, c)  BY <1>2 DEF GiveBack, Decide
  <1>4. l \notin WorkPart(nd, kn)  BY <1>2, <1>3 DEF GiveBack, WorkPart
  <1>5. l \in SwitchState(nd, kn) => nd.state = "Active"
    BY <1>4 DEF GiveBack, SwitchState
  <1>6. l \in CheckReboot(nd, kn) => nd.state = "Active"
    BY <1>5 DEF GiveBack, CheckReboot
  <1>7. l \in AfterUndrain(nd, kn) => NotYetCleared(nd, kn) \/ nd.state = "Active"
    BY <1>6 DEF AfterUndrain
  <1>8. l \in UndrainPart(nd, kn) =>
            /\ nd.cur # "Undraining"
            /\ NotYetCleared(nd, kn) \/ nd.cur \notin UndrainStates
    BY <1>7 DEF GiveBack, UndrainPart
  <1> QED  BY <1>1, <1>3, <1>5, <1>6, <1>8 DEF GiveBack, Entry, Deleting

GInv ==
    /\ \A n \in Nodes :
          /\ apiNode[n].cur = "Draining" => ~apiNode[n].drained
          /\ apiNode[n].cur \in {"Drained", "Rebooting"} =>
                apiNode[n].drained /\ Unschedulable(apiKube[n])
    /\ pc \in GiveBack => node.cur \notin UndrainStates \cup {"Undraining"}

\* Draining nodes are not drained yet; drained ones are, and stay cordoned.
LEMMA DrainedStep ==
    ASSUME Known, CordonKnown, GInv, Environment \cap {"cordon", "remove"} = {}, [Next]_vars,
           NEW n \in Nodes
    PROVE  /\ apiNode'[n].cur = "Draining" => ~apiNode'[n].drained
           /\ apiNode'[n].cur \in {"Drained", "Rebooting"} =>
                 apiNode'[n].drained /\ Unschedulable(apiKube'[n])
  <1>1. StatusStep(n) /\ CordonStep(n) /\ apiKube[n].present
    BY StatusFrame, CordonFrame DEF Known, CordonKnown
  <1>2. ASSUME n = req, pc # "idle"
        PROVE  /\ SameStatus(node, apiNode[n]) /\ At(pc, node, kubeNode)
               /\ Unschedulable(kubeNode) <=> Unschedulable(apiKube[n])
    BY <1>2 DEF Known, LocalStatus, CordonKnown, Unschedulable
  <1>3. ASSUME apiNode[n].cur \in {"Drained", "Rebooting"}
        PROVE  Unschedulable(apiKube'[n])
    <2>1. Unschedulable(apiKube[n])  BY <1>3 DEF GInv
    <2>2. ~(n = req /\ pc = "undrainUncordon")
      BY <1>2, <1>3 DEF SameStatus, At, UndrainCalls
    <2>3. ~(n = req /\ pc = "uncordon")
      BY <1>2, <1>3 DEF SameStatus, GInv, GiveBack, UndrainStates
    <2> QED  BY <1>1, <2>1, <2>2, <2>3 DEF CordonStep, Unschedulable
  <1>4. CASE SameStatus(apiNode'[n], apiNode[n])
    BY <1>3, <1>4 DEF SameStatus, GInv
  <1>5. CASE n = req /\ pc \in NodeWrites /\ Writes(pc, apiNode'[n], apiNode[n])
    <2>1. /\ SameStatus(node, apiNode[n]) /\ At(pc, node, kubeNode)
          /\ Unschedulable(kubeNode) <=> Unschedulable(apiKube[n])
      BY <1>2, <1>5 DEF NodeWrites
    <2>2. CASE pc = "setDraining"
      BY <1>5, <2>1, <2>2 DEF Writes, At, DrainCalls, SameStatus
    <2>3. CASE pc = "setDrained"
      <3>1. Unschedulable(apiKube[n])  BY <2>1, <2>3 DEF At
      <3>2. Unschedulable(apiKube'[n])
        BY <1>1, <2>3, <3>1 DEF CordonStep, Unschedulable
      <3> QED  BY <1>5, <2>3, <3>2 DEF Writes
    <2>4. CASE pc = "setRebooting"
      <3>1. apiNode[n].cur = "Drained"  BY <2>1, <2>4 DEF At, RebootCalls, SameStatus
      <3> QED  BY <1>3, <1>5, <2>4, <3>1 DEF Writes, GInv
    <2>5. CASE pc = "undrainReset"
      <3>1. apiNode[n].cur = "Undraining"  BY <2>1, <2>5 DEF At, UndrainCalls, SameStatus
      <3> QED  BY <1>5, <2>5, <3>1 DEF Writes, Unset
    <2>6. CASE pc = "clearDrained"
      <3>1. apiNode[n].cur \notin UndrainStates
        BY <2>1, <2>6 DEF GInv, GiveBack, SameStatus
      <3> QED  BY <1>5, <2>6, <3>1 DEF Writes, UndrainStates
    <2>7. CASE pc \in {"finalize", "startUndrain", "undrainOk", "setOk", "setCordoned",
                       "enqueue", "promote"}
      BY <1>5, <2>7 DEF Writes, Fresh, Unset
    <2>8. CASE pc \in {"saveCheck", "saveRecheck", "setActive", "setBootID", "saveRebooted"}
      <3>1. /\ apiNode'[n].drained = apiNode[n].drained
            /\ apiNode'[n].cur = apiNode[n].cur \/ apiNode'[n].cur = "OK"
        BY <1>5, <2>8 DEF Writes
      <3> QED  BY <1>3, <3>1 DEF GInv
    <2> QED  BY <1>5, <2>2, <2>3, <2>4, <2>5, <2>6, <2>7, <2>8 DEF NodeWrites
  <1> QED  BY <1>1, <1>4, <1>5 DEF StatusStep

\* A node is given back only after its undrain.
LEMMA GiveBackStep ==
    ASSUME Known, Known', CordonKnown, GInv, [Next]_vars, pc' \in GiveBack
    PROVE  node'.cur \notin UndrainStates \cup {"Undraining"}
  <1>1. TypeOK /\ FlowStep  BY FlowFrame DEF Known
  <1>2. CASE UNCHANGED local  BY <1>2 DEF local, GInv
  <1>3. ASSUME NEW n \in Nodes, Reconcile(n)
        PROVE  node'.cur \notin UndrainStates \cup {"Undraining"}
    <2>1. node' = apiNode[n] /\ kubeNode' = apiKube[n] /\ pc' \in Entry(node', kubeNode')
      BY <1>3 DEF Reconcile, Known, CacheCurrent, CordonKnown
    <2>2. /\ node'.cur # "Undraining"
          /\ NotYetCleared(node', kubeNode') \/ node'.cur \notin UndrainStates
      BY <2>1, GiveBackPlaces
    <2>3. NotYetCleared(node', kubeNode') => node'.cur \notin UndrainStates
      BY <2>1 DEF NotYetCleared, GInv, UndrainStates
    <2> QED  BY <2>2, <2>3
  <1>4. CASE /\ pc # "idle" /\ req' = req /\ node' \in {node, apiNode'[req]}
             /\ <<pc, pc'>> \in Follows \/ Decides
    <2>1. /\ req \in Nodes /\ SameStatus(node, apiNode[req]) /\ At(pc, node, kubeNode)
          /\ SameStatus(node', apiNode'[req])
      BY <1>1, <1>4, StepRequest DEF Known, LocalStatus, GiveBack
    <2>2. StatusStep(req)  BY <2>1, StatusFrame
    <2>3. CASE <<pc, pc'>> \in Follows
      <3>1. pc = "uncordon"  BY <2>3 DEF Follows, GiveBack
      <3>2. node'.cur = node.cur
        BY <2>1, <2>2, <3>1 DEF StatusStep, SameStatus, NodeWrites
      <3> QED  BY <3>1, <3>2 DEF GInv, GiveBack
    <2>4. CASE node'.cur = "OK"  BY <2>4 DEF UndrainStates
    <2>5. CASE pc \in {"clearDrained", "saveCheck"}
      <3>1. node'.cur = node.cur \/ node'.cur = "OK"
        BY <2>1, <2>2, <2>5 DEF StatusStep, SameStatus, Writes
      <3>2. node.cur \notin UndrainStates \cup {"Undraining"}
        BY <2>1, <2>5 DEF GInv, GiveBack, At, WorkState, UndrainStates
      <3> QED  BY <2>4, <3>1, <3>2
    <2>6. CASE Decides /\ pc \notin {"clearDrained", "saveCheck"} /\ node'.cur # "OK"
      BY <2>6, GiveBackPlaces DEF Decides
    <2> QED  BY <1>4, <2>3, <2>4, <2>5, <2>6
  <1> QED  BY <1>1, <1>2, <1>3, <1>4 DEF FlowStep, GiveBack

\* Everything known of a drain that no other manager and no removal disturbs.
Held == Known /\ CordonKnown /\ GInv

\* So Held holds always, if nobody else touches cordons.
LEMMA HeldInvariant ==
    ASSUME ~CacheLag, Environment \cap {"cordon", "remove"} = {}
    PROVE  Spec => []Held
  <1>1. Init => Held
    <2> SUFFICES ASSUME Init  PROVE Held
      OBVIOUS
    <2>1. \A n \in Nodes : apiNode[n].cur = Unset  BY DEF Init, NoObject, NewObject
    <2>2. GInv  BY <2>1 DEF Init, GInv, GiveBack, Unset
    <2>3. CordonKnown  BY DEF Init, CordonKnown, NewKube
    <2> QED  BY <2>2, <2>3, KnownInit DEF Held
  <1>2. Held /\ [Next]_vars => Held'
    <2> SUFFICES ASSUME Held, [Next]_vars  PROVE Held'
      OBVIOUS
    <2>1. Known' /\ CordonKnown'  BY KnownStep, CordonKnownStep DEF Held, Known
    <2>2. GInv'  BY <2>1, DrainedStep, GiveBackStep DEF Held, GInv
    <2> QED  BY <2>1, <2>2 DEF Held
  <1> QED  BY <1>1, <1>2, PTL DEF Spec

-----------------------------------------------------------------------------
(* Reboots only where one is needed. *)

NeedCalls == DrainCalls \cup {"setBootID", "rebootNode"}

\* Of a cluster in which nobody asks for Drained.
NoDrainRequest(nd) ==
    /\ nd.state # "Drained"
    /\ nd.cur = "Draining" => nd.reboot = "yes"

EInv ==
    /\ \A n \in Nodes : NoDrainRequest(apiNode[n])
    /\ pc # "idle" => node.state # "Drained"
    /\ pc \in NeedCalls => node.reboot = "yes"

\* Drain and reboot start from the check alone, or go on from where it led.
LEMMA NeedPlaces ==
    ASSUME NEW nd, NEW kn, NEW l \in NeedCalls, nd.cur \in States,
           NoDrainRequest(nd), NewNotDrained(nd), nd.cur = "Rebooting" => nd.drained
    PROVE  /\ l \in Decide(nd, kn, nd.reboot = "yes") => nd.reboot = "yes"
           /\ nd.cur # "Undraining" =>
                 /\ l \in SwitchState(nd, kn) => nd.reboot = "yes"
                 /\ l \in CheckReboot(nd, kn) => nd.reboot = "yes"
                 /\ l \in AfterUndrain(nd, kn) => nd.reboot = "yes"
           /\ l \in Entry(nd, kn) => nd.reboot = "yes"
  <1>0. l \notin {"idle", "setActive", "nodeRebooted", "recheck", "isNext", "uncordon", "setOk",
                  "cleanup", "cordon", "setCordoned", "enqueue", "checkReboot",
                  "clearDrained", "startUndrain", "undrainHealthy", "postDrain",
                  "finalize", "create"}
    BY DEF NeedCalls, DrainCalls
  <1>1. l \in RebootPart(nd, kn) => nd.state = "RebootIfRequired" /\ nd.cur = "Drained"
    BY <1>0 DEF RebootPart
  <1>2. l \in DrainPart(nd, kn) =>
            /\ nd.state = "RebootIfRequired"
            /\ nd.cur = "Drained" \/ ~nd.drained
    BY <1>1 DEF DrainPart, DrainState, NoDrainRequest
  <1>3. l \in Decide(nd, kn, nd.reboot = "yes") => nd.reboot = "yes"
    BY <1>0 DEF Decide
  <1>4. ASSUME nd.cur # "Undraining", l \in WorkPart(nd, kn)  PROVE nd.reboot = "yes"
    <2>1. WorkState(nd.cur)  BY <1>0, <1>4 DEF WorkPart
    <2>2. CASE nd.state = "RebootIfRequired" /\ nd.cur \in {"Next", "Drained"}
      BY <1>0, <1>3, <1>4, <2>1, <2>2 DEF WorkPart
    <2>3. CASE ~(nd.state = "RebootIfRequired" /\ nd.cur \in {"Next", "Drained"})
      <3>1. nd.state = "RebootIfRequired" /\ ~nd.drained /\ nd.cur \notin {"Next", "Drained"}
        BY <1>2, <1>4, <2>1, <2>3 DEF WorkPart
      <3>2. nd.cur \notin {Unset, "Rebooting"}
        BY <3>1 DEF NewNotDrained, DrainState
      <3>3. CASE nd.cur = "Draining"  BY <3>3 DEF NoDrainRequest
      <3>4. CASE nd.cur # "Draining"
        BY <1>4, <2>1, <3>1, <3>2, <3>4 DEF WorkState, States, NodeCurrentStates
      <3> QED  BY <3>3, <3>4
    <2> QED  BY <2>2, <2>3
  <1>5. nd.cur # "Undraining" /\ l \in SwitchState(nd, kn) => nd.reboot = "yes"
    BY <1>0, <1>4 DEF SwitchState
  <1>6. nd.cur # "Undraining" /\ l \in CheckReboot(nd, kn) => nd.reboot = "yes"
    BY <1>0, <1>5 DEF CheckReboot
  <1>7. nd.cur # "Undraining" /\ l \in AfterUndrain(nd, kn) => nd.reboot = "yes"
    BY <1>0, <1>6 DEF AfterUndrain
  <1>8. l \in UndrainPart(nd, kn) => nd.reboot = "yes"
    BY <1>0, <1>7 DEF UndrainPart
  <1>9. l \in Entry(nd, kn) => nd.reboot = "yes"
    BY <1>0, <1>8 DEF Entry, Deleting
  <1> QED  BY <1>3, <1>5, <1>6, <1>7, <1>9

\* Reconcile's local object is the API server's, or the one it had.
LEMMA LocalObject ==
    ASSUME Known, [Next]_vars, pc' # "idle"
    PROVE  \/ pc # "idle" /\ req' = req /\ node' = node
           \/ req' \in Nodes /\ node' = apiNode'[req']
  <1>1. TypeOK /\ FlowStep  BY FlowFrame DEF Known
  <1>2. CASE UNCHANGED local  BY <1>2 DEF local
  <1>3. CASE \E n \in Nodes : Reconcile(n)
    BY <1>3 DEF Reconcile, Known, CacheCurrent, api
  <1>4. CASE pc # "idle" /\ req' = req /\ node' \in {node, apiNode'[req]}
    BY <1>1, <1>4, StepRequest
  <1> QED  BY <1>1, <1>2, <1>3, <1>4 DEF FlowStep

\* What the local object inherits from the API server's.
LEMMA NeedObject ==
    ASSUME IInv', Known', Held', pc' # "idle", \A n \in Nodes : NoDrainRequest(apiNode'[n]),
           node'.state # "Drained"
    PROVE  /\ node'.cur \in States /\ NoDrainRequest(node') /\ NewNotDrained(node')
           /\ node'.cur = "Rebooting" => node'.drained
  <1>1. /\ req' \in Nodes /\ SameStatus(node', apiNode'[req']) /\ NewNotDrained(node')
        /\ apiNode'[req'] \in NodeObjects
    BY DEF IInv, LocalCurrent, Known, LocalStatus, TypeOK, TypeLocal, TypeObjects
  <1>2. apiNode'[req'].cur \in States  BY <1>1 DEF NodeObjects, States
  <1>3. apiNode'[req'].cur = "Rebooting" => apiNode'[req'].drained
    BY <1>1 DEF Held, GInv
  <1> QED  BY <1>1, <1>2, <1>3 DEF SameStatus, NoDrainRequest

\* A node is rebooted only while its host still needs it.
LEMMA NeedStep ==
    ASSUME IInv, Held, EInv, IInv', Held', "Drained" \notin Requests, [Next]_vars
    PROVE  EInv'
  <1>1. TypeOK /\ Known /\ Known' /\ FlowStep  BY FlowFrame DEF Held, Known
  <1>2. \A n \in Nodes : StatusStep(n) /\ SpecStep(n)
    BY <1>1, StatusFrame, SpecFrame
  <1>3. ASSUME NEW n \in Nodes  PROVE NoDrainRequest(apiNode'[n])
    <2>1. apiNode'[n].state # "Drained"
      BY <1>2 DEF EInv, NoDrainRequest, SpecStep
    <2>2. ASSUME apiNode'[n].cur = "Draining"  PROVE apiNode'[n].reboot = "yes"
      <3>1. CASE SameStatus(apiNode'[n], apiNode[n])
        BY <2>2, <3>1 DEF SameStatus, EInv, NoDrainRequest
      <3>2. CASE n = req /\ pc \in NodeWrites /\ Writes(pc, apiNode'[n], apiNode[n])
        <4>1. SameStatus(node, apiNode[n]) /\ At(pc, node, kubeNode)
          BY <1>1, <3>2 DEF Known, LocalStatus, NodeWrites
        <4>2. CASE pc = "setDraining"
          BY <3>2, <4>1, <4>2 DEF Writes, EInv, NeedCalls, DrainCalls, SameStatus
        <4>3. CASE pc # "setDraining"
          <5>1. apiNode[n].cur = "Draining"
            BY <2>2, <3>2, <4>3 DEF Writes, NodeWrites, Fresh, Unset
          <5>2. pc \notin {"finalize", "saveCheck", "saveRecheck", "saveRebooted"}
            BY <2>2, <3>2, <4>1, <5>1 DEF Writes, Fresh, Unset, At, SameStatus, WorkState
          <5> QED  BY <3>2, <5>1, <5>2 DEF Writes, EInv, NoDrainRequest
        <4> QED  BY <4>2, <4>3
      <3> QED  BY <1>2, <3>1, <3>2 DEF StatusStep
    <2> QED  BY <2>1, <2>2 DEF NoDrainRequest
  <1>4. ASSUME pc' # "idle"  PROVE node'.state # "Drained"
    BY <1>1, <1>3, <1>4, LocalObject DEF EInv, NoDrainRequest
  <1>5. ASSUME pc' \in NeedCalls  PROVE node'.reboot = "yes"
    <2>0. pc' # "idle"  BY <1>5 DEF NeedCalls, DrainCalls
    <2>1. /\ node'.cur \in States /\ NoDrainRequest(node') /\ NewNotDrained(node')
          /\ node'.cur = "Rebooting" => node'.drained
      BY <1>1, <1>3, <1>4, <2>0, NeedObject
    <2>2. CASE UNCHANGED local  BY <1>5, <2>2 DEF local, EInv
    <2>3. CASE \E n \in Nodes : Reconcile(n)
      <3>1. pc' \in Entry(node', kubeNode')  BY <2>3 DEF Reconcile
      <3> QED  BY <1>5, <2>1, <3>1, NeedPlaces
    <2>4. CASE /\ pc # "idle" /\ req' = req /\ node' \in {node, apiNode'[req]}
               /\ <<pc, pc'>> \in Follows \/ Decides
      <3>1. /\ req \in Nodes /\ SameStatus(node, apiNode[req])
            /\ SameStatus(node', apiNode'[req]) /\ StatusStep(req)
        BY <1>1, <1>2, <2>0, <2>4, StepRequest DEF Known, LocalStatus
      <3>2. CASE <<pc, pc'>> \in Follows \/ pc = "setDrained"
        <4>1. pc \in NeedCalls /\ pc \notin {"finalize", "saveCheck", "saveRecheck", "saveRebooted"}
          BY <1>5, <3>2 DEF Follows, NeedCalls, DrainCalls
        <4>2. node'.reboot = node.reboot
          BY <3>1, <4>1 DEF StatusStep, SameStatus, Writes
        <4> QED  BY <4>1, <4>2 DEF EInv
      <3>3. CASE pc = "saveRecheck" /\ pc' \in Decide(node', kubeNode', node'.reboot = "yes")
        BY <1>5, <2>1, <3>3, NeedPlaces
      <3>4. CASE \/ node'.cur = "OK" /\ pc' \in AfterUndrain(node', kubeNode')
                 \/ pc = "clearDrained" /\ pc' \in CheckReboot(node', kubeNode')
                 \/ pc = "saveCheck" /\ pc' \in SwitchState(node', kubeNode')
        <4>1. CASE node'.cur = "OK"  BY <1>5, <2>1, <3>4, <4>1, NeedPlaces
        <4>2. CASE pc \in {"clearDrained", "saveCheck"}
          <5>1. node.cur # "Undraining"
            BY <1>1, <4>2 DEF Held, GInv, GiveBack, Known, LocalStatus, At, WorkState
          <5>2. node'.cur # "Undraining"
            BY <3>1, <4>2, <5>1 DEF StatusStep, SameStatus, Writes
          <5> QED  BY <1>5, <2>1, <3>4, <5>2, NeedPlaces
        <4> QED  BY <3>4, <4>1, <4>2
      <3> QED  BY <2>4, <3>2, <3>3, <3>4 DEF Decides
    <2> QED  BY <1>1, <2>0, <2>2, <2>3, <2>4 DEF FlowStep
  <1> QED  BY <1>3, <1>4, <1>5 DEF EInv

\* RebootIfRequired keeps its name: as long as nobody asks for a plain drain,
\* and nobody else touches cordons or removes nodes, a node is rebooted only
\* while its record says that it needs it, whatever happens between the check
\* and the reboot several patches and restarts later.
THEOREM RebootsNeeded ==
    ASSUME ~CacheLag, ~EarlyRequests, Environment \cap {"cordon", "remove"} = {},
           "Drained" \notin Requests
    PROVE  Spec => RebootOnlyIfRequired
  <1>1. Init => EInv
    <2> SUFFICES ASSUME Init  PROVE EInv
      OBVIOUS
    <2>1. \A n \in Nodes : apiNode[n].cur = Unset /\ apiNode[n].state = "Active"
      BY DEF Init, NoObject, NewObject
    <2> QED  BY <2>1 DEF Init, EInv, NeedCalls, DrainCalls, NoDrainRequest, Unset
  <1>2. IInv /\ Held /\ EInv /\ IInv' /\ Held' /\ [Next]_vars => EInv'  BY NeedStep
  <1> DEFINE Needed == \A n \in Nodes : rebootPods'[n] > rebootPods[n] => apiNode[n].reboot = "yes"
  <1>3. Held /\ EInv /\ [Next]_vars => [Needed]_vars
    <2> SUFFICES ASSUME Held, EInv, [Next]_vars,
                        NEW n \in Nodes, rebootPods'[n] > rebootPods[n]
                 PROVE  apiNode[n].reboot = "yes"
      OBVIOUS
    <2>1. n = req /\ pc = "rebootNode"
      BY HostFrame DEF Held, Known, HostStep
    <2> QED  BY <2>1 DEF Held, Known, LocalStatus, SameStatus, EInv, NeedCalls
  <1> HIDE DEF Needed
  <1>4. Spec => [][Needed]_vars
    BY <1>1, <1>2, <1>3, SlotInvariant, HeldInvariant, PTL DEF Spec
  <1> QED  BY <1>4 DEF RebootOnlyIfRequired, Needed

-----------------------------------------------------------------------------
(* The hooks of plugins. *)

\* Reconcile cordons a node for its own sake only on request.
LEMMA CordonPlaces ==
    ASSUME NEW nd, NEW kn, NEW b, NEW l \in {"cordon", "setCordoned"}, nd.state # "Cordoned"
    PROVE  /\ l \notin RebootPart(nd, kn) /\ l \notin Decide(nd, kn, b)
           /\ l \notin SwitchState(nd, kn) /\ l \notin CheckReboot(nd, kn)
           /\ l \notin AfterUndrain(nd, kn) /\ l \notin Entry(nd, kn)
  <1>1. l \notin RebootPart(nd, kn)  BY DEF RebootPart
  <1>2. l \notin DrainPart(nd, kn)  BY <1>1 DEF DrainPart, DrainEntry
  <1>3. \A c : l \notin Decide(nd, kn, c)  BY <1>2 DEF Decide
  <1>4. l \notin WorkPart(nd, kn)  BY <1>2, <1>3 DEF WorkPart
  <1>5. l \notin SwitchState(nd, kn)  BY <1>4 DEF SwitchState
  <1>6. l \notin CheckReboot(nd, kn)  BY <1>5 DEF CheckReboot
  <1>7. l \notin AfterUndrain(nd, kn)  BY <1>6 DEF AfterUndrain
  <1>8. l \notin UndrainPart(nd, kn)  BY <1>7 DEF UndrainPart
  <1>9. l \notin Entry(nd, kn)  BY <1>8 DEF Entry, Deleting
  <1> QED  BY <1>1, <1>3, <1>5, <1>6, <1>7, <1>9

\* A plugin that was told PreDrain waits for PostDrain only while undrain still
\* has to come; new drain Nodes start Active, for nobody cordoned their node.
FInv ==
    /\ \A n \in hooked : apiNode[n].cur \in UndrainStates \cup {"Undraining"}
    /\ pc \in {"undrainReset", "undrainOk"} => req \notin hooked
    /\ \A n \in Nodes : /\ apiNode[n].state # "Cordoned"
                        /\ apiNode[n].life = "absent" => ~Unschedulable(apiKube[n])
    /\ pc # "idle" => node.state # "Cordoned" /\ pc \notin {"cordon", "setCordoned"}

\* A pre-drain hook is answered by a post-drain hook before the node is given back.
LEMMA HookStep ==
    ASSUME IInv, Held, Kept, FInv, "Cordoned" \notin Requests, "cordon" \notin Environment,
           [Next]_vars
    PROVE  FInv'
  <1>1. TypeOK /\ TypeOK' /\ Known /\ FlowStep /\ InnerStep
    BY FlowFrame, InnerFrame, TypeStep DEF Held, Known
  <1>2. \A n \in Nodes : StatusStep(n) /\ SpecStep(n) /\ CordonStep(n) /\ NoteStep(n)
    BY <1>1, StatusFrame, SpecFrame, CordonFrame, NoteFrame
  <1>3. ASSUME NEW n \in Nodes, n = req, pc # "idle"
        PROVE  /\ SameStatus(node, apiNode[n]) /\ At(pc, node, kubeNode)
               /\ node.cur \in CurrentAt(pc)
    BY <1>1, <1>3 DEF Known, LocalStatus, IInv, LocalCurrent
  <1>4. ASSUME NEW n \in hooked'
        PROVE  apiNode'[n].cur \in UndrainStates \cup {"Undraining"}
    <2>1. n \in Nodes  BY <1>1 DEF TypeOK, TypeWorld
    <2>2. CASE n = req /\ pc = "preDrain"
      <3>1. apiNode[n].cur \in UndrainStates
        BY <1>3, <2>1, <2>2 DEF CurrentAt, UndrainStates, SameStatus
      <3> QED  BY <1>2, <2>1, <2>2, <3>1 DEF StatusStep, SameStatus, NodeWrites
    <2>3. CASE n \in hooked
      <3>1. apiNode[n].cur \in UndrainStates \cup {"Undraining"}  BY <2>3 DEF FInv
      <3>2. CASE SameStatus(apiNode'[n], apiNode[n])  BY <3>1, <3>2 DEF SameStatus
      <3>3. CASE n = req /\ pc \in NodeWrites /\ Writes(pc, apiNode'[n], apiNode[n])
        <4>1. SameStatus(node, apiNode[n]) /\ node.cur \in CurrentAt(pc)
          BY <1>3, <2>1, <3>3 DEF NodeWrites
        <4>2. pc \notin {"finalize", "undrainOk", "setCordoned"}
          BY <2>1, <2>3, <3>3 DEF FInv, Kept, Writes
        <4>3. pc # "setOk"
          BY <3>1, <4>1 DEF Held, GInv, GiveBack, SameStatus
        <4>4. pc \notin {"enqueue", "promote"}
          BY Zenon, <3>1, <4>1 DEF CurrentAt, SameStatus, UndrainStates
        <4>5. CASE pc \in {"startUndrain", "setDraining", "setDrained", "setRebooting"}
          BY <3>3, <4>5 DEF Writes, UndrainStates
        <4>6. CASE pc \in {"undrainReset", "clearDrained", "saveCheck", "saveRecheck",
                           "setActive", "setBootID", "saveRebooted"}
          BY Zenon, <3>1, <3>3, <4>6 DEF Writes, UndrainStates, Unset
        <4> QED  BY <3>3, <4>2, <4>3, <4>4, <4>5, <4>6 DEF NodeWrites
      <3> QED  BY <1>2, <2>1, <3>2, <3>3 DEF StatusStep
    <2> QED  BY <1>2, <2>1, <2>2, <2>3 DEF NoteStep
  <1>5. ASSUME pc' \in {"undrainReset", "undrainOk"}  PROVE req' \notin hooked'
    <2>1. CASE RunPostDrain  BY <1>5, <2>1 DEF RunPostDrain, Continue
    <2>2. ASSUME pc \in {"undrainReset", "undrainOk"}, req' = req
          PROVE  req' \notin hooked'
      <3>1. req \in Nodes /\ req \notin hooked  BY <1>1, <2>2, StepRequest DEF FInv
      <3> QED  BY <1>2, <2>2, <3>1 DEF NoteStep
    <2> QED  BY <1>1, <1>5, <2>1, <2>2 DEF InnerStep, local
  <1>6. ASSUME NEW n \in Nodes  PROVE apiNode'[n].state # "Cordoned"
    <2>1. ~(n = req /\ pc = "create" /\ Unschedulable(kubeNode) /\ apiNode[n].life = "absent")
      BY DEF Held, CordonKnown, Unschedulable, FInv
    <2> QED  BY <1>2, <2>1 DEF SpecStep, FInv
  <1>7. ASSUME NEW n \in Nodes, apiNode'[n].life = "absent"
        PROVE  ~Unschedulable(apiKube'[n])
    <2>1. apiNode[n].life = "absent"  BY <1>2, <1>7 DEF SpecStep, Kept
    <2>2. ~Unschedulable(apiKube[n]) /\ apiNode[n].cur = Unset
      BY <2>1 DEF FInv, IInv, AbsentUnset
    <2>3. ~(n = req /\ pc = "drainCordon")
      BY Zenon, <1>3, <2>2 DEF CurrentAt, SameStatus, Unset
    <2>4. ~(n = req /\ pc = "cordon")  BY DEF FInv
    <2> QED  BY <1>2, <2>2, <2>3, <2>4 DEF CordonStep, Unschedulable
  <1>8. ASSUME pc' # "idle"
        PROVE  node'.state # "Cordoned" /\ pc' \notin {"cordon", "setCordoned"}
    <2>1. node'.state # "Cordoned"  BY <1>1, <1>6, <1>8, LocalObject DEF FInv
    <2>2. CASE UNCHANGED local  BY <1>8, <2>1, <2>2 DEF local, FInv
    <2>3. CASE \E n \in Nodes : Reconcile(n)
      <3>1. pc' \in Entry(node', kubeNode')  BY <2>3 DEF Reconcile
      <3> QED  BY <2>1, <3>1, CordonPlaces
    <2>4. CASE pc # "idle" /\ <<pc, pc'>> \in Follows
      BY <2>1, <2>4 DEF Follows, FInv
    <2>5. CASE Decides  BY <2>1, <2>5, CordonPlaces DEF Decides
    <2> QED  BY <1>1, <1>8, <2>2, <2>3, <2>4, <2>5 DEF FlowStep
  <1> QED  BY <1>4, <1>5, <1>6, <1>7, <1>8 DEF FInv

\* Every PreDrain is answered by a PostDrain before the node is OK again, for
\* clusters that are drained to reboot or to be given back, and whose cordons
\* and nodes nobody else takes away: neither failing calls nor withdrawn
\* requests, restarts of the controller or reboots lose the debt.
THEOREM HooksAnswered ==
    ASSUME ~CacheLag, ~EarlyRequests, "Cordoned" \notin Requests,
           Environment \cap {"cordon", "delete", "remove"} = {}
    PROVE  Spec => []HooksBalanced
  <1>1. Init => FInv
    <2> SUFFICES ASSUME Init  PROVE FInv
      OBVIOUS
    <2>1. \A n \in Nodes : apiNode[n].state = "Active" /\ apiKube[n].cordon = "none"
      BY DEF Init, NoObject, NewObject, NewKube
    <2> QED  BY <2>1 DEF Init, FInv, Unschedulable
  <1>2. Held /\ Kept /\ [Next]_vars => Kept'  BY KeptStep DEF Held
  <1>3. IInv /\ Held /\ Kept /\ FInv /\ [Next]_vars => FInv'  BY HookStep
  <1>4. FInv => HooksBalanced
    BY Zenon DEF FInv, HooksBalanced, UndrainStates
  <1>5. Spec => []IInv  BY SlotInvariant
  <1>6. Spec => []Held  BY HeldInvariant
  <1> QED  BY <1>1, <1>2, <1>3, <1>4, <1>5, <1>6, KeptInit, PTL DEF Spec

=============================================================================
