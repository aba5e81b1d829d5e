--------------------------- MODULE WorkSlotProofs ---------------------------
(***************************************************************************)
(* One node at a time: IInv is inductive when the informer caches do not   *)
(* lag and users wait for a node's first status, and then every step is a  *)
(* step of DrainLifecycle.                                                 *)
(***************************************************************************)
EXTENDS NodeControllerProofs

(* Reconcile's next call fits the current state it looks at. *)

Fits(L, c) == \A l \in L : c \in CurrentAt(l) /\ l # "promote"

States == NodeCurrentStates \cup {Unset}

\* The reboot branch fits the state it is taken in (rebootNode).
LEMMA FitsReboot ==
    ASSUME NEW nd, NEW kn, nd.cur \in States
    PROVE  Fits(RebootPart(nd, kn), nd.cur)
  BY DEF RebootPart, Fits, CurrentAt, States

\* So does the drain branch.
LEMMA FitsDrain ==
    ASSUME NEW nd, NEW kn, nd.cur \in States \ {"Undraining"}, WorkState(nd.cur),
           NewNotDrained(nd)
    PROVE  Fits(DrainPart(nd, kn), nd.cur)
  <1>1. CASE DrainState(nd.state) /\ ~nd.drained
    <2>1. nd.cur \in {"Next", "Draining", "Drained", "Rebooting"}
      BY <1>1 DEF States, NodeCurrentStates, WorkState, NewNotDrained
    <2> QED  BY <1>1, <2>1 DEF DrainPart, DrainEntry, Gated, Fits, CurrentAt
  <1>2. CASE ~(DrainState(nd.state) /\ ~nd.drained)
    BY <1>2, FitsReboot DEF DrainPart
  <1> QED  BY <1>1, <1>2

\* So does the decision whether a reboot is required.
LEMMA FitsDecide ==
    ASSUME NEW nd, NEW kn, NEW b, nd.cur \in {"Next", "Drained"}
    PROVE  Fits(Decide(nd, kn, b), nd.cur)
  <1>1. nd.cur \in States \ {"Undraining"} /\ WorkState(nd.cur) /\ NewNotDrained(nd)
    BY Zenon DEF States, NodeCurrentStates, WorkState, NewNotDrained, Unset
  <1>2. CASE b  BY <1>1, <1>2, FitsDrain DEF Decide
  <1>3. CASE ~b  BY <1>1, <1>3 DEF Decide, Fits, CurrentAt, States
  <1> QED  BY <1>2, <1>3

\* So does the work on a node that holds the slot or waits for it.
LEMMA FitsWork ==
    ASSUME NEW nd, NEW kn, nd.cur \in States \ {"Undraining"}, NewNotDrained(nd)
    PROVE  Fits(WorkPart(nd, kn), nd.cur)
  <1>1. CASE ~WorkState(nd.cur)
    BY <1>1 DEF WorkPart, Fits, CurrentAt, States
  <1>2. CASE WorkState(nd.cur) /\ nd.state = "RebootIfRequired" /\ nd.cur \in {"Next", "Drained"}
    BY <1>2, FitsDecide DEF WorkPart, Fits, CurrentAt
  <1>3. CASE WorkState(nd.cur) /\ ~(nd.state = "RebootIfRequired" /\ nd.cur \in {"Next", "Drained"})
    BY <1>3, FitsDrain DEF WorkPart
  <1> QED  BY <1>1, <1>2, <1>3

\* So does the switch on spec.state.
LEMMA FitsSwitch ==
    ASSUME NEW nd, NEW kn, nd.cur \in States \ {"Undraining"}, NewNotDrained(nd)
    PROVE  Fits(SwitchState(nd, kn), nd.cur)
  <1>1. CASE nd.state \in {"Active", "Cordoned"}
    BY <1>1 DEF SwitchState, Fits, CurrentAt, States
  <1>2. CASE nd.state \notin {"Active", "Cordoned"} /\ ~WorkState(nd.cur) /\ nd.cur # "Queued"
    BY <1>2 DEF SwitchState, Fits, CurrentAt, States, WorkState
  <1>3. CASE nd.state \notin {"Active", "Cordoned"} /\ ~(~WorkState(nd.cur) /\ nd.cur # "Queued")
    BY <1>3, FitsWork DEF SwitchState
  <1> QED  BY <1>1, <1>2, <1>3

\* So do the check for a reboot and what follows an undrain.
LEMMA FitsCheck ==
    ASSUME NEW nd, NEW kn, nd.cur \in States \ {"Undraining"}, NewNotDrained(nd)
    PROVE  Fits(CheckReboot(nd, kn), nd.cur) /\ Fits(AfterUndrain(nd, kn), nd.cur)
  <1>1. Fits({"checkReboot"}, nd.cur) /\ Fits({"clearDrained"}, nd.cur)
    BY DEF Fits, CurrentAt, States
  <1>2. Fits(CheckReboot(nd, kn), nd.cur)
    BY <1>1, FitsSwitch DEF CheckReboot, Fits
  <1> QED  BY <1>1, <1>2 DEF AfterUndrain

\* So does the beginning of Reconcile.
LEMMA FitsEntry ==
    ASSUME NEW nd, NEW kn, nd.cur \in States, NewNotDrained(nd)
    PROVE  Fits(Entry(nd, kn), nd.cur)
  <1>1. Fits(UndrainPart(nd, kn), nd.cur)
    <2>1. CASE nd.cur = "Undraining"
      BY <2>1 DEF UndrainPart, Fits, CurrentAt, States
    <2>2. CASE nd.cur # "Undraining" /\ nd.cur \in UndrainStates /\ nd.state = "Active"
      BY <2>2 DEF UndrainPart, UndrainStates, Fits, CurrentAt
    <2>3. CASE nd.cur # "Undraining" /\ ~(nd.cur \in UndrainStates /\ nd.state = "Active")
      BY <2>3, FitsCheck DEF UndrainPart
    <2> QED  BY <2>1, <2>2, <2>3
  <1>2. Fits({"create"}, nd.cur) /\ Fits({"finalize"}, nd.cur)
    BY DEF Fits, CurrentAt, States
  <1> QED  BY <1>1, <1>2 DEF Entry, Deleting

(* How a step may change the current states. *)

\* IInv without what it says about the current states of several nodes.
Local ==
    /\ CacheCurrent
    /\ \A n \in Nodes : NewNotDrained(apiNode[n])
    /\ AbsentUnset
    /\ LocalCurrent

SameCur == \A m \in Nodes : apiNode'[m].cur = apiNode[m].cur

MoveCur(n, c) ==
    /\ apiNode'[n].cur = c
    /\ \A m \in Nodes \ {n} : apiNode'[m].cur = apiNode[m].cur

Legal(a, c) ==
    \/ a = c
    \/ c \in {"OK", "Cordoned", Unset}
    \/ a \in {"OK", "Cordoned", Unset} /\ c = "Queued"
    \/ a = "Next" /\ c = "Draining"
    \/ a \in {"Draining", "Rebooting"} /\ c = "Drained"
    \/ a = "Drained" /\ c = "Rebooting"
    \/ a \in {"Draining", "Drained", "Rebooting"} /\ c = "Undraining"

LegalStep ==
    \/ SameCur
    \/ \E n \in Nodes, c \in States : MoveCur(n, c) /\ Legal(apiNode[n].cur, c)
    \/ \E n \in Nodes : /\ MoveCur(n, "Next") /\ apiNode[n].cur = "Queued"
                        /\ \A m \in Nodes : apiNode[m].cur \notin Slot

\* A step that returns, or goes on from the same local object, with the API
\* objects of the drain Nodes unchanged.
LEMMA QuietStep ==
    ASSUME IInv, SameNodes, NEW L, NEW kn,
           Continue(L, node, kn), \A l \in L : l # "idle" => pc # "idle" /\ node.cur \in CurrentAt(l),
           "promote" \in L => \A m \in Nodes : apiNode[m].cur \notin Slot
    PROVE  Local' /\ SlotFree' /\ SameCur
  <1>1. apiNode' = apiNode /\ cacheNode' = cacheNode  BY DEF SameNodes
  <1>2. CASE pc' = "idle"
    BY <1>1, <1>2 DEF IInv, Local, CacheCurrent, LocalCurrent, SlotFree, SameCur,
       NewNotDrained, AbsentUnset
  <1>3. CASE pc' # "idle"
    <2>1. /\ req' = req /\ node' = node /\ pc # "idle" /\ pc' \in L
          /\ node.cur \in CurrentAt(pc')
      BY <1>3 DEF Continue
    <2>2. LocalCurrent'
      BY <1>1, <2>1 DEF IInv, LocalCurrent, NewNotDrained, CurrentAt
    <2>3. SlotFree'  BY <1>1, <2>1 DEF SlotFree
    <2> QED
      BY <1>1, <2>2, <2>3 DEF IInv, Local, CacheCurrent, SameCur, NewNotDrained, AbsentUnset
  <1> QED  BY <1>2, <1>3

\* A return that writes no drain Node keeps the invariant.
LEMMA QuietReturn ==
    ASSUME IInv, SameNodes, Return
    PROVE  Local' /\ SlotFree' /\ SameCur
  BY QuietStep DEF Return

\* A step that leaves both the drain Nodes and Reconcile alone.
LEMMA QuietLocal ==
    ASSUME IInv, apiNode' = apiNode, cacheNode' = apiNode, UNCHANGED local
    PROVE  Local' /\ SlotFree' /\ SameCur
  BY DEF IInv, Local, CacheCurrent, LocalCurrent, SlotFree, SameCur, NewNotDrained,
         CurrentAt, AbsentUnset, local

\* A patch of the drain Node that Reconcile works on.
LEMMA PatchStep ==
    ASSUME IInv, ~CacheLag, pc # "idle", NEW new \in NodeObjects, NEW L,
           Patched(new, L), NewNotDrained(new), new.life = apiNode[req].life,
           Fits(L, new.cur)
    PROVE  /\ Local' /\ SlotFree'
           /\ SameCur \/ MoveCur(req, new.cur)
  <1>0. req \in Nodes /\ apiNode \in [Nodes -> NodeObjects]
    BY StepRequest DEF IInv, TypeOK, TypeObjects
  <1>1. CASE apiNode[req].life = "absent"
    BY <1>1, QuietReturn DEF Patched
  <1>2. CASE apiNode[req].life # "absent"
    <2>1. WriteNode(req, new) /\ Continue(L, new, kubeNode)  BY <1>2 DEF Patched
    <2>2. apiNode' = [apiNode EXCEPT ![req] = new]  BY <2>1 DEF WriteNode
    <2>3. CacheCurrent'
      BY <2>1 DEF IInv, CacheCurrent, WriteNode
    <2>4. apiNode'[req] = new /\ \A m \in Nodes \ {req} : apiNode'[m] = apiNode[m]
      BY <1>0, <2>2
    <2>5. \A n \in Nodes : NewNotDrained(apiNode[n])'
      BY <1>0, <2>4 DEF IInv, NewNotDrained
    <2>6. LocalCurrent' /\ SlotFree'
      <3>1. CASE pc' = "idle"  BY <3>1 DEF LocalCurrent, SlotFree
      <3>2. CASE pc' # "idle"
        <4>1. req' = req /\ node' = new /\ pc' \in L  BY <2>1, <3>2 DEF Continue
        <4>2. new.cur \in CurrentAt(pc') /\ pc' # "promote"  BY <4>1 DEF Fits
        <4> QED  BY <2>4, <4>1, <4>2 DEF LocalCurrent, SlotFree, NewNotDrained, CurrentAt
      <3> QED  BY <3>1, <3>2
    <2>7. MoveCur(req, new.cur)  BY <2>4 DEF MoveCur
    <2>8. AbsentUnset'  BY <1>2, <2>4 DEF IInv, AbsentUnset
    <2> QED  BY <2>3, <2>5, <2>6, <2>7, <2>8 DEF Local
  <1> QED  BY <1>1, <1>2

\* A write of a drain Node by somebody else: the current state stays, or the
\* object is new.
LEMMA WriteStep ==
    ASSUME IInv, ~CacheLag, NEW n \in Nodes, NEW new, WriteNode(n, new),
           new.cur = apiNode[n].cur, NewNotDrained(new),
           new.life = "absent" => apiNode[n].life = "absent", UNCHANGED local
    PROVE  Local' /\ SlotFree' /\ SameCur
  <1>1. apiNode \in [Nodes -> NodeObjects]  BY DEF IInv, TypeOK, TypeObjects
  <1>2. apiNode' = [apiNode EXCEPT ![n] = new] /\ CacheCurrent'
    BY DEF WriteNode, IInv, CacheCurrent
  <1>3. apiNode'[n] = new /\ \A m \in Nodes \ {n} : apiNode'[m] = apiNode[m]
    BY <1>1, <1>2
  <1>4. SameCur  BY <1>3 DEF SameCur
  <1>5. \A m \in Nodes : NewNotDrained(apiNode[m])'
    BY <1>3 DEF IInv, NewNotDrained
  <1>6. pc # "idle" => req \in Nodes  BY StepRequest DEF IInv
  <1>7. LocalCurrent'
    BY <1>4, <1>6 DEF IInv, LocalCurrent, SameCur, local, NewNotDrained, CurrentAt
  <1>8. SlotFree'  BY <1>4 DEF IInv, SlotFree, SameCur, local
  <1>9. AbsentUnset'  BY <1>3 DEF IInv, AbsentUnset
  <1> QED  BY <1>2, <1>4, <1>5, <1>7, <1>8, <1>9 DEF Local

(* Every step preserves Local and SlotFree and changes current states as the *)
(* lifecycle allows.                                                        *)

\* A patch of the drain Node keeps the invariant and moves its phase legally.
LEMMA NodePatchStep ==
    ASSUME IInv, ~CacheLag,
           \/ StartUndrain \/ UndrainReset \/ UndrainOk \/ ClearDrained
           \/ SaveRebootRequired \/ SetOk \/ SetCordoned \/ Enqueue \/ Promote
           \/ SetActive \/ SetDraining \/ SetDrained \/ SetBootID \/ SetRebooting
           \/ SaveRebooted
    PROVE  Local' /\ SlotFree' /\ LegalStep
  <1>1. pc # "idle"
    BY DEF StartUndrain, UndrainReset, UndrainOk, ClearDrained, SaveRebootRequired,
       SetOk, SetCordoned, Enqueue, Promote, SetActive, SetDraining, SetDrained,
       SetBootID, SetRebooting, SaveRebooted
  <1> DEFINE old == apiNode[req]
             sd == StatusDefaults(old)
  <1>2. req \in Nodes /\ old \in NodeObjects /\ NewNotDrained(old)
    BY <1>1, StepRequest DEF IInv, TypeOK, TypeObjects
  <1>3. old.cur \in States /\ node.cur = old.cur /\ old.cur \in CurrentAt(pc)
    BY <1>1, <1>2 DEF IInv, LocalCurrent, NodeObjects, States
  <1>4. ASSUME NEW new \in NodeObjects, NEW L, Patched(new, L), NewNotDrained(new),
               new.life = old.life, Fits(L, new.cur), Legal(old.cur, new.cur)
        PROVE  Local' /\ SlotFree' /\ LegalStep
    <2>1. new.cur \in States  BY DEF NodeObjects, States
    <2> QED  BY <1>1, <1>2, <1>4, <2>1, PatchStep DEF LegalStep, old
  <1>5. ASSUME NEW c \in NodeCurrentStates
        PROVE  /\ CurrentState(c) \in NodeObjects /\ CurrentState(c).cur = c
               /\ CurrentState(c).life = old.life /\ NewNotDrained(CurrentState(c))
    <2>1. CurrentState(c) \in NodeObjects  BY Zenon, <1>2, NodeEdits DEF CurrentState
    <2>2. CurrentState(c).cur = c /\ CurrentState(c).life = old.life
      BY <1>2 DEF CurrentState, NodeObjects
    <2>3. c # Unset  BY Zenon DEF NodeCurrentStates, Unset
    <2> QED  BY <2>1, <2>2, <2>3 DEF NewNotDrained
  <1>6. /\ sd \in NodeObjects /\ NewNotDrained(sd) /\ sd.life = old.life
        /\ sd.cur = IF old.cur = Unset THEN "OK" ELSE old.cur
        /\ Legal(old.cur, sd.cur) /\ sd.cur # Unset
    <2>1. sd \in NodeObjects  BY Zenon, <1>2, NodeEdits
    <2>2. sd.life = old.life /\ sd.cur = IF old.cur = Unset THEN "OK" ELSE old.cur
      BY <1>2 DEF StatusDefaults, NodeObjects
    <2>3. sd.cur # Unset  BY Zenon, <2>2 DEF Unset
    <2> QED  BY <2>1, <2>2, <2>3 DEF Legal, NewNotDrained
  <1>7. /\ NotDrained \in NodeObjects /\ NotDrained.cur = sd.cur
        /\ NotDrained.life = old.life /\ NewNotDrained(NotDrained)
    <2>1. NotDrained \in NodeObjects  BY Zenon, <1>6, NodeEdits DEF NotDrained
    <2>2. NotDrained.cur = sd.cur /\ NotDrained.life = old.life
      BY <1>6 DEF NotDrained, NodeObjects
    <2> QED  BY <1>6, <2>1, <2>2 DEF NewNotDrained
  <1>8. \A c \in States : Fits({"idle"}, c) /\ Fits({"cleanup"}, c) /\ Fits({"undrainOk"}, c)
                          /\ Fits({"setActive"}, c)
    BY DEF Fits, CurrentAt, States
  <1>9. NodeCurrentStates \subseteq States  BY DEF States
  <1> HIDE DEF old, sd
  <1>a. CASE StartUndrain
    <2>1. Legal(old.cur, "Undraining") /\ "Undraining" \in NodeCurrentStates
      BY <1>a, <1>3 DEF StartUndrain, CurrentAt, Legal, NodeCurrentStates
    <2> QED  BY <1>a, <1>4, <1>5, <1>8, <1>9, <2>1 DEF StartUndrain
  <1>b. CASE UndrainReset
    <2>1. NotDrained.cur = "OK" => Fits(AfterUndrain(NotDrained, kubeNode), NotDrained.cur)
      BY <1>7, FitsCheck DEF States, NodeCurrentStates
    <2>2. NotDrained.cur \in States  BY <1>7 DEF NodeObjects, States
    <2> QED  BY <1>b, <1>4, <1>6, <1>7, <1>8, <2>1, <2>2 DEF UndrainReset
  <1>c. CASE UndrainOk
    <2>1. "OK" \in NodeCurrentStates /\ Legal(old.cur, "OK")
      BY DEF NodeCurrentStates, Legal
    <2>2. Fits(AfterUndrain(CurrentState("OK"), kubeNode), "OK")
      BY <1>5, <2>1, FitsCheck DEF States
    <2> QED  BY <1>c, <1>4, <1>5, <2>1, <2>2 DEF UndrainOk
  <1>d. CASE ClearDrained
    <2>1. NotDrained.cur \in States \ {"Undraining"}
      BY <1>d, <1>3, <1>6, <1>7 DEF ClearDrained, CurrentAt, States, NodeCurrentStates
    <2>2. Fits(CheckReboot(NotDrained, kubeNode), NotDrained.cur)
      BY <1>7, <2>1, FitsCheck
    <2> QED  BY <1>d, <1>4, <1>6, <1>7, <2>2 DEF ClearDrained
  <1>e. CASE SaveRebootRequired
    <2> DEFINE new == [sd EXCEPT !.reboot = IF required THEN "yes" ELSE "no"]
               L == IF pc = "saveCheck" THEN SwitchState(new, kubeNode)
                    ELSE Decide(new, kubeNode, required)
    <2>1. new \in NodeObjects  BY Zenon, <1>6, NodeEdits
    <2>2. new.cur = sd.cur /\ new.life = old.life  BY <1>6 DEF NodeObjects
    <2>3. Patched(new, L)  BY <1>e DEF SaveRebootRequired, sd, old
    <2>4. NewNotDrained(new)  BY <1>6, <2>2 DEF NewNotDrained
    <2>5. Fits(L, new.cur)
      <3>1. CASE pc = "saveCheck"
        <4>1. sd.cur \in States \ {"Undraining"}
          BY <1>3, <1>6, <3>1 DEF CurrentAt, States, NodeCurrentStates
        <4> HIDE DEF new
        <4> QED  BY <2>2, <2>4, <3>1, <4>1, FitsSwitch
      <3>2. CASE pc = "saveRecheck"
        <4>1. sd.cur \in {"Next", "Drained"}
          BY Zenon, <1>3, <1>6, <3>2 DEF CurrentAt, Unset
        <4> HIDE DEF new
        <4> QED  BY <2>2, <3>2, <4>1, FitsDecide
      <3> QED  BY <1>e, <3>1, <3>2 DEF SaveRebootRequired
    <2> HIDE DEF new, L
    <2> QED  BY <1>4, <1>6, <2>1, <2>2, <2>3, <2>4, <2>5
  <1>f. CASE SetOk
    <2>1. "OK" \in NodeCurrentStates /\ Legal(old.cur, "OK")
      BY DEF NodeCurrentStates, Legal
    <2> QED  BY <1>f, <1>4, <1>5, <1>8, <1>9, <2>1 DEF SetOk
  <1>g. CASE SetCordoned
    <2>1. "Cordoned" \in NodeCurrentStates /\ Legal(old.cur, "Cordoned")
      BY DEF NodeCurrentStates, Legal
    <2> QED  BY <1>g, <1>4, <1>5, <1>8, <1>9, <2>1 DEF SetCordoned
  <1>h. CASE Enqueue
    <2>1. "Queued" \in NodeCurrentStates /\ Legal(old.cur, "Queued")
      BY <1>h, <1>3 DEF Enqueue, CurrentAt, NodeCurrentStates, Legal
    <2> QED  BY <1>h, <1>4, <1>5, <1>8, <1>9, <2>1 DEF Enqueue
  <1>i. CASE Promote
    <2>1. "Next" \in NodeCurrentStates /\ old.cur = "Queued"
      BY <1>i, <1>3 DEF Promote, CurrentAt, NodeCurrentStates
    <2>2. \A m \in Nodes : apiNode[m].cur \notin Slot  BY <1>i DEF Promote, IInv, SlotFree
    <2>3. Local' /\ SlotFree' /\ (SameCur \/ MoveCur(req, "Next"))
      BY <1>1, <1>i, <1>5, <1>8, <1>9, <2>1, PatchStep DEF Promote, old
    <2> QED  BY <1>2, <2>1, <2>2, <2>3 DEF LegalStep, old
  <1>j. CASE SetActive
    <2> DEFINE new == [old EXCEPT !.state = "Active"]
    <2>1. new \in NodeObjects  BY Zenon, <1>2, NodeEdits DEF NodeStates
    <2>2. new.cur = old.cur /\ new.life = old.life /\ NewNotDrained(new)
      BY <1>2 DEF NodeObjects, NewNotDrained, DrainState
    <2>3. Patched(new, {"idle"})  BY <1>j DEF SetActive, old
    <2>4. Legal(old.cur, new.cur)  BY <2>2 DEF Legal
    <2> HIDE DEF new
    <2> QED  BY <1>3, <1>4, <1>8, <2>1, <2>2, <2>3, <2>4
  <1>k. CASE SetDraining
    <2>1. "Draining" \in NodeCurrentStates /\ Legal(old.cur, "Draining")
      BY <1>k, <1>3 DEF SetDraining, CurrentAt, NodeCurrentStates, Legal
    <2>2. Fits({IF Unschedulable(kubeNode) THEN "preDrain" ELSE "drainCordon"}, "Draining")
      BY DEF Fits, CurrentAt
    <2> QED  BY <1>k, <1>4, <1>5, <2>1, <2>2 DEF SetDraining
  <1>l. CASE SetDrained
    <2> DEFINE new == [old EXCEPT !.drained = TRUE,
                          !.cur = IF node.cur = "Drained" THEN @ ELSE "Drained"]
    <2>1. new \in NodeObjects  BY Zenon, <1>2, NodeEdits
    <2>2. new.cur = "Drained" /\ new.life = old.life  BY <1>2, <1>3 DEF NodeObjects
    <2>3. Patched(new, RebootPart(new, kubeNode))  BY <1>l DEF SetDrained, old
    <2>4. Legal(old.cur, "Drained")  BY <1>l, <1>3 DEF SetDrained, CurrentAt, Legal
    <2> HIDE DEF new
    <2>5. Fits(RebootPart(new, kubeNode), new.cur) /\ NewNotDrained(new)
      BY Zenon, <2>2, FitsReboot DEF States, NodeCurrentStates, NewNotDrained, Unset
    <2> QED  BY <1>4, <2>1, <2>2, <2>3, <2>4, <2>5
  <1>m. CASE SetBootID
    <2> DEFINE new == [sd EXCEPT !.bootID = kubeNode.boot]
    <2>1. kubeNode.boot \in BootIDs  BY DEF IInv, TypeOK, TypeLocal, KubeObjects
    <2>2. new \in NodeObjects  BY Zenon, <1>6, <2>1, NodeEdits
    <2>3. new.cur = sd.cur /\ new.life = old.life  BY <1>6 DEF NodeObjects
    <2>4. Patched(new, {"rebootNode"})  BY <1>m DEF SetBootID, sd, old
    <2>5. sd.cur = "Drained"  BY Zenon, <1>m, <1>3, <1>6 DEF SetBootID, CurrentAt, Unset
    <2> HIDE DEF new
    <2>6. Fits({"rebootNode"}, new.cur) /\ NewNotDrained(new)
      BY <2>3, <2>5 DEF Fits, CurrentAt, NewNotDrained, Unset
    <2> QED  BY <1>4, <1>6, <2>2, <2>3, <2>4, <2>6
  <1>n. CASE SetRebooting
    <2>1. "Rebooting" \in NodeCurrentStates /\ Legal(old.cur, "Rebooting")
      BY <1>n, <1>3 DEF SetRebooting, CurrentAt, NodeCurrentStates, Legal
    <2> QED  BY <1>n, <1>4, <1>5, <1>8, <1>9, <2>1 DEF SetRebooting
  <1>o. CASE SaveRebooted
    <2> DEFINE new == RebootDone(sd)
    <2>1. new \in NodeObjects  BY Zenon, <1>6, NodeEdits
    <2>2. new.cur = sd.cur /\ new.life = old.life  BY <1>6 DEF NodeObjects, RebootDone
    <2>3. Patched(new, {IF new.state = "Active" THEN "idle" ELSE "setActive"})
      BY <1>o DEF SaveRebooted, sd, old
    <2>4. NewNotDrained(new)  BY <1>6, <2>2 DEF NewNotDrained
    <2>5. new.cur \in States  BY <2>1 DEF NodeObjects, States
    <2> HIDE DEF new
    <2> QED  BY <1>4, <1>6, <1>8, <2>1, <2>2, <2>3, <2>4, <2>5
  <1> QED  BY <1>a, <1>b, <1>c, <1>d, <1>e, <1>f, <1>g, <1>h, <1>i, <1>j, <1>k,
              <1>l, <1>m, <1>n, <1>o

\* Steps of Reconcile that write no drain Node.
LEMMA OtherCallStep ==
    ASSUME IInv,
           \/ UndrainHealthy \/ UndrainUncordon \/ RunPostDrain \/ IsRebootRequired
           \/ Uncordon \/ CleanupActive \/ Cordon \/ IsNextNode \/ Vet \/ DrainCordon
           \/ RescheduleController \/ RunPreDrain \/ CleanupBeforeDrain
           \/ RunNodeDrain \/ RebootNode \/ NodeRebooted \/ ReconcileError
    PROVE  Local' /\ SlotFree' /\ SameCur
  <1>1. SameNodes
    BY Zenon DEF UndrainHealthy, UndrainUncordon, RunPostDrain, IsRebootRequired, Uncordon,
       CleanupActive, Cordon, IsNextNode, Vet, DrainCordon, RescheduleController,
       RunPreDrain, CleanupBeforeDrain, RunNodeDrain, RebootNode, NodeRebooted,
       ReconcileError, PatchedKube, SameNodes, api, cache
  <1>2. pc # "idle"
    BY Zenon DEF UndrainHealthy, UndrainUncordon, RunPostDrain, IsRebootRequired, Uncordon,
       CleanupActive, Cordon, IsNextNode, Vet, DrainCordon, RescheduleController,
       RunPreDrain, CleanupBeforeDrain, RunNodeDrain, RebootNode, NodeRebooted,
       ReconcileError
  <1>3. node.cur \in States /\ node.cur \in CurrentAt(pc)
    BY <1>2 DEF IInv, LocalCurrent, TypeOK, TypeLocal, NodeObjects, States
  <1>4. CASE Return  BY <1>1, <1>4, QuietReturn
  <1>5. ASSUME NEW L, NEW kn, Continue(L, node, kn), Fits(L, node.cur)
        PROVE  Local' /\ SlotFree' /\ SameCur
    BY <1>1, <1>2, <1>5, QuietStep DEF Fits
  <1>6. \A l \in {"idle", "undrainUncordon", "postDrain", "undrainReset", "undrainOk",
                  "setOk", "cleanup", "setCordoned", "saveRebooted"} :
           Fits({l}, node.cur)
    BY <1>3 DEF Fits, CurrentAt, States
  <1>7. CASE UndrainHealthy  BY <1>5, <1>6, <1>7 DEF UndrainHealthy
  <1>8. CASE UndrainUncordon
    BY <1>4, <1>5, <1>6, <1>8 DEF UndrainUncordon, PatchedKube
  <1>9. CASE RunPostDrain  BY <1>5, <1>6, <1>9 DEF RunPostDrain
  <1>10. CASE IsRebootRequired
    <2>1. CASE ~(apiKube[req].present /\ apiKube[req].ready)
      BY <1>4, <1>10, <2>1 DEF IsRebootRequired
    <2>2. CASE apiKube[req].present /\ apiKube[req].ready
      <3>1. /\ pc' = IF pc = "checkReboot" THEN "saveCheck" ELSE "saveRecheck"
            /\ pc \in {"checkReboot", "recheck"} /\ req' = req /\ node' = node
            /\ apiNode' = apiNode /\ cacheNode' = cacheNode
        BY <1>1, <1>10, <2>2 DEF IsRebootRequired, SameNodes
      <3>2. node.cur \in CurrentAt(pc')  BY <1>3, <3>1 DEF CurrentAt
      <3>3. LocalCurrent'
        BY <1>2, <3>1, <3>2 DEF IInv, LocalCurrent, NewNotDrained, CurrentAt
      <3> QED
        BY <3>1, <3>3 DEF IInv, Local, SlotFree, SameCur, CacheCurrent, NewNotDrained,
           AbsentUnset
    <2> QED  BY <2>1, <2>2
  <1>11. CASE Uncordon  BY <1>4, <1>5, <1>6, <1>11 DEF Uncordon, PatchedKube
  <1>12. CASE CleanupActive  BY <1>4, <1>12 DEF CleanupActive
  <1>13. CASE Cordon  BY <1>4, <1>5, <1>6, <1>13 DEF Cordon, PatchedKube
  <1>14. CASE IsNextNode
    <2>1. CASE \E m \in Nodes : NodeWorking(m)
      BY <1>5, <1>6, <1>14, <2>1 DEF IsNextNode
    <2>2. CASE ~\E m \in Nodes : NodeWorking(m)
      <3>1. \A m \in Nodes : apiNode[m].cur \notin Slot
        <4> SUFFICES ASSUME NEW m \in Nodes, apiNode[m].cur \in Slot  PROVE FALSE
          OBVIOUS
        <4>1. apiNode[m].life = "absent"
          BY <2>2 DEF NodeWorking, WorkState, Slot, IInv, CacheCurrent
        <4> QED  BY Zenon, <4>1 DEF IInv, AbsentUnset, Slot, Unset
      <3>2. node.cur = "Queued"  BY <1>3, <1>14 DEF IsNextNode, CurrentAt
      <3>3. node.cur \in CurrentAt("promote")  BY <3>2 DEF CurrentAt
      <3>4. Continue({"promote"}, node, kubeNode)  BY <1>14, <2>2 DEF IsNextNode
      <3> QED  BY <1>1, <1>2, <3>1, <3>3, <3>4, QuietStep
    <2> QED  BY <2>1, <2>2
  <1>15. CASE Vet
    <2>1. Fits({"setDraining"}, node.cur)  BY <1>3, <1>15 DEF Vet, Fits, CurrentAt
    <2> QED  BY <1>4, <1>5, <1>15, <2>1 DEF Vet
  <1>16. CASE DrainCordon
    <2>1. Fits({"preDrain"}, node.cur)  BY <1>3, <1>16 DEF DrainCordon, Fits, CurrentAt
    <2> QED  BY <1>4, <1>5, <1>16, <2>1 DEF DrainCordon, PatchedKube
  <1>17. CASE RescheduleController  BY <1>4, <1>17 DEF RescheduleController
  <1>18. CASE RunPreDrain
    <2>1. Fits({"drainCleanup"}, node.cur)  BY <1>3, <1>18 DEF RunPreDrain, Fits, CurrentAt
    <2> QED  BY <1>4, <1>5, <1>18, <2>1 DEF RunPreDrain
  <1>19. CASE CleanupBeforeDrain
    <2>1. Fits({"evict"}, node.cur)  BY <1>3, <1>19 DEF CleanupBeforeDrain, Fits, CurrentAt
    <2> QED  BY <1>5, <1>19, <2>1 DEF CleanupBeforeDrain
  <1>20. CASE RunNodeDrain
    <2>1. Fits({"setDrained"}, node.cur)  BY <1>3, <1>20 DEF RunNodeDrain, Fits, CurrentAt
    <2> QED  BY <1>5, <1>20, <2>1 DEF RunNodeDrain
  <1>21. CASE RebootNode
    <2>1. Fits({"setRebooting"}, node.cur)  BY <1>3, <1>21 DEF RebootNode, Fits, CurrentAt
    <2> QED  BY Zenon, <1>4, <1>5, <1>6, <1>21, <2>1 DEF RebootNode
  <1>22. CASE NodeRebooted  BY <1>4, <1>5, <1>6, <1>22 DEF NodeRebooted
  <1>23. CASE ReconcileError  BY <1>4, <1>23 DEF ReconcileError
  <1> QED  BY Zenon, <1>7, <1>8, <1>9, <1>10, <1>11, <1>12, <1>13, <1>14, <1>15, <1>16,
              <1>17, <1>18, <1>19, <1>20, <1>21, <1>22, <1>23

\* The steps that create and remove a drain Node, and return.
LEMMA ObjectStep ==
    ASSUME IInv, ~CacheLag, CreateNewNode \/ RemoveFinalizer
    PROVE  Local' /\ SlotFree' /\ LegalStep
  <1>1. pc # "idle" /\ Return  BY DEF CreateNewNode, RemoveFinalizer
  <1>2. req \in Nodes /\ apiNode \in [Nodes -> NodeObjects]
    BY <1>1, StepRequest DEF IInv, TypeOK, TypeObjects
  <1>3. CASE SameNodes  BY <1>1, <1>3, QuietReturn DEF LegalStep
  <1>4. ASSUME NEW new, WriteNode(req, new), new.cur = Unset, ~DrainState(new.state)
        PROVE  Local' /\ SlotFree' /\ LegalStep
    <2>1. pc' = "idle"  BY <1>1 DEF Return, Continue
    <2>2. apiNode' = [apiNode EXCEPT ![req] = new] /\ CacheCurrent'
      BY <1>4 DEF WriteNode, IInv, CacheCurrent
    <2>3. apiNode'[req] = new /\ \A m \in Nodes \ {req} : apiNode'[m] = apiNode[m]
      BY <1>2, <2>2
    <2>4. MoveCur(req, Unset)  BY <1>4, <2>3 DEF MoveCur
    <2>5. (\A m \in Nodes : NewNotDrained(apiNode[m])') /\ AbsentUnset'
      BY <1>4, <2>3 DEF IInv, NewNotDrained, AbsentUnset
    <2>6. LocalCurrent' /\ SlotFree'  BY <2>1 DEF LocalCurrent, SlotFree
    <2>7. LegalStep  BY <1>2, <2>4 DEF LegalStep, Legal, States
    <2> QED  BY <2>2, <2>5, <2>6, <2>7 DEF Local
  <1>5. \A st \in {"Active", "Cordoned"} :
           NewObject(st).cur = Unset /\ ~DrainState(NewObject(st).state)
    BY DEF NewObject, DrainState
  <1>6. NoObject.cur = Unset /\ ~DrainState(NoObject.state)
    BY Zenon DEF NoObject, NewObject, DrainState
  <1>7. CASE CreateNewNode  BY <1>3, <1>4, <1>5, <1>7 DEF CreateNewNode
  <1>8. CASE RemoveFinalizer  BY <1>3, <1>4, <1>6, <1>8 DEF RemoveFinalizer
  <1> QED  BY <1>7, <1>8

\* A Reconcile starts with the objects the API server holds.
LEMMA ReconcileStep ==
    ASSUME IInv, NEW n \in Nodes, Reconcile(n)
    PROVE  Local' /\ SlotFree' /\ SameCur
  <1>1. /\ apiNode' = apiNode /\ cacheNode' = cacheNode /\ req' = n
        /\ node' = apiNode[n] /\ pc' \in Entry(apiNode[n], cacheKube[n])
    BY DEF Reconcile, api, cache, IInv, CacheCurrent
  <1>2. apiNode[n].cur \in States /\ NewNotDrained(apiNode[n])
    BY DEF IInv, TypeOK, TypeObjects, NodeObjects, States
  <1>3. apiNode[n].cur \in CurrentAt(pc') /\ pc' # "promote"
    BY <1>1, <1>2, FitsEntry DEF Fits
  <1>4. LocalCurrent' /\ SlotFree'
    BY <1>1, <1>2, <1>3 DEF LocalCurrent, SlotFree, NewNotDrained, CurrentAt
  <1> QED
    BY Zenon, <1>1, <1>4 DEF IInv, Local, CacheCurrent, SameCur, NewNotDrained, AbsentUnset

\* The other actors: they write no current state.
LEMMA AroundStep ==
    ASSUME IInv, ~CacheLag, ~EarlyRequests,
           \/ Terminate
           \/ \E n \in Nodes :
                 \/ Restart(n) \/ SyncNode(n) \/ SyncKube(n)
                 \/ HostReboots(n) \/ KubeletReady(n) \/ Schedule(n) \/ GarbageCollect(n)
                 \/ \E s \in Requests : UserRequest(n, s)
                 \/ UserDelete(n) \/ OtherManager(n) \/ NodeUnready(n)
                 \/ RebootBecomesRequired(n) \/ NodeRemoved(n) \/ NodeJoins(n)
    PROVE  Local' /\ SlotFree' /\ SameCur
  <1>1. cacheNode = apiNode  BY DEF IInv, CacheCurrent
  <1>2. CASE Terminate
    BY <1>2, QuietReturn DEF Terminate, SameNodes, api, cache
  <1>3. ASSUME NEW n \in Nodes,
               \/ Restart(n) \/ SyncNode(n) \/ SyncKube(n)
               \/ KubeletReady(n) \/ Schedule(n) \/ OtherManager(n) \/ NodeUnready(n)
               \/ RebootBecomesRequired(n) \/ NodeJoins(n)
        PROVE  Local' /\ SlotFree' /\ SameCur
    <2>1. apiNode' = apiNode /\ cacheNode' = apiNode /\ UNCHANGED local
      BY Zenon, <1>1, <1>3 DEF Restart, SyncNode, SyncKube, KubeletReady, Schedule,
         OtherManager,
         NodeUnready, RebootBecomesRequired, NodeJoins, SameNodes, api, cache
    <2> QED  BY <2>1, QuietLocal
  <1>4. ASSUME NEW n \in Nodes, HostReboots(n) \/ NodeRemoved(n)
        PROVE  Local' /\ SlotFree' /\ SameCur
    <2>1. SameNodes /\ (Return \/ UNCHANGED local)
      BY Zenon, <1>4 DEF HostReboots, NodeRemoved
    <2>2. CASE Return  BY <2>1, <2>2, QuietReturn
    <2>3. CASE UNCHANGED local  BY <1>1, <2>1, <2>3, QuietLocal DEF SameNodes
    <2> QED  BY <2>1, <2>2, <2>3
  <1>5. ASSUME NEW n \in Nodes, GarbageCollect(n) \/ UserDelete(n)
        PROVE  Local' /\ SlotFree' /\ SameCur
    <2> DEFINE new == [apiNode[n] EXCEPT !.life = "deleting"]
    <2>1. apiNode[n] \in NodeObjects /\ NewNotDrained(apiNode[n])
      BY DEF IInv, TypeOK, TypeObjects
    <2>2. new.cur = apiNode[n].cur /\ new.life = "deleting" /\ NewNotDrained(new)
      BY <2>1 DEF NodeObjects, NewNotDrained
    <2>3. WriteNode(n, new) /\ UNCHANGED local
      BY Zenon, <1>5 DEF GarbageCollect, UserDelete
    <2> HIDE DEF new
    <2> QED  BY <2>2, <2>3, WriteStep
  <1>6. ASSUME NEW n \in Nodes, NEW s \in Requests, UserRequest(n, s)
        PROVE  Local' /\ SlotFree' /\ SameCur
    <2> DEFINE new == [apiNode[n] EXCEPT !.state = ApplyDefaults(s)]
    <2>1. apiNode[n] \in NodeObjects
      BY DEF IInv, TypeOK, TypeObjects
    <2>2. new.cur = apiNode[n].cur /\ new.life = apiNode[n].life
          /\ new.state = ApplyDefaults(s)
      BY <2>1 DEF NodeObjects
    <2>3. WriteNode(n, new) /\ UNCHANGED local
      BY <1>6 DEF UserRequest
    <2>4. apiNode[n].cur # Unset \/ ~DrainState(ApplyDefaults(s))
      BY Zenon, <1>6 DEF UserRequest
    <2> HIDE DEF new
    <2>5. NewNotDrained(new)  BY Zenon, <2>2, <2>4 DEF NewNotDrained
    <2> QED  BY <2>2, <2>3, <2>5, WriteStep
  <1> QED  BY <1>2, <1>3, <1>4, <1>5, <1>6

\* So does every step.
LEMMA NextStep ==
    ASSUME IInv, ~CacheLag, ~EarlyRequests, [Next]_vars
    PROVE  Local' /\ SlotFree' /\ LegalStep
  <1>1. CASE UNCHANGED vars
    <2>1. apiNode' = apiNode /\ cacheNode' = apiNode /\ UNCHANGED local
      BY <1>1 DEF vars, api, cache, IInv, CacheCurrent
    <2> QED  BY <2>1, QuietLocal DEF LegalStep
  <1>2. CASE \E n \in Nodes : Reconcile(n)  BY Zenon, <1>2, ReconcileStep DEF LegalStep
  <1>3. CASE Step \/ ReconcileError
    BY <1>3, NodePatchStep, OtherCallStep, ObjectStep DEF Step, LegalStep
  <1>4. CASE Next /\ ~(\E n \in Nodes : Reconcile(n)) /\ ~Step /\ ~ReconcileError
    BY Zenon, <1>4, AroundStep DEF Next, LegalStep
  <1> QED  BY <1>1, <1>2, <1>3, <1>4

-----------------------------------------------------------------------------
(* The theorems. *)

\* A legal step keeps the slot to one node.
LEMMA LegalOneWorker ==
    ASSUME AtMostOneWorker, LegalStep
    PROVE  AtMostOneWorker'
  <1>1. CASE SameCur  BY <1>1 DEF SameCur, AtMostOneWorker
  <1>2. ASSUME NEW n \in Nodes, NEW c \in States, MoveCur(n, c), Legal(apiNode[n].cur, c)
        PROVE  AtMostOneWorker'
    <2>1. c \in Slot => apiNode[n].cur \in Slot  BY Zenon, <1>2 DEF Legal, Slot, Unset
    <2> QED  BY <1>2, <2>1 DEF MoveCur, AtMostOneWorker
  <1>3. ASSUME NEW n \in Nodes, MoveCur(n, "Next"),
               \A m \in Nodes : apiNode[m].cur \notin Slot
        PROVE  AtMostOneWorker'
    BY <1>3 DEF MoveCur, AtMostOneWorker
  <1> QED  BY <1>1, <1>2, <1>3 DEF LegalStep

\* The invariant holds at the start.
LEMMA IInvInit == Init => IInv
  <1> SUFFICES ASSUME Init  PROVE IInv
    OBVIOUS
  <1>1. TypeOK  BY TypeInit
  <1>2. \A n \in Nodes : apiNode[n].cur = Unset /\ apiNode[n].state = "Active"
    BY DEF Init, NoObject, NewObject
  <1>3. AtMostOneWorker  BY Zenon, <1>2 DEF AtMostOneWorker, Slot, Unset
  <1>4. (\A n \in Nodes : NewNotDrained(apiNode[n])) /\ AbsentUnset
    BY <1>2 DEF NewNotDrained, DrainState, AbsentUnset
  <1>5. CacheCurrent /\ LocalCurrent /\ SlotFree
    BY DEF Init, CacheCurrent, LocalCurrent, SlotFree
  <1> QED  BY <1>1, <1>3, <1>4, <1>5 DEF IInv

\* IInv is an invariant: caches and local object agree with the API server on
\* every current state, and isNextNode's answer is still right when used.
THEOREM SlotInvariant ==
    ASSUME ~CacheLag, ~EarlyRequests
    PROVE  Spec => []IInv
  <1>1. IInv /\ [Next]_vars => IInv'
    <2> SUFFICES ASSUME IInv, [Next]_vars  PROVE IInv'
      OBVIOUS
    <2>1. Local' /\ SlotFree' /\ LegalStep  BY NextStep
    <2>2. AtMostOneWorker'  BY <2>1, LegalOneWorker DEF IInv
    <2>3. TypeOK'  BY TypeStep DEF IInv
    <2> QED  BY <2>1, <2>2, <2>3 DEF IInv, Local
  <1> QED  BY <1>1, IInvInit, PTL DEF Spec

\* isNextNode keeps its promise: no two nodes of a cluster of any size are
\* Next, Draining, Drained, Rebooting or Undraining at once, whatever fails,
\* restarts, is deleted or is asked for.
THEOREM OneWorker ==
    ASSUME ~CacheLag, ~EarlyRequests
    PROVE  Spec => []AtMostOneWorker
  <1>1. IInv => AtMostOneWorker  BY DEF IInv
  <1> QED  BY <1>1, SlotInvariant, PTL

(* Refinement. *)

Phased == [n \in Nodes |-> Phase(apiNode[n].cur)]

\* A change of one current state is a change of one phase.
LEMMA PhaseMove ==
    ASSUME NEW n \in Nodes, NEW c, MoveCur(n, c)
    PROVE  Phased' = [Phased EXCEPT ![n] = Phase(c)]
  BY Zenon DEF Phased, MoveCur, Phase

\* A legal change of the current states is a step of the life cycle.
LEMMA LegalRefines ==
    ASSUME LegalStep
    PROVE  [Lifecycle!Next]_Phased
  <1>1. CASE SameCur
    BY <1>1 DEF SameCur, Phased
  <1>2. ASSUME NEW n \in Nodes, NEW c \in States, MoveCur(n, c), Legal(apiNode[n].cur, c)
        PROVE  [Lifecycle!Next]_Phased
    <2>1. Phased' = [Phased EXCEPT ![n] = Phase(c)]  BY <1>2, PhaseMove
    <2>2. Phased[n] = Phase(apiNode[n].cur)  BY DEF Phased
    <2>3. CASE Phase(c) = Phase(apiNode[n].cur)
      BY Zenon, <2>1, <2>2, <2>3 DEF Phased
    <2>4. CASE Phase(c) = "out" /\ Phase(apiNode[n].cur) # "out"
      BY Zenon, <2>1, <2>2, <2>4 DEF Lifecycle!Next, Lifecycle!Leave, Phased
    <2>5. CASE Phase(c) = "queued" /\ Phase(apiNode[n].cur) = "out"
      BY Zenon, <2>1, <2>2, <2>5 DEF Lifecycle!Next, Lifecycle!Enter, Phased
    <2>6. CASE /\ <<Phase(apiNode[n].cur), Phase(c)>> \in Lifecycle!Order
               /\ Phase(c) \in Lifecycle!Working
      BY Zenon, <2>1, <2>2, <2>6 DEF Lifecycle!Next, Lifecycle!Advance, Phased
    <2>7. \/ Phase(c) = Phase(apiNode[n].cur)
          \/ Phase(c) = "out" /\ Phase(apiNode[n].cur) # "out"
          \/ Phase(c) = "queued" /\ Phase(apiNode[n].cur) = "out"
          \/ /\ <<Phase(apiNode[n].cur), Phase(c)>> \in Lifecycle!Order
             /\ Phase(c) \in Lifecycle!Working
      BY Zenon, <1>2 DEF Legal, Phase, Unset, Lifecycle!Order, Lifecycle!Working
    <2> QED  BY <2>3, <2>4, <2>5, <2>6, <2>7
  <1>3. ASSUME NEW n \in Nodes, MoveCur(n, "Next"), apiNode[n].cur = "Queued",
               \A m \in Nodes : apiNode[m].cur \notin Slot
        PROVE  [Lifecycle!Next]_Phased
    <2>1. Phased' = [Phased EXCEPT ![n] = "next"]  BY <1>3, PhaseMove DEF Phase
    <2>2. Phased[n] = "queued"  BY <1>3 DEF Phased, Phase
    <2>3. \A m \in Nodes : Phased[m] \notin Lifecycle!Working
      BY <1>3 DEF Phased, Phase, Slot, Lifecycle!Working
    <2> QED  BY Zenon, <2>1, <2>2, <2>3 DEF Lifecycle!Next, Lifecycle!Grant, Phased
  <1> QED  BY <1>1, <1>2, <1>3 DEF LegalStep

\* Reconcile implements DrainLifecycle: one node at a time, granted the slot
\* from the queue, phase by phase.
THEOREM Implements ==
    ASSUME ~CacheLag, ~EarlyRequests
    PROVE  Spec => LifecycleSpec
  <1>1. Init => Lifecycle!Init
    <2>1. NoObject.cur = Unset  BY DEF NoObject, NewObject
    <2>2. Phase(Unset) = "out"  BY DEF Phase, Unset
    <2>3. Init => \A n \in Nodes : apiNode[n] = NoObject  BY DEF Init
    <2> QED  BY <2>1, <2>2, <2>3 DEF Lifecycle!Init
  <1>2. IInv /\ [Next]_vars => [Lifecycle!Next]_Phased
    BY NextStep, LegalRefines
  <1> QED  BY <1>1, <1>2, SlotInvariant, PTL DEF Spec, LifecycleSpec, Lifecycle!Spec, Phased

=============================================================================
