------------------------- MODULE RebootManagerProofs -------------------------
(***************************************************************************)
(* Proofs about the reboot manager, for any nodes and any bounds on        *)
(* faults, events and reboots: helper pods are left behind only by calls   *)
(* that had a request fail, a node found to have rebooted has no reboot    *)
(* pod left, and a host reboots at most once for each reboot pod.          *)
(*                                                                         *)
(* The last is a matter of counting (Budget); the others need to know      *)
(* which requests a method can be at and which pod it holds (CallShape).   *)
(***************************************************************************)
EXTENDS RebootManager, FiniteSetTheorems, TLAPS

(* The type of the last answer.                                            *)
Answered == [op : Ops \cup {"none"}, node : Nodes \cup {NoNode}, pc : {"none"},
             pod : {NoPod}, ans : Answers]

(* A method has a pod from the answer of its creation on. Only CleanupNode *)
(* and, on hosts, IsNodeRebooted delete collections; IsNodeRebooted        *)
(* creates pods on container nodes only; RebootNode ends with its          *)
(* creation, and its pod is within the bound.                              *)
CallShape ==
    /\ call.pc \in {"none", "getNode", "create", "cleanup"} => call.pod = NoPod
    /\ call.pc = "cleanup" => call.op \in {"CleanupNode", "IsNodeRebooted"}
    /\ call.op = "CleanupNode" => call.pc = "cleanup"
    /\ call.op = "IsNodeRebooted" => call.pc = "cleanup" \/ container
    /\ call.op = "RebootNode" =>
          call.pc \in {"getNode", "create"} /\ created[call.node] < MaxReboots

(* The reboot pods of a node that are still to be started.                 *)
Waiting(n) == {p \in DOMAIN pods : /\ pods[p].kind = "reboot"
                                   /\ pods[p].node = n
                                   /\ pods[p].phase = "Pending"}

(* Reboots that a host has done or been told to do.                        *)
Spent(n) == host[n].boot + IF host[n].down THEN 1 ELSE 0

(* Reboots done, under way and still to come are no more than the reboot   *)
(* pods created.                                                           *)
Budget ==
    /\ IsFiniteSet(DOMAIN pods)
    /\ \A n \in Nodes : Spent(n) + Cardinality(Waiting(n)) <= created[n]

(* The inductive invariant.                                                *)
PodsInv == PodsTypeOK /\ CallShape /\ Budget /\ LeftoverHadFault /\ DoneMeansQuiet

-----------------------------------------------------------------------------
-----------------------------------------------------------------------------
(* Facts about the parts of actions.                                      *)

(* A method that returns leaves no call, and a typed answer about its      *)
(* node.                                                                   *)
LEMMA ReturnFacts ==
    ASSUME PodsTypeOK, call # NoCall, NEW v \in Answers, Return(v)
    PROVE  /\ call' = NoCall /\ call' \in Calls
           /\ answer' \in Answered
           /\ answer'.op = call.op /\ answer'.node = call.node /\ answer'.ans = v
           /\ rebooting' \subseteq Nodes
BY Zenon DEF PodsTypeOK, Return, Calls, NoCall, Answered

(* A call that has created its pod keeps its type, method and node.        *)
LEMMA GotPod ==
    ASSUME PodsTypeOK, call # NoCall, NEW p \in PodIds,
           call' = [call EXCEPT !.pc = "poll", !.pod = p]
    PROVE  /\ call' \in Calls
           /\ call'.op = call.op /\ call'.node = call.node
           /\ call'.pc = "poll" /\ call'.pod = p
BY Zenon DEF PodsTypeOK, Calls, NoCall, Ops, Steps

(* So does one whose Get failed, which leaves it without the name of its   *)
(* pod.                                                                    *)
LEMMA LostPod ==
    ASSUME PodsTypeOK, call # NoCall,
           call' = [call EXCEPT !.pc = "delete", !.ans = "error", !.pod = NoPod]
    PROVE  /\ call' \in Calls
           /\ call'.op = call.op /\ call'.pc = "delete" /\ call'.pod = NoPod
BY Zenon DEF PodsTypeOK, Calls, NoCall, Ops, Steps, Answers

(* A call that goes on to the next request keeps its method, node and pod. *)
LEMMA ContinueFacts ==
    ASSUME PodsTypeOK, call # NoCall, NEW s \in Steps, Continue(s)
    PROVE  /\ call' \in Calls
           /\ call'.op = call.op /\ call'.node = call.node
           /\ call'.pc = s /\ call'.pod = call.pod
           /\ UNCHANGED <<answer, rebooting>>
BY DEF PodsTypeOK, Continue, Calls

(* A call that goes on to its deferred deletion does too.                  *)
LEMMA DeferFacts ==
    ASSUME PodsTypeOK, call # NoCall, NEW v \in Answers, Defer(v)
    PROVE  /\ call' \in Calls
           /\ call'.op = call.op /\ call'.node = call.node
           /\ call'.pc = "delete" /\ call'.pod = call.pod
           /\ UNCHANGED <<answer, rebooting>>
BY Zenon DEF PodsTypeOK, Defer, Calls, Steps

(* What the type of a call says, for a call under way.                     *)
LEMMA InCall ==
    ASSUME PodsTypeOK
    PROVE  /\ call = NoCall <=> call.pc = "none"
           /\ call # NoCall => /\ call.op \in Ops /\ call.node \in Nodes /\ call.pc \in Steps
                               /\ call.pod \in PodIds \cup {NoPod} /\ call.ans \in Answers
BY DEF PodsTypeOK, Calls, NoCall, Steps

(* Hosts keep their type when a field is set.                              *)
LEMMA HostFacts ==
    ASSUME host \in [Nodes -> Hosts], NEW n \in Nodes, NEW b \in BOOLEAN
    PROVE  /\ [host EXCEPT ![n].down = b] \in [Nodes -> Hosts]
           /\ [host EXCEPT ![n].ready = b] \in [Nodes -> Hosts]
           /\ [host EXCEPT ![n].required = b] \in [Nodes -> Hosts]
           /\ [host EXCEPT ![n].cordoned = b] \in [Nodes -> Hosts]
BY DEF Hosts

(* Pods that change at most their phase keep type, node and kind.          *)
LEMMA PhaseFacts ==
    ASSUME PodsTypeOK, DOMAIN pods' = DOMAIN pods,
           \A q \in DOMAIN pods : \/ pods'[q] = pods[q]
                                  \/ \E ph \in Phases : pods'[q] = [pods[q] EXCEPT !.phase = ph]
    PROVE  \A q \in DOMAIN pods : /\ pods'[q] \in Pods
                                  /\ pods'[q].node = pods[q].node
                                  /\ pods'[q].kind = pods[q].kind
BY DEF PodsTypeOK, Pods

(* The bound on faults is kept.                                            *)
LEMMA FaultFacts ==
    faults \in 0..MaxFaults /\ Fault => faults' \in 0..MaxFaults
BY PodsAssumption DEF Fault

(* GenerateName finds a name that no pod has, if there is one.             *)
LEMMA FreeNameFacts ==
    PodIds \ DOMAIN pods # {} => FreeName \in PodIds /\ FreeName \notin DOMAIN pods
BY DEF FreeName

-----------------------------------------------------------------------------
(* Counting reboots.                                                      *)

(* There are finitely many reboot pods to be counted.                      *)
LEMMA WaitingFinite ==
    ASSUME Budget, NEW n
    PROVE  IsFiniteSet(Waiting(n)) /\ Cardinality(Waiting(n)) \in Nat
<1>1. Waiting(n) \subseteq DOMAIN pods
  BY DEF Waiting
<1> QED  BY <1>1, FS_Subset, FS_CardinalityType DEF Budget

(* Steps of the methods that touch neither pods nor hosts.                 *)
LEMMA BudgetSame ==
    ASSUME Budget, UNCHANGED <<pods, host, created>>
    PROVE  Budget'
BY DEF Budget, Spent, Waiting

(* Hosts that change, but not in what is counted.                          *)
LEMMA BudgetHost ==
    ASSUME Budget, UNCHANGED <<pods, created>>,
           \A n \in Nodes : host'[n].boot = host[n].boot /\ host'[n].down = host[n].down
    PROVE  Budget'
BY DEF Budget, Spent, Waiting

(* Deleting pods only makes the count smaller.                             *)
LEMMA BudgetShrinks ==
    ASSUME PodsTypeOK, Budget, NEW S, pods' = Without(S), UNCHANGED <<host, created>>
    PROVE  Budget'
<1>1. DOMAIN pods' \subseteq DOMAIN pods /\ IsFiniteSet(DOMAIN pods')
  BY FS_Subset DEF Budget, Without
<1>2. ASSUME NEW n \in Nodes
      PROVE  Spent(n)' + Cardinality(Waiting(n)') <= created'[n]
  <2>1. Waiting(n)' \subseteq Waiting(n)
    BY DEF Waiting, Without
  <2>2. /\ Cardinality(Waiting(n)') <= Cardinality(Waiting(n))
        /\ Cardinality(Waiting(n)') \in Nat
        /\ Cardinality(Waiting(n)) \in Nat
    BY <2>1, WaitingFinite, FS_Subset, FS_CardinalityType
  <2>3. /\ Spent(n)' = Spent(n) /\ Spent(n) \in Nat
        /\ created'[n] \in Nat /\ created'[n] = created[n]
    BY DEF Spent, PodsTypeOK, Hosts
  <2> QED  BY <2>2, <2>3 DEF Budget
<1> QED  BY <1>1, <1>2 DEF Budget

(* A new reboot pod adds one on both sides; a helper pod adds nothing.     *)
LEMMA BudgetGrows ==
    ASSUME PodsTypeOK, Budget, call # NoCall, call.op # "CleanupNode", AddPod, UNCHANGED host
    PROVE  Budget'
<1>1. FreeName \notin DOMAIN pods
  BY FreeNameFacts DEF AddPod
<1>2. DOMAIN pods' = DOMAIN pods \cup {FreeName}
  BY DEF AddPod
<1>3. IsFiniteSet(DOMAIN pods')
  BY <1>2, FS_AddElement DEF Budget
<1>4. ASSUME NEW n \in Nodes
      PROVE  Spent(n)' + Cardinality(Waiting(n)') <= created'[n]
  <2>1. Spent(n)' = Spent(n) /\ Spent(n) \in Nat /\ created[n] \in Nat
    BY DEF Spent, PodsTypeOK, Hosts
  <2>2. IsFiniteSet(Waiting(n)) /\ Cardinality(Waiting(n)) \in Nat
    BY WaitingFinite
  <2>3. CASE call.op = "RebootNode" /\ n = call.node
    <3>1. Waiting(n)' = Waiting(n) \cup {FreeName} /\ FreeName \notin Waiting(n)
      BY <1>1, <1>2, <2>3 DEF Waiting, AddPod, NewPod
    <3>2. Cardinality(Waiting(n)') = Cardinality(Waiting(n)) + 1
      BY SMTT(30), <2>2, <3>1, FS_AddElement
    <3>3. created'[n] = created[n] + 1
      BY <2>3 DEF AddPod, PodsTypeOK
    <3> QED  BY <2>1, <2>2, <3>2, <3>3 DEF Budget
  <2>4. CASE ~(call.op = "RebootNode" /\ n = call.node)
    <3>1. call.op \in Ops
      BY InCall
    <3>2. NewPod.kind = "reboot" => NewPod.node # n
      BY <2>4, <3>1 DEF NewPod, Ops
    <3>3. Waiting(n)' = Waiting(n)
      BY <1>1, <1>2, <3>2 DEF Waiting, AddPod
    <3>4. created'[n] = created[n]
      BY <2>4 DEF AddPod
    <3> QED  BY <2>1, <3>3, <3>4 DEF Budget
  <2> QED  BY <2>3, <2>4
<1> QED  BY <1>3, <1>4 DEF Budget

(* A reboot pod that starts is no longer waiting, and its host, which was  *)
(* up, is going down. A pod that starts on a host going down would be a    *)
(* second reboot for free; the kubelet there starts none.                  *)
LEMMA BudgetStart ==
    ASSUME PodsTypeOK, Budget, NEW p \in DOMAIN pods, StartPod(p)
    PROVE  Budget'
<1> DEFINE m == pods[p].node
<1>1. DOMAIN pods' = DOMAIN pods /\ IsFiniteSet(DOMAIN pods')
  BY DEF StartPod, Budget
<1>2. m \in Nodes
  BY DEF PodsTypeOK, Pods
<1>3. ASSUME NEW n \in Nodes
      PROVE  Spent(n)' + Cardinality(Waiting(n)') <= created'[n]
  <2>1. /\ host[n].boot \in Nat /\ host'[n].boot = host[n].boot
        /\ created[n] \in Nat /\ created'[n] = created[n]
    BY DEF PodsTypeOK, Hosts, StartPod, Idle
  <2>2. IsFiniteSet(Waiting(n)) /\ Cardinality(Waiting(n)) \in Nat
    BY WaitingFinite
  <2>3. CASE n = m /\ pods[p].kind = "reboot"
    <3>1. Waiting(n)' = Waiting(n) \ {p} /\ p \in Waiting(n)
      BY <1>1, <2>3 DEF Waiting, StartPod
    <3>2. Cardinality(Waiting(n)') = Cardinality(Waiting(n)) - 1
      BY Zenon, <2>2, <3>1, FS_RemoveElement
    <3>3. ~host[n].down
      BY <2>3 DEF StartPod
    <3> QED  BY <2>1, <2>2, <3>2, <3>3 DEF Budget, Spent
  <2>4. CASE ~(n = m /\ pods[p].kind = "reboot")
    <3>1. Waiting(n)' = Waiting(n)
      BY <1>1, <2>4 DEF Waiting, StartPod
    <3>2. host'[n].down = host[n].down
      BY <1>2, <2>4 DEF StartPod, PodsTypeOK, Hosts
    <3> QED  BY <2>1, <3>1, <3>2 DEF Budget, Spent
  <2> QED  BY <2>3, <2>4
<1> QED  BY <1>1, <1>3 DEF Budget

(* The end of a pod changes nothing that is counted.                       *)
LEMMA BudgetFinish ==
    ASSUME PodsTypeOK, Budget, NEW p \in DOMAIN pods, FinishPod(p)
    PROVE  Budget'
<1>1. DOMAIN pods' = DOMAIN pods /\ \A n \in Nodes : Waiting(n)' = Waiting(n)
  BY DEF FinishPod, Waiting, PodsTypeOK, Pods
<1>2. \A n \in Nodes : host'[n].boot = host[n].boot /\ host'[n].down = host[n].down
  BY DEF FinishPod, PodsTypeOK, Hosts
<1> QED  BY <1>1, <1>2 DEF Budget, Spent, FinishPod, Idle

(* The reboot under way becomes one that is done, and no pod waits again   *)
(* (RestartPolicy Never).                                                  *)
LEMMA BudgetReboot ==
    ASSUME PodsTypeOK, Budget, NEW m \in Nodes, HostReboots(m)
    PROVE  Budget'
<1>1. DOMAIN pods' = DOMAIN pods /\ \A n \in Nodes : Waiting(n)' = Waiting(n)
  BY DEF HostReboots, AfterReboot, Waiting
<1>2. \A n \in Nodes : Spent(n)' = Spent(n)
  <2>1. /\ host[m].down /\ host[m].boot \in Nat
        /\ host'[m].boot = host[m].boot + 1 /\ ~host'[m].down
    <3>1. host[m] \in Hosts
      BY DEF PodsTypeOK
    <3>2. host'[m] = [host[m] EXCEPT !.boot = @ + 1, !.down = FALSE,
                                     !.ready = FALSE, !.required = FALSE]
      BY DEF HostReboots, PodsTypeOK
    <3>3. host[m].down
      BY DEF HostReboots
    <3> QED  BY <3>1, <3>2, <3>3 DEF Hosts
  <2>2. \A n \in Nodes \ {m} : host'[n] = host[n]
    BY DEF HostReboots, PodsTypeOK
  <2> QED  BY <2>1, <2>2 DEF Spent
<1> QED  BY <1>1, <1>2 DEF Budget, HostReboots, Idle

-----------------------------------------------------------------------------
(* Every action keeps the invariant, conjunct by conjunct.                *)

(* IsRebootRequired is called.                                             *)
LEMMA CallIsRebootRequiredKeeps ==
    ASSUME PodsInv, NEW n \in Nodes, CallIsRebootRequired(n)
    PROVE  PodsInv'
<1>1. PodsTypeOK'
  BY DEF PodsInv, PodsTypeOK, CallIsRebootRequired, Start, Answers, Steps, Calls, Ops
<1>2. CallShape'
  BY DEF PodsInv, CallShape, CallIsRebootRequired, Start
<1>3. Budget'
  BY BudgetSame DEF PodsInv, CallIsRebootRequired, Start
<1>4. LeftoverHadFault'
  BY DEF PodsInv, LeftoverHadFault, CallIsRebootRequired, Start, NoCall
<1>5. DoneMeansQuiet'
  BY DEF PodsInv, DoneMeansQuiet, CallIsRebootRequired, Start
<1> QED  BY <1>1, <1>2, <1>3, <1>4, <1>5 DEF PodsInv

(* RebootNode is called, after the boot ID was saved.                      *)
LEMMA CallRebootNodeKeeps ==
    ASSUME PodsInv, NEW n \in Nodes, CallRebootNode(n)
    PROVE  PodsInv'
<1>1. PodsTypeOK'
  <2>1. saved' \in [Nodes -> 0..MaxReboots]
    BY DEF PodsInv, PodsTypeOK, Hosts, CallRebootNode
  <2>2. call' \in Calls
    BY DEF CallRebootNode, Start, Calls, Ops, Steps, Answers
  <2> QED  BY <2>1, <2>2 DEF PodsInv, PodsTypeOK, CallRebootNode, Start
<1>2. CallShape'
  BY DEF PodsInv, CallShape, CallRebootNode, Start
<1>3. Budget'
  BY BudgetSame DEF PodsInv, CallRebootNode, Start
<1>4. LeftoverHadFault'
  BY DEF PodsInv, LeftoverHadFault, CallRebootNode, Start, NoCall
<1>5. DoneMeansQuiet'
  BY DEF PodsInv, DoneMeansQuiet, CallRebootNode, Start
<1> QED  BY <1>1, <1>2, <1>3, <1>4, <1>5 DEF PodsInv

(* CleanupNode is called.                                                  *)
LEMMA CallCleanupNodeKeeps ==
    ASSUME PodsInv, NEW n \in Nodes, CallCleanupNode(n)
    PROVE  PodsInv'
<1>1. PodsTypeOK'
  BY DEF PodsInv, PodsTypeOK, CallCleanupNode, Start, Answers, Steps, Calls, Ops
<1>2. CallShape'
  BY DEF PodsInv, CallShape, CallCleanupNode, Start
<1>3. Budget'
  BY BudgetSame DEF PodsInv, CallCleanupNode, Start
<1>4. LeftoverHadFault'
  BY DEF PodsInv, LeftoverHadFault, CallCleanupNode, Start, NoCall
<1>5. DoneMeansQuiet'
  BY DEF PodsInv, DoneMeansQuiet, CallCleanupNode, Start
<1> QED  BY <1>1, <1>2, <1>3, <1>4, <1>5 DEF PodsInv

(* IsNodeRebooted is called and will make a request.                       *)
LEMMA CallIsNodeRebootedKeeps ==
    ASSUME PodsInv, NEW n \in Nodes, CallIsNodeRebooted(n)
    PROVE  PodsInv'
<1>1. PodsTypeOK'
  BY DEF PodsInv, PodsTypeOK, CallIsNodeRebooted, Start, Answers, Steps, Calls, Ops
<1>2. CallShape'
  BY DEF PodsInv, CallShape, CallIsNodeRebooted, Start
<1>3. Budget'
  BY BudgetSame DEF PodsInv, CallIsNodeRebooted, Start
<1>4. LeftoverHadFault'
  BY DEF PodsInv, LeftoverHadFault, CallIsNodeRebooted, Start, NoCall
<1>5. DoneMeansQuiet'
  BY DEF PodsInv, DoneMeansQuiet, CallIsNodeRebooted, Start
<1> QED  BY <1>1, <1>2, <1>3, <1>4, <1>5 DEF PodsInv

(* IsNodeRebooted answers no without a request.                            *)
LEMMA NotRebootedKeeps ==
    ASSUME PodsInv, NEW n \in Nodes, NotRebooted(n)
    PROVE  PodsInv'
<1>1. PodsTypeOK'
  BY Zenon DEF PodsInv, PodsTypeOK, NotRebooted, NoCall, Answers, Ops
<1>2. CallShape'
  BY DEF PodsInv, CallShape, NotRebooted
<1>3. Budget'
  BY BudgetSame DEF PodsInv, NotRebooted
<1>4. LeftoverHadFault'
  BY DEF PodsInv, LeftoverHadFault, NotRebooted
<1>5. DoneMeansQuiet'
  BY DEF PodsInv, DoneMeansQuiet, NotRebooted
<1> QED  BY <1>1, <1>2, <1>3, <1>4, <1>5 DEF PodsInv

(* IsRebootRequired and RebootNode look at the node.                       *)
LEMMA GetNodeKeeps ==
    ASSUME PodsInv, GetNode
    PROVE  PodsInv'
<1>1. PodsTypeOK'
  <2>1. PodsTypeOK /\ call # NoCall
    BY InCall DEF PodsInv, GetNode
  <2>2. /\ call' \in Calls /\ answer' \in Answered /\ rebooting' \subseteq Nodes
        /\ call'.pc \in {"none", "create"}
    <3>1. Continue("create") \/ Return("error") \/ Return("ok")
      BY DEF GetNode
    <3> QED  BY <2>1, <3>1, ContinueFacts, ReturnFacts DEF PodsTypeOK, Answered, Answers,
         Steps, NoCall
  <2> QED  BY <2>1, <2>2 DEF PodsTypeOK, GetNode, Answered
<1>2. CallShape'
  BY ReturnFacts, ContinueFacts DEF PodsInv, CallShape, GetNode, Answers, Steps, NoCall
<1>3. Budget'
  BY BudgetSame DEF PodsInv, GetNode
<1>4. LeftoverHadFault'
  BY ReturnFacts, ContinueFacts DEF PodsInv, LeftoverHadFault, GetNode, CallShape, NoCall,
     Answers, Steps
<1>5. DoneMeansQuiet'
  BY InCall, ReturnFacts, ContinueFacts DEF PodsInv, DoneMeansQuiet, GetNode, Answers, Steps
<1> QED  BY <1>1, <1>2, <1>3, <1>4, <1>5 DEF PodsInv

(* A pod is created. A helper pod is from now on the pod of its call.      *)
LEMMA CreatePodKeeps ==
    ASSUME PodsInv, CreatePod
    PROVE  PodsInv'
<1>1. PodsTypeOK'
  <2>1. PodsTypeOK /\ CallShape /\ call # NoCall /\ call.op \in Ops /\ call.node \in Nodes
    BY InCall DEF PodsInv, CreatePod
  <2>2. FreeName \in PodIds /\ FreeName \notin DOMAIN pods
    BY FreeNameFacts DEF CreatePod, AddPod
  <2>3. NewPod \in Pods /\ NewPod.node = call.node
    BY <2>1 DEF NewPod, Pods, Kinds, Phases
  <2>4. /\ DOMAIN pods' \subseteq PodIds /\ \A q \in DOMAIN pods' : pods'[q] \in Pods
        /\ FreeName \in DOMAIN pods' /\ pods'[FreeName].node = call.node
    BY <2>1, <2>2, <2>3 DEF CreatePod, AddPod, PodsTypeOK
  <2>5. created' \in [Nodes -> 0..MaxReboots]
    BY <2>1, PodsAssumption DEF CreatePod, AddPod, PodsTypeOK, CallShape
  <2>6. /\ call' \in Calls /\ answer' \in Answered /\ rebooting' \subseteq Nodes
        /\ call'.pc \in {"poll", "get", "exec"} =>
              call'.pod = FreeName /\ call'.node = call.node
    <3>1. CASE call.op = "RebootNode"
      BY <2>1, <3>1, ReturnFacts DEF CreatePod, Answers, NoCall
    <3>2. CASE call.op # "RebootNode"
      BY Zenon, <2>1, <2>2, <3>2, GotPod DEF CreatePod, PodsTypeOK, Answered
    <3> QED  BY <3>1, <3>2
  <2> QED  BY <2>1, <2>4, <2>5, <2>6 DEF PodsTypeOK, CreatePod, Answered
<1>2. CallShape'
  <2>1. PodsTypeOK /\ CallShape /\ call # NoCall
    BY InCall DEF PodsInv, CreatePod
  <2>2. FreeName \in PodIds /\ FreeName \notin DOMAIN pods
    BY FreeNameFacts DEF CreatePod, AddPod
  <2>3. CASE call.op = "RebootNode"
    BY <2>3 DEF CreatePod, Return, CallShape, NoCall
  <2>4. CASE call.op # "RebootNode"
    <3>1. /\ call'.op = call.op /\ call'.node = call.node
          /\ call'.pc = "poll" /\ call'.pod = FreeName
      BY Zenon, <2>1, <2>2, <2>4, GotPod DEF CreatePod
    <3> QED  BY <2>1, <2>2, <2>4, <3>1 DEF CallShape, CreatePod
  <2> QED  BY <2>3, <2>4
<1>3. Budget'
  BY InCall, BudgetGrows DEF PodsInv, CallShape, CreatePod
<1>4. LeftoverHadFault'
  <2>1. PodsTypeOK /\ CallShape /\ call # NoCall
    BY InCall DEF PodsInv, CreatePod
  <2>2. FreeName \in PodIds /\ FreeName \notin DOMAIN pods
    BY FreeNameFacts DEF CreatePod, AddPod
  <2>3. CASE call.op = "RebootNode"
    BY <2>1, <2>2, <2>3 DEF PodsInv, LeftoverHadFault, CreatePod, AddPod, NewPod, Return,
       CallShape, NoCall
  <2>4. CASE call.op # "RebootNode"
    <3>1. /\ call'.op = call.op /\ call'.node = call.node
          /\ call'.pc = "poll" /\ call'.pod = FreeName
      BY Zenon, <2>1, <2>2, <2>4, GotPod DEF CreatePod
    <3> QED  BY <2>1, <2>2, <2>4, <3>1, PodsAssumption DEF PodsInv, LeftoverHadFault,
         CallShape, CreatePod, AddPod, PodsTypeOK
  <2> QED  BY <2>3, <2>4
<1>5. DoneMeansQuiet'
  BY InCall, ReturnFacts DEF PodsInv, DoneMeansQuiet, CreatePod, AddPod, NewPod, CallShape,
     Answers, Ops
<1> QED  BY <1>1, <1>2, <1>3, <1>4, <1>5 DEF PodsInv

(* IsRebootRequired sees its pod run, or end.                              *)
LEMMA IsPodRunningKeeps ==
    ASSUME PodsInv, IsPodRunning
    PROVE  PodsInv'
<1>1. PodsTypeOK'
  BY InCall, ContinueFacts, DeferFacts DEF PodsInv, PodsTypeOK, IsPodRunning, Answers, Steps
<1>2. CallShape'
  BY ContinueFacts, DeferFacts DEF PodsInv, CallShape, IsPodRunning, Answers, Steps, NoCall
<1>3. Budget'
  BY BudgetSame DEF PodsInv, IsPodRunning
<1>4. LeftoverHadFault'
  BY ContinueFacts, DeferFacts DEF PodsInv, LeftoverHadFault, IsPodRunning, NoCall, Answers,
     Steps
<1>5. DoneMeansQuiet'
  BY InCall, ContinueFacts, DeferFacts DEF PodsInv, DoneMeansQuiet, IsPodRunning, Answers,
     Steps
<1> QED  BY <1>1, <1>2, <1>3, <1>4, <1>5 DEF PodsInv

(* IsNodeRebooted sees its pod end.                                        *)
LEMMA IsPodCompletedKeeps ==
    ASSUME PodsInv, IsPodCompleted
    PROVE  PodsInv'
<1>1. PodsTypeOK'
  BY InCall, DeferFacts DEF PodsInv, PodsTypeOK, IsPodCompleted, Answers
<1>2. CallShape'
  BY DeferFacts DEF PodsInv, CallShape, IsPodCompleted, Answers, NoCall
<1>3. Budget'
  BY BudgetSame DEF PodsInv, IsPodCompleted
<1>4. LeftoverHadFault'
  BY DeferFacts DEF PodsInv, LeftoverHadFault, IsPodCompleted, NoCall, Answers
<1>5. DoneMeansQuiet'
  BY DEF PodsInv, DoneMeansQuiet, IsPodCompleted, CallShape
<1> QED  BY <1>1, <1>2, <1>3, <1>4, <1>5 DEF PodsInv

(* The 30 seconds are over.                                                *)
LEMMA PollTimeoutKeeps ==
    ASSUME PodsInv, PollTimeout
    PROVE  PodsInv'
<1>1. PodsTypeOK'
  BY InCall, DeferFacts DEF PodsInv, PodsTypeOK, PollTimeout, Answers
<1>2. CallShape'
  BY DeferFacts DEF PodsInv, CallShape, PollTimeout, Answers, NoCall
<1>3. Budget'
  BY BudgetSame DEF PodsInv, PollTimeout
<1>4. LeftoverHadFault'
  BY DeferFacts DEF PodsInv, LeftoverHadFault, PollTimeout, NoCall, Answers
<1>5. DoneMeansQuiet'
  BY InCall, DeferFacts DEF PodsInv, DoneMeansQuiet, PollTimeout, Answers
<1> QED  BY <1>1, <1>2, <1>3, <1>4, <1>5 DEF PodsInv

(* IsRebootRequired reads its pod again.                                   *)
LEMMA GetPodKeeps ==
    ASSUME PodsInv, GetPod
    PROVE  PodsInv'
<1>1. PodsTypeOK'
  BY InCall, ContinueFacts DEF PodsInv, PodsTypeOK, GetPod, Steps
<1>2. CallShape'
  BY ContinueFacts DEF PodsInv, CallShape, GetPod, Steps, NoCall
<1>3. Budget'
  BY BudgetSame DEF PodsInv, GetPod
<1>4. LeftoverHadFault'
  BY ContinueFacts DEF PodsInv, LeftoverHadFault, GetPod, NoCall, Steps
<1>5. DoneMeansQuiet'
  BY InCall, ContinueFacts DEF PodsInv, DoneMeansQuiet, GetPod, Steps
<1> QED  BY <1>1, <1>2, <1>3, <1>4, <1>5 DEF PodsInv

(* IsRebootRequired looks for the file.                                    *)
LEMMA ExecCmdKeeps ==
    ASSUME PodsInv, ExecCmd
    PROVE  PodsInv'
<1>1. PodsTypeOK'
  BY InCall, DeferFacts DEF PodsInv, PodsTypeOK, ExecCmd, Answers
<1>2. CallShape'
  BY DeferFacts DEF PodsInv, CallShape, ExecCmd, Answers, NoCall
<1>3. Budget'
  BY BudgetSame DEF PodsInv, ExecCmd
<1>4. LeftoverHadFault'
  BY DeferFacts DEF PodsInv, LeftoverHadFault, ExecCmd, NoCall, Answers
<1>5. DoneMeansQuiet'
  BY InCall, DeferFacts DEF PodsInv, DoneMeansQuiet, ExecCmd, Answers
<1> QED  BY <1>1, <1>2, <1>3, <1>4, <1>5 DEF PodsInv

(* The deferred deletion, and the method returns.                          *)
LEMMA DeletePodKeeps ==
    ASSUME PodsInv, DeletePod
    PROVE  PodsInv'
<1>1. PodsTypeOK'
  <2>1. PodsTypeOK /\ call # NoCall
    BY InCall DEF PodsInv, DeletePod
  <2>2. call.ans \in Answers
    BY <2>1, InCall
  <2>3. call' = NoCall /\ call' \in Calls /\ answer' \in Answered /\ rebooting' \subseteq Nodes
    BY <2>1, <2>2, ReturnFacts DEF DeletePod
  <2> QED  BY <2>1, <2>3 DEF PodsTypeOK, DeletePod, Without, Answered, NoCall
<1>2. CallShape'
  BY InCall, ReturnFacts DEF PodsInv, CallShape, DeletePod, Without, NoCall
<1>3. Budget'
  BY BudgetShrinks DEF PodsInv, DeletePod
<1>4. LeftoverHadFault'
  BY DEF PodsInv, LeftoverHadFault, DeletePod, Without
<1>5. DoneMeansQuiet'
  BY InCall, ReturnFacts DEF PodsInv, DoneMeansQuiet, DeletePod, Without, CallShape
<1> QED  BY <1>1, <1>2, <1>3, <1>4, <1>5 DEF PodsInv

(* CleanupNode deletes what its selectors match, the reboot pods included. *)
LEMMA DeleteCollectionKeeps ==
    ASSUME PodsInv, DeleteCollection
    PROVE  PodsInv'
<1>1. PodsTypeOK'
  <2>1. PodsTypeOK /\ call # NoCall
    BY InCall DEF PodsInv, DeleteCollection
  <2>2. (IF call.op = "IsNodeRebooted" THEN "yes" ELSE "ok") \in Answers
    BY <2>1 DEF Answers
  <2>3. call' = NoCall /\ call' \in Calls /\ answer' \in Answered /\ rebooting' \subseteq Nodes
    BY <2>1, <2>2, ReturnFacts DEF DeleteCollection
  <2> QED  BY <2>1, <2>3 DEF PodsTypeOK, DeleteCollection, Without, Answered, NoCall
<1>2. CallShape'
  BY DEF DeleteCollection, Return, CallShape, NoCall
<1>3. Budget'
  BY BudgetShrinks DEF PodsInv, DeleteCollection
<1>4. LeftoverHadFault'
  BY ReturnFacts DEF PodsInv, LeftoverHadFault, DeleteCollection, Without, CallShape,
     NoCall, Answers
<1>5. DoneMeansQuiet'
  BY InCall, ReturnFacts DEF PodsInv, DoneMeansQuiet, DeleteCollection, Without, Answers,
     Selected, Component, CleanupComponents
<1> QED  BY <1>1, <1>2, <1>3, <1>4, <1>5 DEF PodsInv

(* A request fails without an effect, and the pod of the call is to blame  *)
(* it on.                                                                  *)
LEMMA FailKeeps ==
    ASSUME PodsInv, Fail
    PROVE  PodsInv'
<1>1. PodsTypeOK'
  <2>1. PodsTypeOK /\ call # NoCall
    BY DEF PodsInv, Fail
  <2>2. /\ call' \in Calls /\ answer' \in Answered /\ rebooting' \subseteq Nodes
        /\ call'.pc \in {"none", "delete"}
    <3>1. CASE call.pc \in {"getNode", "create", "cleanup"}
      BY <2>1, <3>1, ReturnFacts DEF Fail, Answers, NoCall
    <3>2. CASE call.pc = "poll"
      BY <2>1, <3>2, DeferFacts DEF Fail, Answers, PodsTypeOK, Answered
    <3>3. CASE call.pc = "get"
      BY <2>1, <3>3, LostPod DEF Fail, Answers, Steps, PodsTypeOK, Answered
    <3>4. CASE call.pc = "exec"
      BY <2>1, <3>4, DeferFacts DEF Fail, Answers, PodsTypeOK, Answered
    <3>5. CASE call.pc = "delete"
      BY <2>1, <3>5, InCall, ReturnFacts DEF Fail, NoCall
    <3> QED  BY <2>1, <3>1, <3>2, <3>3, <3>4, <3>5, InCall DEF Steps
  <2>3. faulty' \subseteq PodIds
    BY <2>1, InCall DEF Fail, Blame, PodsTypeOK
  <2> QED  BY <2>1, <2>2, <2>3, FaultFacts DEF PodsTypeOK, Fail, Answered
<1>2. CallShape'
  <2>1. PodsTypeOK /\ call # NoCall /\ CallShape
    BY DEF PodsInv, Fail
  <2>2. \/ call' = NoCall
        \/ /\ call'.pc = "delete" /\ call'.op = call.op
           /\ call.pc \in {"poll", "get", "exec"}
    <3>1. CASE call.pc \in {"getNode", "create", "cleanup"}
      BY <2>1, <3>1, ReturnFacts DEF Fail, Answers
    <3>2. CASE call.pc = "poll"
      BY <2>1, <3>2, DeferFacts DEF Fail, Answers
    <3>3. CASE call.pc = "get"
      BY <2>1, <3>3, LostPod DEF Fail, Answers, Steps
    <3>4. CASE call.pc = "exec"
      BY <2>1, <3>4, DeferFacts DEF Fail, Answers
    <3>5. CASE call.pc = "delete"
      BY <2>1, <3>5, InCall, ReturnFacts DEF Fail
    <3> QED  BY <2>1, <3>1, <3>2, <3>3, <3>4, <3>5, InCall DEF Steps
  <2> QED  BY <2>1, <2>2 DEF CallShape, Fail, NoCall
<1>3. Budget'
  BY BudgetSame DEF PodsInv, Fail
<1>4. LeftoverHadFault'
  BY PodsAssumption DEF PodsInv, LeftoverHadFault, Fail, Blame, PodsTypeOK
<1>5. DoneMeansQuiet'
  BY InCall, ReturnFacts, DeferFacts DEF PodsInv, DoneMeansQuiet, Fail, Blame, CallShape,
     Answers
<1> QED  BY <1>1, <1>2, <1>3, <1>4, <1>5 DEF PodsInv

(* A pod is created that the method does not learn of.                     *)
LEMMA CreateAnswerLostKeeps ==
    ASSUME PodsInv, CreateAnswerLost
    PROVE  PodsInv'
<1>1. PodsTypeOK'
  <2>1. PodsTypeOK /\ CallShape /\ call # NoCall /\ call.op \in Ops /\ call.node \in Nodes
    BY InCall DEF PodsInv, CreateAnswerLost
  <2>2. FreeName \in PodIds /\ FreeName \notin DOMAIN pods
    BY FreeNameFacts DEF CreateAnswerLost, AddPod
  <2>3. NewPod \in Pods /\ NewPod.node = call.node
    BY <2>1 DEF NewPod, Pods, Kinds, Phases
  <2>4. /\ DOMAIN pods' \subseteq PodIds /\ \A q \in DOMAIN pods' : pods'[q] \in Pods
        /\ FreeName \in DOMAIN pods' /\ pods'[FreeName].node = call.node
    BY <2>1, <2>2, <2>3 DEF CreateAnswerLost, AddPod, PodsTypeOK
  <2>5. created' \in [Nodes -> 0..MaxReboots]
    BY <2>1, PodsAssumption DEF CreateAnswerLost, AddPod, PodsTypeOK, CallShape
  <2>6. call' = NoCall /\ call' \in Calls /\ answer' \in Answered /\ rebooting' \subseteq Nodes
    BY <2>1, ReturnFacts DEF CreateAnswerLost, Answers
  <2> QED
    BY <2>1, <2>2, <2>4, <2>5, <2>6, FaultFacts DEF PodsTypeOK, CreateAnswerLost, Answered,
       NoCall
<1>2. CallShape'
  BY ReturnFacts DEF PodsInv, CallShape, CreateAnswerLost, AddPod, NewPod, Answers, NoCall
<1>3. Budget'
  BY InCall, BudgetGrows DEF PodsInv, CallShape, CreateAnswerLost
<1>4. LeftoverHadFault'
  BY ReturnFacts DEF PodsInv, LeftoverHadFault, CreateAnswerLost, AddPod, NewPod, CallShape,
     NoCall, Answers
<1>5. DoneMeansQuiet'
  BY InCall, ReturnFacts DEF PodsInv, DoneMeansQuiet, CreateAnswerLost, AddPod, NewPod,
     Answers
<1> QED  BY <1>1, <1>2, <1>3, <1>4, <1>5 DEF PodsInv

(* The operator stops in the middle of a call.                             *)
LEMMA CutOffKeeps ==
    ASSUME PodsInv, CutOff
    PROVE  PodsInv'
<1>1. PodsTypeOK'
  <2>1. PodsTypeOK /\ call # NoCall
    BY DEF PodsInv, CutOff
  <2>2. call' = NoCall /\ call' \in Calls /\ answer' \in Answered /\ rebooting' \subseteq Nodes
    BY <2>1, ReturnFacts DEF CutOff, Answers
  <2>3. faulty' \subseteq PodIds
    BY <2>1, InCall DEF CutOff, Blame, PodsTypeOK
  <2> QED  BY <2>1, <2>2, <2>3, FaultFacts DEF PodsTypeOK, CutOff, Answered, NoCall
<1>2. CallShape'
  BY ReturnFacts DEF PodsInv, CallShape, CutOff, Blame, Answers, NoCall
<1>3. Budget'
  BY BudgetSame DEF PodsInv, CutOff
<1>4. LeftoverHadFault'
  BY ReturnFacts DEF PodsInv, LeftoverHadFault, CutOff, Blame, NoCall, Answers
<1>5. DoneMeansQuiet'
  BY ReturnFacts DEF PodsInv, DoneMeansQuiet, CutOff, Blame, Answers
<1> QED  BY <1>1, <1>2, <1>3, <1>4, <1>5 DEF PodsInv

(* A kubelet starts a pod.                                                 *)
LEMMA StartPodKeeps ==
    ASSUME PodsInv, NEW p \in DOMAIN pods, StartPod(p)
    PROVE  PodsInv'
<1>1. PodsTypeOK'
  <2>1. /\ DOMAIN pods' = DOMAIN pods
        /\ \A q \in DOMAIN pods : pods'[q] \in Pods /\ pods'[q].node = pods[q].node
    BY PhaseFacts DEF PodsInv, StartPod, Phases
  <2>2. host' \in [Nodes -> Hosts]
    <3>1. /\ pods[p].node \in Nodes
          /\ (host[pods[p].node].down \/ pods[p].kind = "reboot") \in BOOLEAN
      BY DEF PodsInv, PodsTypeOK, Pods
    <3> QED  BY Zenon, <3>1, HostFacts DEF PodsInv, PodsTypeOK, StartPod
  <2> QED  BY <2>1, <2>2 DEF PodsInv, PodsTypeOK, StartPod, Idle
<1>2. CallShape'
  BY DEF PodsInv, CallShape, StartPod, Idle
<1>3. Budget'
  BY BudgetStart DEF PodsInv
<1>4. LeftoverHadFault'
  BY DEF PodsInv, LeftoverHadFault, StartPod, Idle
<1>5. DoneMeansQuiet'
  BY DEF PodsInv, DoneMeansQuiet, StartPod, Idle
<1> QED  BY <1>1, <1>2, <1>3, <1>4, <1>5 DEF PodsInv

(* A pod ends.                                                             *)
LEMMA FinishPodKeeps ==
    ASSUME PodsInv, NEW p \in DOMAIN pods, FinishPod(p)
    PROVE  PodsInv'
<1>1. PodsTypeOK'
  <2>1. /\ DOMAIN pods' = DOMAIN pods
        /\ \A q \in DOMAIN pods : pods'[q] \in Pods /\ pods'[q].node = pods[q].node
    BY PhaseFacts DEF PodsInv, FinishPod, Phases
  <2>2. host' \in [Nodes -> Hosts]
    <3>1. /\ pods[p].node \in Nodes
          /\ (host[pods[p].node].required /\ pods[p].kind # "reboot-required-remove") \in BOOLEAN
      BY DEF PodsInv, PodsTypeOK, Pods
    <3>2. CASE UNCHANGED host
      BY <3>2 DEF PodsInv, PodsTypeOK
    <3>3. CASE host' = [host EXCEPT ![pods[p].node].required =
                            host[pods[p].node].required /\ pods[p].kind # "reboot-required-remove"]
      BY Zenon, <3>1, <3>3, HostFacts DEF PodsInv, PodsTypeOK
    <3> QED  BY <3>2, <3>3 DEF FinishPod
  <2> QED  BY <2>1, <2>2 DEF PodsInv, PodsTypeOK, FinishPod, Idle
<1>2. CallShape'
  BY DEF PodsInv, CallShape, FinishPod, Idle
<1>3. Budget'
  BY BudgetFinish DEF PodsInv
<1>4. LeftoverHadFault'
  BY DEF PodsInv, LeftoverHadFault, FinishPod, Idle, PodsTypeOK, Pods
<1>5. DoneMeansQuiet'
  BY DEF PodsInv, DoneMeansQuiet, FinishPod, Idle, PodsTypeOK, Pods
<1> QED  BY <1>1, <1>2, <1>3, <1>4, <1>5 DEF PodsInv

(* A host reboots. That its boots stay within their type is due to Budget. *)
LEMMA HostRebootsKeeps ==
    ASSUME PodsInv, NEW n \in Nodes, HostReboots(n)
    PROVE  PodsInv'
<1>1. PodsTypeOK'
  <2>1. /\ DOMAIN pods' = DOMAIN pods
        /\ \A q \in DOMAIN pods : pods'[q] \in Pods /\ pods'[q].node = pods[q].node
    BY DEF PodsInv, HostReboots, AfterReboot, Phases, PodsTypeOK, Pods
  <2>2. host' \in [Nodes -> Hosts]
    <3>1. host[n] \in Hosts /\ host[n].down
      BY DEF PodsInv, PodsTypeOK, HostReboots
    <3>2. host[n].boot + 1 \in 0..MaxReboots
      BY <3>1, WaitingFinite, PodsAssumption DEF PodsInv, PodsTypeOK, Budget, Spent, Hosts
    <3>3. [host[n] EXCEPT !.boot = @ + 1, !.down = FALSE,
                          !.ready = FALSE, !.required = FALSE] \in Hosts
      BY Zenon, <3>1, <3>2 DEF Hosts
    <3> QED  BY <3>3 DEF PodsInv, PodsTypeOK, HostReboots
  <2> QED  BY <2>1, <2>2 DEF PodsInv, PodsTypeOK, HostReboots, Idle
<1>2. CallShape'
  BY DEF PodsInv, CallShape, HostReboots, Idle, AfterReboot
<1>3. Budget'
  BY BudgetReboot DEF PodsInv
<1>4. LeftoverHadFault'
  BY DEF PodsInv, LeftoverHadFault, HostReboots, Idle, AfterReboot
<1>5. DoneMeansQuiet'
  BY DEF PodsInv, DoneMeansQuiet, HostReboots, Idle, AfterReboot
<1> QED  BY <1>1, <1>2, <1>3, <1>4, <1>5 DEF PodsInv

(* A kubelet reports that it is ready.                                     *)
LEMMA KubeletReadyKeeps ==
    ASSUME PodsInv, NEW n \in Nodes, KubeletReady(n)
    PROVE  PodsInv'
<1>1. PodsTypeOK'
  BY Zenon, PodsAssumption DEF PodsInv, PodsTypeOK, KubeletReady, Idle, Answers, Hosts
<1>2. CallShape'
  BY DEF PodsInv, CallShape, KubeletReady, Idle
<1>3. Budget'
  BY BudgetHost DEF PodsInv, KubeletReady, Idle
<1>4. LeftoverHadFault'
  BY DEF PodsInv, LeftoverHadFault, KubeletReady, Idle
<1>5. DoneMeansQuiet'
  BY DEF PodsInv, DoneMeansQuiet, KubeletReady, Idle
<1> QED  BY <1>1, <1>2, <1>3, <1>4, <1>5 DEF PodsInv

(* A package asks for a reboot, or somebody cordons or uncordons.          *)
LEMMA HostChangesKeeps ==
    ASSUME PodsInv, NEW n \in Nodes, HostChanges(n)
    PROVE  PodsInv'
<1>1. PodsTypeOK'
  <2>1. host' \in [Nodes -> Hosts]
    <3>1. (~host[n].cordoned) \in BOOLEAN
      OBVIOUS
    <3>2. CASE host' = [host EXCEPT ![n].required = TRUE]
      BY Zenon, <3>2, HostFacts DEF PodsInv, PodsTypeOK
    <3>3. CASE host' = [host EXCEPT ![n].cordoned = ~host[n].cordoned]
      BY Zenon, <3>1, <3>3, HostFacts DEF PodsInv, PodsTypeOK
    <3> QED  BY <3>2, <3>3 DEF HostChanges
  <2> QED  BY <2>1, PodsAssumption DEF PodsInv, PodsTypeOK, HostChanges, Idle
<1>2. CallShape'
  BY DEF PodsInv, CallShape, HostChanges, Idle
<1>3. Budget'
  BY BudgetHost DEF PodsInv, PodsTypeOK, Hosts, HostChanges, Idle
<1>4. LeftoverHadFault'
  BY DEF PodsInv, LeftoverHadFault, HostChanges, Idle
<1>5. DoneMeansQuiet'
  BY DEF PodsInv, DoneMeansQuiet, HostChanges, Idle
<1> QED  BY <1>1, <1>2, <1>3, <1>4, <1>5 DEF PodsInv

-----------------------------------------------------------------------------
(* The invariant holds in a cluster without helper pods.                   *)
LEMMA InitHolds == Init => PodsInv
<1> SUFFICES ASSUME Init
             PROVE  PodsInv
  OBVIOUS
<1>1. DOMAIN pods = {}
  BY DEF Init
<1>2. PodsTypeOK
  BY <1>1, PodsAssumption DEF Init, PodsTypeOK, Calls, Hosts, NoCall, Answers
<1>3. CallShape
  BY DEF Init, CallShape, NoCall
<1>4. Budget
  <2>1. \A n : Waiting(n) = {}
    BY <1>1 DEF Waiting
  <2>2. \A n \in Nodes : Spent(n) = 0 /\ created[n] = 0
    BY DEF Init, Spent
  <2> QED  BY <1>1, <2>1, <2>2, FS_EmptySet DEF Budget
<1>5. LeftoverHadFault /\ DoneMeansQuiet
  BY <1>1 DEF LeftoverHadFault, DoneMeansQuiet
<1> QED  BY <1>2, <1>3, <1>4, <1>5 DEF PodsInv

(* Every step keeps the invariant.                                         *)
LEMMA NextKeeps == PodsInv /\ [Next]_vars => PodsInv'
<1> SUFFICES ASSUME PodsInv, [Next]_vars
             PROVE  PodsInv'
  OBVIOUS
<1>1. CASE UNCHANGED vars
  BY <1>1, BudgetSame DEF vars, PodsInv, PodsTypeOK, CallShape, LeftoverHadFault,
     DoneMeansQuiet
<1>2. ASSUME NEW n \in Nodes,
             \/ CallIsRebootRequired(n) \/ CallRebootNode(n) \/ CallCleanupNode(n)
             \/ CallIsNodeRebooted(n) \/ NotRebooted(n)
      PROVE  PodsInv'
  BY <1>2, CallIsRebootRequiredKeeps, CallRebootNodeKeeps, CallCleanupNodeKeeps,
     CallIsNodeRebootedKeeps, NotRebootedKeeps
<1>3. CASE Request
  BY <1>3, GetNodeKeeps, CreatePodKeeps, IsPodRunningKeeps, IsPodCompletedKeeps,
     PollTimeoutKeeps, GetPodKeeps, ExecCmdKeeps, DeletePodKeeps, DeleteCollectionKeeps
     DEF Request
<1>4. CASE Fail \/ CreateAnswerLost \/ CutOff
  BY <1>4, FailKeeps, CreateAnswerLostKeeps, CutOffKeeps
<1>5. ASSUME NEW p \in DOMAIN pods, StartPod(p) \/ FinishPod(p)
      PROVE  PodsInv'
  BY <1>5, StartPodKeeps, FinishPodKeeps
<1>6. ASSUME NEW n \in Nodes, HostReboots(n) \/ KubeletReady(n) \/ HostChanges(n)
      PROVE  PodsInv'
  BY <1>6, HostRebootsKeeps, KubeletReadyKeeps, HostChangesKeeps
<1> QED  BY <1>1, <1>2, <1>3, <1>4, <1>5, <1>6 DEF Next

(* In every behaviour of reboot manager, kubelets and hosts, through       *)
(* failing requests, lost answers and stops of the operator, the invariant *)
(* holds.                                                                  *)
THEOREM PodsInvariant == Spec => []PodsInv
<1> QED  BY InitHolds, NextKeeps, PTL DEF Spec

(* The variables keep their types, and the pod that IsPodRunning,          *)
(* IsPodCompleted, Get and exec ask for is there and on the node of the    *)
(* call.                                                                   *)
THEOREM PodsTyped == Spec => []PodsTypeOK
<1>1. PodsInv => PodsTypeOK
  BY DEF PodsInv
<1> QED  BY <1>1, PodsInvariant, PTL

(* The deferred deletions work: a helper pod that no call is using is      *)
(* there only because a request of its own call failed or the call was cut *)
(* off.                                                                    *)
THEOREM OnlyFaultsLeavePods == Spec => []LeftoverHadFault
<1>1. PodsInv => LeftoverHadFault
  BY DEF PodsInv
<1> QED  BY <1>1, PodsInvariant, PTL

(* CleanupNode comes before the answer: once IsNodeRebooted has said yes   *)
(* for a host, no reboot pod of it is left, and none comes before the next *)
(* answer.                                                                 *)
THEOREM RebootedIsQuiet == Spec => []DoneMeansQuiet
<1>1. PodsInv => DoneMeansQuiet
  BY DEF PodsInv
<1> QED  BY <1>1, PodsInvariant, PTL

(* RestartPolicy Never and one pod for each RebootNode: a host reboots at  *)
(* most as often as reboot pods were created for it, however often         *)
(* operator and hosts restart.                                             *)
THEOREM OneReboot == Spec => []OneRebootPerPod
<1>1. ASSUME PodsInv, NEW n \in Nodes
      PROVE  host[n].boot <= created[n]
  <2>1. Cardinality(Waiting(n)) \in Nat
    BY <1>1, WaitingFinite DEF PodsInv
  <2>2. host[n].boot \in Nat /\ created[n] \in Nat
    BY <1>1 DEF PodsInv, PodsTypeOK, Hosts
  <2> QED  BY <1>1, <2>1, <2>2 DEF PodsInv, Budget, Spent
<1>2. PodsInv => OneRebootPerPod
  BY <1>1 DEF OneRebootPerPod
<1> QED  BY <1>2, PodsInvariant, PTL
=============================================================================
