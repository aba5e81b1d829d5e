--------------------------- MODULE RebootManager ---------------------------
(***************************************************************************)
(* The reboot manager (internal/utils/reboot-manager.go, with the pod      *)
(* helpers of utils.go) request by request: the helper pods it creates,    *)
(* polls, executes in and deletes, the kubelets that run them and the      *)
(* hosts they look at, clean or reboot.                                    *)
(*                                                                         *)
(* NodeController has each method as one step; here call.pc names the      *)
(* request the running method makes next, and kubelets, hosts and users    *)
(* act between two requests.  The reconciler has one worker, so one method *)
(* runs at a time.  Any request may fail without an effect (Fail), a       *)
(* creation may have its answer lost (CreateAnswerLost), and the operator  *)
(* may stop in the middle (CutOff); all of them count against MaxFaults.   *)
(*                                                                         *)
(* Simplifications: deleting a pod and its end are one step; the kubelet   *)
(* does not start a pod that is being deleted; a poll that sees no change  *)
(* is a stuttering step; when 30 seconds are over is a free choice.        *)
(***************************************************************************)
EXTENDS Naturals, FiniteSets

CONSTANTS
    Nodes,      \* the cluster's nodes
    PodIds,     \* names for pods; a deleted pod's name may be used again
    NoPod,      \* no pod
    NoNode,     \* no node
    MaxFaults,  \* bound on failing requests and stops of the operator
    MaxEvents,  \* bound on what users and the hosts' package managers do
    MaxReboots  \* bound on the reboot pods created for a node

ASSUME PodsAssumption ==
    /\ NoPod \notin PodIds
    /\ NoNode \notin Nodes
    /\ MaxFaults \in Nat /\ MaxEvents \in Nat /\ MaxReboots \in Nat

VARIABLES
    container,  \* config containerNode, fixed when the operator starts
    pods,       \* the pods in the API server: a function on some of PodIds
    call,       \* the method the reconciler is calling
    answer,     \* what the last method returned
    rebooting,  \* nodes the reconciler has in the current state Rebooting
    saved,      \* status.bootID, saved by the reconciler before RebootNode
    host,       \* the hosts: boot, reboot-required file, cordon, readiness
    created,    \* history: reboot pods created for each node
    faulty,     \* history: pods whose call had a request fail or was cut off
    faults, events

vars == <<container, pods, call, answer, rebooting, saved, host, created,
          faulty, faults, events>>

Ops == {"IsRebootRequired", "RebootNode", "IsNodeRebooted", "CleanupNode"}
Steps == {"getNode", "create", "poll", "get", "exec", "delete", "cleanup"}
Kinds == {"reboot-required", "reboot-required-remove", "reboot"}
Phases == {"Pending", "Running", "Succeeded", "Failed"}
Answers == {"yes", "no", "ok", "error"}

Pods == [kind : Kinds, node : Nodes, phase : Phases]
NoCall == [op |-> "none", node |-> NoNode, pc |-> "none", pod |-> NoPod, ans |-> "error"]
Calls == {NoCall} \cup
    [op : Ops, node : Nodes, pc : Steps, pod : PodIds \cup {NoPod}, ans : Answers]
Hosts == [boot : 0..MaxReboots, down : BOOLEAN, ready : BOOLEAN,
          required : BOOLEAN, cordoned : BOOLEAN]

(* The component label of a pod: the pod that removes the file is built    *)
(* from the one that looks for it and keeps its label.                     *)
Component(kind) == IF kind = "reboot" THEN "reboot" ELSE "reboot-required"

(* What CleanupNode's selectors match.                                     *)
CleanupComponentsHelpersOnly == {"reboot-required"}
CleanupComponents == {"reboot-required", "reboot"}
Selected(n) == {p \in DOMAIN pods : /\ Component(pods[p].kind) \in CleanupComponents
                                    /\ pods[p].node = n}

(* RestartPolicy Never: a pod whose containers were stopped by a reboot is *)
(* not started again.                                                      *)
AfterRebootAlways(pod) == [pod EXCEPT !.phase = "Pending"]
AfterReboot(pod) == [pod EXCEPT !.phase = IF @ = "Running" THEN "Failed" ELSE @]

Init ==
    /\ container \in BOOLEAN
    /\ pods = [p \in {} |-> NoPod]
    /\ call = NoCall
    /\ answer = NoCall
    /\ rebooting = {}
    /\ saved = [n \in Nodes |-> 0]
    /\ host = [n \in Nodes |-> [boot |-> 0, down |-> FALSE, ready |-> TRUE,
                                required |-> FALSE, cordoned |-> FALSE]]
    /\ created = [n \in Nodes |-> 0]
    /\ faulty = {}
    /\ faults = 0 /\ events = 0

-----------------------------------------------------------------------------
(* The caller: nodeReconciler, one method at a time.                       *)

Start(op, n, pc) ==
    /\ call = NoCall
    /\ PodIds \ DOMAIN pods # {}
    /\ call' = [op |-> op, node |-> n, pc |-> pc, pod |-> NoPod, ans |-> "error"]
    /\ UNCHANGED <<container, pods, answer, rebooting, host, created, faulty, faults, events>>

CallIsRebootRequired(n) ==
    /\ n \notin rebooting
    /\ Start("IsRebootRequired", n, "getNode")
    /\ UNCHANGED saved

(* The boot ID is saved, then the reboot pod is created.                   *)
CallRebootNode(n) ==
    /\ n \notin rebooting
    /\ created[n] < MaxReboots
    /\ Start("RebootNode", n, "getNode")
    /\ saved' = [saved EXCEPT ![n] = host[n].boot]

CallCleanupNode(n) ==
    /\ n \notin rebooting
    /\ Start("CleanupNode", n, "cleanup")
    /\ UNCHANGED saved

(* A host is compared with the cached object; only a host that is up again *)
(* leads to a request.                                                     *)
BootChangedInverted(n) == host[n].boot = saved[n]
BootChanged(n) == host[n].boot # saved[n]
CallIsNodeRebooted(n) ==
    /\ n \in rebooting
    /\ \/ container /\ Start("IsNodeRebooted", n, "create")
       \/ ~container /\ BootChanged(n) /\ host[n].ready /\ Start("IsNodeRebooted", n, "cleanup")
    /\ UNCHANGED saved

NotRebooted(n) ==
    /\ call = NoCall
    /\ n \in rebooting /\ ~container
    /\ ~(BootChanged(n) /\ host[n].ready)
    /\ answer' = [NoCall EXCEPT !.op = "IsNodeRebooted", !.node = n, !.ans = "no"]
    /\ UNCHANGED <<container, pods, call, rebooting, saved, host, created, faulty, faults, events>>

(* The method returns v, and the reconciler records what it learned.       *)
Return(v) ==
    /\ call' = NoCall
    /\ answer' = [NoCall EXCEPT !.op = call.op, !.node = call.node, !.ans = v]
    /\ rebooting' = CASE call.op = "RebootNode" /\ v = "ok" -> rebooting \cup {call.node}
                      [] call.op = "IsNodeRebooted" /\ v = "yes" -> rebooting \ {call.node}
                      [] OTHER -> rebooting

Continue(pc) == call' = [call EXCEPT !.pc = pc] /\ UNCHANGED <<answer, rebooting>>

(* The deferred deletion runs before the method returns a.                 *)
Defer(a) == call' = [call EXCEPT !.pc = "delete", !.ans = a] /\ UNCHANGED <<answer, rebooting>>

-----------------------------------------------------------------------------
(* The requests of the methods.                                            *)

GetNode ==
    /\ call.pc = "getNode"
    /\ CASE call.op = "IsRebootRequired" -> Continue("create")
         [] call.op = "RebootNode" /\ ~host[call.node].cordoned -> Return("error")
         [] call.op = "RebootNode" /\ host[call.node].cordoned /\ container -> Return("ok")
         [] OTHER -> Continue("create")
    /\ UNCHANGED <<container, pods, saved, host, created, faulty, faults, events>>

NewPod == [kind |-> CASE call.op = "IsRebootRequired" -> "reboot-required"
                      [] call.op = "IsNodeRebooted" -> "reboot-required-remove"
                      [] OTHER -> "reboot",
           node |-> call.node,
           phase |-> "Pending"]

(* GenerateName: some name that no pod has.                                *)
FreeName == CHOOSE p \in PodIds : p \notin DOMAIN pods

AddPod ==
    /\ PodIds \ DOMAIN pods # {}
    /\ pods' = [p \in DOMAIN pods \cup {FreeName} |->
                   IF p = FreeName THEN NewPod ELSE pods[p]]
    /\ created' = IF call.op = "RebootNode"
                  THEN [created EXCEPT ![call.node] = @ + 1] ELSE created

CreatePodUnnamed ==
    /\ call.pc = "create"
    /\ AddPod
    /\ IF call.op = "RebootNode" THEN Return("ok") ELSE Continue("poll")
    /\ UNCHANGED <<container, saved, host, faulty, faults, events>>
CreatePod ==
    /\ call.pc = "create"
    /\ AddPod
    /\ IF call.op = "RebootNode"
       THEN Return("ok")
       ELSE /\ call' = [call EXCEPT !.pc = "poll", !.pod = FreeName]
            /\ UNCHANGED <<answer, rebooting>>
    /\ UNCHANGED <<container, saved, host, faulty, faults, events>>

(* IsPodRunning and IsPodCompleted, asked once a second for 30 seconds.    *)
IsPodRunning ==
    /\ call.pc = "poll" /\ call.op = "IsRebootRequired"
    /\ \/ pods[call.pod].phase = "Running" /\ Continue("get")
       \/ pods[call.pod].phase \in {"Succeeded", "Failed"} /\ Defer("error")
    /\ UNCHANGED <<container, pods, saved, host, created, faulty, faults, events>>

IsPodCompleted ==
    /\ call.pc = "poll" /\ call.op = "IsNodeRebooted"
    /\ pods[call.pod].phase \in {"Succeeded", "Failed"}
    /\ Defer("yes")
    /\ UNCHANGED <<container, pods, saved, host, created, faulty, faults, events>>

PollTimeoutNever ==
    /\ FALSE
    /\ UNCHANGED vars
PollTimeout ==
    /\ call.pc = "poll"
    /\ Defer("error")
    /\ UNCHANGED <<container, pods, saved, host, created, faulty, faults, events>>

GetPod ==
    /\ call.pc = "get"
    /\ Continue("exec")
    /\ UNCHANGED <<container, pods, saved, host, created, faulty, faults, events>>

(* test -f /host/var/run/reboot-required in the pod.  A command that       *)
(* cannot be run counts as a file that is not there.                       *)
ExecCmd ==
    /\ call.pc = "exec"
    /\ \/ pods[call.pod].phase = "Running" /\ host[call.node].required /\ Defer("yes")
       \/ ~(pods[call.pod].phase = "Running" /\ host[call.node].required) /\ Defer("no")
    /\ UNCHANGED <<container, pods, saved, host, created, faulty, faults, events>>

Without(S) == [p \in DOMAIN pods \ S |-> pods[p]]

(* The deferred deletion, by the name the local pod has by now.            *)
DeletePodForgotten ==
    /\ call.pc = "delete"
    /\ Return(call.ans)
    /\ UNCHANGED <<container, pods, saved, host, created, faulty, faults, events>>
DeletePod ==
    /\ call.pc = "delete"
    /\ pods' = Without({call.pod})
    /\ faulty' = faulty \ {call.pod}
    /\ Return(call.ans)
    /\ UNCHANGED <<container, saved, host, created, faults, events>>

DeleteCollection ==
    /\ call.pc = "cleanup"
    /\ pods' = Without(Selected(call.node))
    /\ faulty' = faulty \ Selected(call.node)
    /\ Return(IF call.op = "IsNodeRebooted" THEN "yes" ELSE "ok")
    /\ UNCHANGED <<container, saved, host, created, faults, events>>

-----------------------------------------------------------------------------
(* What may go wrong.                                                      *)

Fault == faults < MaxFaults /\ faults' = faults + 1
Blame == faulty' = faulty \cup ({call.pod} \ {NoPod})

(* The request fails and has no effect.  A failing Get leaves an empty     *)
(* object in pod, and with it nothing for the deferred deletion to name;   *)
(* a failing exec is not an error.                                         *)
Fail ==
    /\ call # NoCall
    /\ Fault
    /\ CASE call.pc \in {"getNode", "create", "cleanup"} -> Return("error")
         [] call.pc = "poll" -> Defer("error")
         [] call.pc = "get" ->
              /\ call' = [call EXCEPT !.pc = "delete", !.ans = "error", !.pod = NoPod]
              /\ UNCHANGED <<answer, rebooting>>
         [] call.pc = "exec" -> Defer("no")
         [] OTHER -> Return(call.ans)
    /\ Blame
    /\ UNCHANGED <<container, pods, saved, host, created, events>>

(* The pod exists, and the method sees an error.                           *)
CreateAnswerLost ==
    /\ call.pc = "create"
    /\ Fault
    /\ AddPod
    /\ faulty' = faulty \cup {FreeName}
    /\ Return("error")
    /\ UNCHANGED <<container, saved, host, events>>

(* The operator stops: the call's context is cancelled, the deferred       *)
(* deletion uses the same context.                                         *)
CutOff ==
    /\ call # NoCall
    /\ Fault
    /\ Return("error")
    /\ Blame
    /\ UNCHANGED <<container, pods, saved, host, created, events>>

-----------------------------------------------------------------------------
(* Kubelets and hosts.                                                     *)

Idle == UNCHANGED <<container, call, answer, rebooting, saved, created, faulty, faults>>

(* A reboot pod's command tells init to reboot the host.                   *)
StartPod(p) ==
    LET n == pods[p].node IN
    /\ pods[p].phase = "Pending" /\ ~host[n].down
    /\ pods' = [pods EXCEPT ![p].phase = "Running"]
    /\ host' = [host EXCEPT ![n].down = @ \/ pods[p].kind = "reboot"]
    /\ Idle /\ UNCHANGED events

(* sleep 300 ends; rm -f removes the file or fails.                        *)
FinishPod(p) ==
    LET n == pods[p].node IN
    /\ pods[p].phase = "Running" /\ ~host[n].down
    /\ \/ /\ pods' = [pods EXCEPT ![p].phase = "Succeeded"]
          /\ host' = [host EXCEPT ![n].required = @ /\ pods[p].kind # "reboot-required-remove"]
       \/ /\ pods[p].kind = "reboot-required-remove"
          /\ pods' = [pods EXCEPT ![p].phase = "Failed"]
          /\ UNCHANGED host
    /\ Idle /\ UNCHANGED events

(* The host goes down and comes up with a new boot ID and an empty         *)
(* /var/run; its kubelet reports readiness later.                          *)
HostReboots(n) ==
    /\ host[n].down
    /\ host' = [host EXCEPT ![n].boot = @ + 1, ![n].down = FALSE,
                            ![n].ready = FALSE, ![n].required = FALSE]
    /\ pods' = [p \in DOMAIN pods |-> IF pods[p].node = n
                                      THEN AfterReboot(pods[p]) ELSE pods[p]]
    /\ Idle /\ UNCHANGED events

KubeletReady(n) ==
    /\ ~host[n].ready /\ ~host[n].down
    /\ host' = [host EXCEPT ![n].ready = TRUE]
    /\ Idle /\ UNCHANGED <<pods, events>>

(* A package asks for a reboot; the reconciler or a user cordons or        *)
(* uncordons.                                                              *)
HostChanges(n) ==
    /\ events < MaxEvents /\ events' = events + 1
    /\ \/ host' = [host EXCEPT ![n].required = TRUE]
       \/ host' = [host EXCEPT ![n].cordoned = ~@]
    /\ Idle /\ UNCHANGED pods

-----------------------------------------------------------------------------
Request ==
    \/ GetNode \/ CreatePod \/ IsPodRunning \/ IsPodCompleted
    \/ PollTimeout \/ GetPod \/ ExecCmd \/ DeletePod \/ DeleteCollection

Next ==
    \/ \E n \in Nodes : \/ CallIsRebootRequired(n) \/ CallRebootNode(n)
                        \/ CallCleanupNode(n) \/ CallIsNodeRebooted(n) \/ NotRebooted(n)
                        \/ HostReboots(n) \/ KubeletReady(n) \/ HostChanges(n)
    \/ \E p \in DOMAIN pods : StartPod(p) \/ FinishPod(p)
    \/ Request \/ Fail \/ CreateAnswerLost \/ CutOff

Spec == Init /\ [][Next]_vars

(* If helper pods are waited for again and again, some complete within the *)
(* 30 seconds.                                                             *)
PodsGetRun ==
    []<>(call.op = "IsNodeRebooted" /\ call.pc = "poll") => []<><<IsPodCompleted>>_vars

(* A started method goes on; a host told to reboot does, and its kubelet   *)
(* comes back; the reconciler asks again for a node that is rebooting.     *)
(* No pod has to run: its image may be missing.                            *)
FairSpec ==
    /\ Spec
    /\ WF_vars(Request)
    /\ PodsGetRun
    /\ \A n \in Nodes : /\ WF_vars(HostReboots(n)) /\ WF_vars(KubeletReady(n))
                        /\ SF_vars(CallIsNodeRebooted(n))

-----------------------------------------------------------------------------
(* Properties.                                                             *)

(* The variables have their types; a method that waits for a pod waits for *)
(* a pod that exists and is its own, which IsPodRunning, IsPodCompleted    *)
(* and the deferred deletion rely on.                                      *)
PodsTypeOK ==
    /\ container \in BOOLEAN
    /\ DOMAIN pods \subseteq PodIds /\ \A p \in DOMAIN pods : pods[p] \in Pods
    /\ call \in Calls
    /\ answer \in [op : Ops \cup {"none"}, node : Nodes \cup {NoNode}, pc : {"none"},
                   pod : {NoPod}, ans : Answers]
    /\ rebooting \subseteq Nodes
    /\ saved \in [Nodes -> 0..MaxReboots] /\ created \in [Nodes -> 0..MaxReboots]
    /\ host \in [Nodes -> Hosts]
    /\ faulty \subseteq PodIds
    /\ faults \in 0..MaxFaults /\ events \in 0..MaxEvents
    /\ call.pc \in {"poll", "get", "exec"} =>
         call.pod \in DOMAIN pods /\ pods[call.pod].node = call.node

(* IsRebootRequired and IsNodeRebooted leave no helper pod behind: one     *)
(* that is not in use by the running call is there only because a request  *)
(* of its own call failed or the call was cut off (deferred deletions).    *)
LeftoverHadFault ==
    \A p \in DOMAIN pods :
        pods[p].kind # "reboot" => p = call.pod \/ p \in faulty

(* When IsNodeRebooted has said yes for a host, no reboot pod is left that *)
(* could reboot it once more (CleanupNode before the answer).              *)
DoneMeansQuiet ==
    (answer.op = "IsNodeRebooted" /\ answer.ans = "yes" /\ ~container) =>
        \A p \in DOMAIN pods :
            ~(pods[p].kind = "reboot" /\ pods[p].node = answer.node)

(* A host reboots at most once for each reboot pod, although the pod is    *)
(* still there when the host comes up again (RestartPolicy Never).         *)
OneRebootPerPod == \A n \in Nodes : host[n].boot <= created[n]

(* Every method returns, whether or not its pod ever runs (30 seconds).    *)
CallReturns == (call # NoCall) ~> (call = NoCall)

(* A node that is waited for is found to have rebooted, host or container, *)
(* once its host has come up again (IsNodeRebooted).                       *)
RebootNoticed ==
    \A n \in Nodes : (n \in rebooting /\ (container \/ host[n].boot # saved[n])) ~> (n \notin rebooting)
=============================================================================
