--------------------------- MODULE DrainLifecycle ---------------------------
(***************************************************************************)
(* What the operator promises about the way nodes go through a drain: at   *)
(* most one node of the cluster is being worked on, it got there through   *)
(* the queue, and it takes the phases of a drain in order.                 *)
(*                                                                         *)
(* "out" stands for every current state in which the operator leaves the   *)
(* node alone: OK, Cordoned, and the unset state of a new object.          *)
(***************************************************************************)
CONSTANT Nodes
VARIABLE phase

Working == {"next", "draining", "drained", "rebooting", "undraining"}
Phases == {"out", "queued"} \cup Working

\* The steps inside the working slot.  A node that somebody uncordons while it
\* reboots is drained anew.
Order == {<<"next", "draining">>, <<"draining", "drained">>,
          <<"drained", "rebooting">>, <<"rebooting", "drained">>,
          <<"draining", "undraining">>, <<"drained", "undraining">>,
          <<"rebooting", "undraining">>}

Enter(n) ==
    /\ phase[n] = "out"
    /\ phase' = [phase EXCEPT ![n] = "queued"]

Grant(n) ==
    /\ phase[n] = "queued"
    /\ \A m \in Nodes : phase[m] \notin Working
    /\ phase' = [phase EXCEPT ![n] = "next"]

Advance(n) ==
    \E p \in Working :
        /\ <<phase[n], p>> \in Order
        /\ phase' = [phase EXCEPT ![n] = p]

\* The node is done, or whoever asked for the drain changed their mind.
Leave(n) ==
    /\ phase[n] # "out"
    /\ phase' = [phase EXCEPT ![n] = "out"]

Init == phase = [n \in Nodes |-> "out"]
Next == \E n \in Nodes : Enter(n) \/ Grant(n) \/ Advance(n) \/ Leave(n)
Spec == Init /\ [][Next]_phase
=============================================================================
