----------------------------- MODULE PluginParty -----------------------------
(***************************************************************************)
(* What the drain manager promises its caller, the reconciler: all plugins *)
(* together are one party.  A call of the party is answered "ok" only if   *)
(* nobody in it spoke against, nobody is told PreDrain or PostDrain after  *)
(* one has failed, and after a PostDrain that is "ok" the party is owed    *)
(* nothing.  NodeController's actions Vet, RunPreDrain and RunPostDrain    *)
(* rest on exactly this.                                                   *)
(***************************************************************************)

VARIABLES
    op,       \* the call being made, "none" between calls
    owed,     \* was the party told PreDrain without a PostDrain since?
    against,  \* has a member refused or failed in this call?
    result    \* what the last call returned

partyVars == <<op, owed, against, result>>

PartyOps == {"IsHealthy", "IsDrainOk", "PreDrain", "PostDrain"}
Results == {"none", "ok", "no", "error"}

PartyInit == op = "none" /\ owed = FALSE /\ against = FALSE /\ result = "none"

Call(o) ==
    /\ op = "none"
    /\ op' = o /\ against' = FALSE /\ result' = "none"
    /\ UNCHANGED owed

Tell == op = "PreDrain" /\ ~against /\ owed' = TRUE /\ UNCHANGED <<op, against, result>>

Settle == op = "PostDrain" /\ ~against /\ owed' = FALSE /\ UNCHANGED <<op, against, result>>

Object == op # "none" /\ against' = TRUE /\ UNCHANGED <<op, owed, result>>

(* A failing answer may come with the objection that causes it.            *)
Answer(r) ==
    /\ op # "none"
    /\ r = "ok" => ~against /\ ~(op = "PostDrain" /\ owed)
    /\ op' = "none" /\ result' = r
    /\ against' \in (IF r = "ok" THEN {against} ELSE BOOLEAN)
    /\ UNCHANGED owed

PartyNext ==
    \/ \E o \in PartyOps : Call(o)
    \/ Tell \/ Settle \/ Object
    \/ \E r \in Results \ {"none"} : Answer(r)

PartySpec == PartyInit /\ [][PartyNext]_partyVars
=============================================================================
