-------------------------- MODULE MCNodeController --------------------------
(***************************************************************************)
(* Small instances of NodeController for TLC.  Nothing in the model tells  *)
(* one node from another, so the runs that check no liveness identify      *)
(* states that differ in the names of the nodes only.                      *)
(***************************************************************************)
EXTENDS NodeController, TLC

NodeSymmetry == Permutations(Nodes)
=============================================================================
