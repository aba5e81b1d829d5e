-------------------------- MODULE MCRebootManager --------------------------
(* Small instances of RebootManager for TLC. *)
EXTENDS RebootManager
=============================================================================
