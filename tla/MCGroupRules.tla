---------------------------- MODULE MCGroupRules ----------------------------
(* Instances of GroupRules for TLC. *)
EXTENDS GroupRules
=============================================================================
