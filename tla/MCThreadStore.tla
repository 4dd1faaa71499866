---------------------------- MODULE MCThreadStore ----------------------------
(* Instances of a tab for TLC. *)
EXTENDS ThreadStore
=============================================================================
