---------------------------- MODULE MCPiSession ----------------------------
(* Instances of a Pi session for TLC. *)
EXTENDS PiSession, TLC

Symmetry == Permutations(Prompts)
=============================================================================
