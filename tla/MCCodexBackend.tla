--------------------------- MODULE MCCodexBackend ---------------------------
(* Instances of the Codex backend for TLC. *)
EXTENDS CodexBackend, TLC

Symmetry == Permutations(Prompts)
=============================================================================
