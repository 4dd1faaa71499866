-------------------------- MODULE MCOpenCodeBackend --------------------------
(* Instances of the OpenCode backend for TLC. *)
EXTENDS OpenCodeBackend, TLC

\* The behaviours are followed up to their first mishap.
UntilMishap == ~h.slipped

Symmetry == Permutations(Prompts)
=============================================================================
