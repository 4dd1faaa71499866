-------------------------- MODULE MCControlChannel --------------------------
(* ControlChannel with a few interchangeable calls.                        *)
EXTENDS ControlChannel, TLC

Symmetry == Permutations(Calls)
=============================================================================
