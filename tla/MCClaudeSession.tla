-------------------------- MODULE MCClaudeSession --------------------------
(* Small instances of ClaudeSession for TLC.                               *)
EXTENDS ClaudeSession, TLC

Symmetry == Permutations(Prompts) \union Permutations(Efforts)

=============================================================================
