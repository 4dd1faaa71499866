-------------------------- MODULE MCPromptService --------------------------
(* PromptService on small sets.                                            *)
EXTENDS PromptService, TLC

Symmetry == Permutations(Handlers) \union Permutations(Ids) \union Permutations(Digests)
=============================================================================
