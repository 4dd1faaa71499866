------------------------------- MODULE MCHub -------------------------------
(* Hub on small sets, with its subscriptions interchangeable.              *)
EXTENDS Hub, TLC

Symmetry == Permutations(Subs) \union Permutations(Threads)
=============================================================================
