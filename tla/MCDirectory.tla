---------------------------- MODULE MCDirectory ----------------------------
(* Directory on small sets.  Thread ids are ordered, so they are no        *)
(* symmetry set; writers and loads are.                                    *)
EXTENDS Directory, TLC

\* Bound: the database holds thread 1 at the start, and thread 2 or not.
HoldsOne == ops = 0 => Exists(1)

Symmetry == Permutations(Writers) \union Permutations(Loads)
=============================================================================
