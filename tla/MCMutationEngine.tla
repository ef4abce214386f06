-------------------------- MODULE MCMutationEngine --------------------------
(* The mutation engine with two identities and two operation ids.          *)
EXTENDS MutationEngine, TLC

CONSTANTS g1, g2, x, y

MCGuids == {g1, g2}
MCIds == {x, y}
Symmetric == Permutations(MCGuids) \cup Permutations(MCIds)
=============================================================================
