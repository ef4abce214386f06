------------------------- MODULE MCLayoutDocuments -------------------------
(* LayOut operations with two identities and two operation ids.            *)
EXTENDS LayoutDocuments, TLC

CONSTANTS g1, g2, x, y

MCGuids == {g1, g2}
MCIds == {x, y}
Symmetric == Permutations(MCGuids) \cup Permutations(MCIds)
=============================================================================
