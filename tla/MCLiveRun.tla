----------------------------- MODULE MCLiveRun -----------------------------
(* A fixture of a section plane and two scenes.                            *)
EXTENDS LiveRun, TLC

CONSTANTS g1, g2, s, c, d

MCGuids == {g1, g2}
MCSections == {s}
MCScenes == {c, d}
Symmetric == Permutations(MCGuids)
=============================================================================
