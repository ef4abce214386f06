----------------------------- MODULE MCSessions -----------------------------
(* The registry with a steady session and one that comes and goes.         *)
EXTENDS Sessions, TLC

CONSTANTS p, q, steady, shaky, c1, c2, c3, c4

TwoProcs == {p, q}
ShakySid == {shaky}
NoSid == {}
TwoSids == {steady, shaky}
SteadySid == {steady}
Pool == {c1, c2, c3, c4}
Callers == Permutations(TwoProcs)
=============================================================================
