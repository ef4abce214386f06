--------------------------- MODULE MCBridgeServer ---------------------------
(* Instances of the bridge: one peer that sends anything, several that     *)
(* send well-formed requests.                                              *)
EXTENDS BridgeServer, TLC

CONSTANTS c1, c2, r1, r2, r3

OneConn == {c1}
TwoConns == {c1, c2}
OneId == {r1}
ThreeIds == {r1, r2, r3}
AllKinds == Handshake \cup Asking \cup {"garbage"}
GoodKinds == {"hello", "auth", "request"}
(* Frames sent: the same number by every peer, or by c1 alone. *)
Five == [c \in Conns |-> 5]
ThreeByOne == [c \in Conns |-> IF c = c1 THEN 3 ELSE 0]
Symmetric == Permutations(ThreeIds)
=============================================================================
