------------------------- MODULE MCJsonRpcConnector -------------------------
(* Two tasks sharing one connector, the code's max_attempts, and the i32   *)
(* id counter scaled down to 3 bits so that its wrap is reachable.         *)
EXTENDS JsonRpcConnector, TLC

CONSTANTS c1, c2

MCCallers == {c1, c2}

MCSymmetry == Permutations(MCCallers)
=============================================================================
