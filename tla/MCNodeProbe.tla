----------------------------- MODULE MCNodeProbe -----------------------------
(* The node probe on its own, with the scheduling the runtime guarantees.  *)
EXTENDS NodeProbe
=============================================================================
