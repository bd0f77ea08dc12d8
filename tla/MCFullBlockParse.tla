--------------------------- MODULE MCFullBlockParse ---------------------------
(* Blocks of up to three transactions drawn from two.                     *)
EXTENDS FullBlockParse

CONSTANTS t1, t2

MCTxs == {t1, t2}
=============================================================================
