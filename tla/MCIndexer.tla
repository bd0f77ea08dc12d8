----------------------------- MODULE MCIndexer -----------------------------
(* Model-checking instance of Indexer: three wallet requests, two workers, *)
(* both ingestors enabled and a queue of one slot, so that QueueFull, the  *)
(* accept/shutdown race and a draining cascade all occur.                  *)
EXTENDS Indexer

CONSTANTS r1, r2, r3, w1, w2

MCRequests == {r1, r2, r3}
MCWorkers == {w1, w2}
MCIngestors == {"tcp", "nym"}

=============================================================================
