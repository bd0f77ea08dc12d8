CONSTANTS
  t1 = t1
  t2 = t2
  Txs <- MCTxs
  MaxTxs = 3
SPECIFICATION Spec
INVARIANT ParsedTransactionsMatch
CHECK_DEADLOCK FALSE
