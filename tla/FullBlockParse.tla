---------------------------- MODULE FullBlockParse ----------------------------
(***************************************************************************)
(* The transaction loop of FullBlock::parse_from_slice                     *)
(* (zingo-rpc/src/blockcache/block.rs).  After the header and the          *)
(* CompactSize tx_count, the block bytes hold tx_count transactions; the   *)
(* caller passes the txids of a getblock verbose=1 call.  A transaction is *)
(* a model value and FullTransaction::parse_from_slice (not under src/)    *)
(* is abstracted to what the loop relies on: it reads one transaction off *)
(* the front of the slice it is given and returns the rest.                *)
(***************************************************************************)
EXTENDS Integers, Sequences, SequencesExt

CONSTANTS
  Txs,        \* transactions (model values)
  MaxTxs      \* bound on the transactions of one block (a natural)

VARIABLES
  block,      \* the transactions following tx_count in the block bytes
  ntxids      \* the number of txids the caller passed

vars == <<block, ntxids>>

(* FullTransaction::parse_from_slice: (rest of the slice, the transaction). *)
ParseTx(slice) == [rem |-> Tail(slice), tx |-> Head(slice)]

(* The for loop over the txids.  Every iteration parses from                *)
(* &data[cursor.position()..], and the cursor, left just after tx_count,    *)
(* is never moved; remaining_data is only tested for emptiness and          *)
(* returned.  The loop ends in Err when remaining_data is empty.           *)
TxLoop(data, n) ==
  LET step[k \in 0 .. n] ==
        IF k = 0 THEN [txs |-> <<>>, rem |-> data, err |-> FALSE]
        ELSE LET prev == step[k - 1] IN
             IF prev.err \/ prev.rem = <<>> THEN [prev EXCEPT !.err = TRUE]
             ELSE [txs |-> Append(prev.txs, ParseTx(data).tx),
                   rem |-> ParseTx(data).rem, err |-> FALSE]
  IN step[n]

(* parse_from_slice after the header: the txid count must equal tx_count;   *)
(* then the loop; then get_block_height indexes transactions[0], which      *)
(* panics on an empty list.                                                *)
ParseFromSlice(data, n) ==
  LET loop == TxLoop(data, n) IN
  [status |-> CASE n # Len(data) -> "err"
                [] loop.err -> "err"
                [] n = 0 -> "panic"
                [] OTHER -> "ok",
   txs |-> loop.txs, rem |-> loop.rem]

-----------------------------------------------------------------------------
(* One block after another is handed to the parser.                        *)
Init == block \in SeqOf(Txs, MaxTxs) /\ ntxids \in 0 .. MaxTxs
Next == block' \in SeqOf(Txs, MaxTxs) /\ ntxids' \in 0 .. MaxTxs
Spec == Init /\ [][Next]_vars

(* Spec 4.1 step 3: the parser yields the block's transactions in order,   *)
(* one per txid, and consumes them: a successful parse returns exactly the *)
(* transactions of the block and no remaining data.                        *)
ParsedTransactionsMatch ==
  LET r == ParseFromSlice(block, ntxids) IN
  r.status = "ok" => r.txs = block /\ r.rem = <<>>

(* Spec 4.1, errors: every semantic violation of the block bytes is a     *)
(* ParseError (InvalidData), so parse_from_slice returns Err rather than   *)
(* panicking, whatever the node sends; a block with tx_count 0 and no      *)
(* txids passes the count check and reaches transactions[0].              *)
ParseNeverPanics == ParseFromSlice(block, ntxids).status # "panic"

=============================================================================
