---------------------------- MODULE MCBlockHeader ----------------------------
(* Model-checking instance of BlockHeader with 16-valued bytes: every      *)
(* field takes two values (the signed extremes of version, the unsigned    *)
(* ones of time, all-zero and ramp hashes) and the solution is empty, one  *)
(* byte, or 13 bytes, the first length that needs the three-byte           *)
(* CompactSize.                                                            *)
EXTENDS BlockHeader

MCBase == 16

MCBytes(n) == {[i \in 1 .. n |-> 0], [i \in 1 .. n |-> (7 * i) % MCBase]}

MCHeaders ==
  [version : {4, -(MCBase ^ 4 \div 2)},
   hash_prev_block : MCBytes(32),
   hash_merkle_root : MCBytes(32),
   hash_final_sapling_root : MCBytes(32),
   time : {0, MCBase ^ 4 - 1},
   n_bits_bytes : {<<MCBase - 1, 1, 2, 3>>},
   nonce : MCBytes(32),
   solution : {<<>>, <<9>>, [i \in 1 .. MCBase - 3 |-> i % MCBase]}]

MCTails == {<<>>, <<MCBase - 3>>}

=============================================================================
