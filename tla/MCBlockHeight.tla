---------------------------- MODULE MCBlockHeight ----------------------------
(* Bytes of two bits (Base 4): u32 holds 0..255, i32 -128..127, u64 and   *)
(* i64 sixteen bits.  GENESIS_TARGET_DIFFICULTY (0x1F07FFFF, a pushed     *)
(* four-byte value inside the i32 range) becomes 99, also pushed.         *)
EXTENDS BlockHeight

(* Every script the node writes for a height in the scaled i32 range, and *)
(* the genesis coinbase.                                                  *)
MCHeightScripts ==
  {EncodeHeight(h) : h \in 0 .. U32Mod \div 2 - 1} \cup {GenesisScript}

(* Arbitrary scripts: the opcodes, their neighbours, lengths up to five    *)
(* with every payload, and a nine-byte push (past the u64 width).          *)
MCFirstBytes == {0, 1, 2, 3, 4, 5, 78, 79, 80, 81, 88, 96, 97, 255}
MCAnyScripts ==
  {<<>>}
  \cup {<<fb>> \o p : fb \in MCFirstBytes, p \in SeqOf(0 .. Base - 1, 5)}
  \cup {<<9>> \o p : p \in [1 .. 9 -> {0, 1}]}
=============================================================================
