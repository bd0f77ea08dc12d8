----------------------------- MODULE BlockHeader -----------------------------
(***************************************************************************)
(* The block header codec of zingo-rpc/src/blockcache/block.rs:            *)
(* BlockHeaderData::parse_from_slice, built on the cursor readers of       *)
(* blockcache/utils.rs, and BlockHeaderData::to_binary, whose output       *)
(* get_block_hash double-hashes.  The data is a sequence of bytes and the  *)
(* fields keep their real widths; a byte holds Base values (256 in the     *)
(* code), so that u32 values and CompactSize thresholds scale with it.     *)
(*                                                                         *)
(* CompactSize (zcash_encoding, not in this repository) is modelled from   *)
(* spec 4.1: a Bitcoin-style compact size of 1, 3, 5 or 9 bytes.          *)
(***************************************************************************)
EXTENDS Integers, Sequences

CONSTANTS
  Base,      \* values of one byte (256 in the code)
  Headers,   \* the headers given to to_binary
  Tails      \* the data that may follow a header in a block

ASSUME BaseAssumption == Base \in Nat /\ Base >= 16

(* The header under test.                                                  *)
VARIABLE hdr

(* A result: Ok(x), or Err from a `?`.                                     *)
Ok(x) == [err |-> FALSE, val |-> x]
Err == [err |-> TRUE, val |-> <<>>]

(* The weights of the eight bytes of a u64, and the moduli of u16 and u32. *)
Pow2 == Base * Base
Pow4 == Pow2 * Pow2
Weight == <<1, Base, Pow2, Pow2 * Base, Pow4, Pow4 * Base, Pow4 * Pow2,
            Pow4 * Pow2 * Base>>
U32Mod == Pow4

(* byteorder's LittleEndian reads of a u16, a u32 and a u64, and          *)
(* to_le_bytes: byte i has weight Base^(i-1).                              *)
LE2(b, i) == b[i] + Base * b[i + 1]
LE4(b, i) == LE2(b, i) + Pow2 * LE2(b, i + 2)
LE(bytes) ==
  CASE Len(bytes) = 2 -> LE2(bytes, 1)
    [] Len(bytes) = 4 -> LE4(bytes, 1)
    [] Len(bytes) = 8 -> LE4(bytes, 1) + Pow4 * LE4(bytes, 5)
LEBytes(x, n) == [i \in 1 .. n |-> (x \div Weight[i]) % Base]

(* Mutant (TruncatedHeaderRejected): a read that returns what is left      *)
(* instead of failing on a short input (Read::read for read_exact).        *)
ReadAvailable(data, pos, n) ==
  Ok(SubSeq(data, pos + 1, IF pos + n > Len(data) THEN Len(data) ELSE pos + n))

(* read_bytes: read_exact of n bytes at the cursor, InvalidData on EOF.    *)
ReadExact(data, pos, n) ==
  IF pos + n > Len(data) THEN Err ELSE Ok(SubSeq(data, pos + 1, pos + n))

(* read_u32 and read_i32: four little-endian bytes, the latter signed.     *)
U32(bytes) == LE(bytes)
I32(bytes) == IF LE(bytes) >= U32Mod \div 2 THEN LE(bytes) - U32Mod ELSE LE(bytes)

(* CompactSize::read: a flag byte below 253 (Base - 3) is the size; the    *)
(* three top flags announce 2, 4 and 8 little-endian bytes, which must not *)
(* encode a value a shorter form could hold; sizes over MAX_SIZE (above   *)
(* every size of an instance) are refused.                                 *)
MaxCompactSize == 33554432   \* 0x02000000

(* The number of little-endian bytes a flag of 253 or more announces, and *)
(* the least value each of those forms may encode.                         *)
SizeWidth(flag) == IF flag = Base - 3 THEN 2 ELSE IF flag = Base - 2 THEN 4 ELSE 8
LeastOfWidth(n) == IF n = 2 THEN Base - 3 ELSE IF n = 4 THEN Pow2 ELSE Pow4

ReadCompactSize(data, pos) ==
  LET flag == data[pos + 1]
      n == SizeWidth(flag)
      v == LE(SubSeq(data, pos + 2, pos + 1 + n))
  IN IF pos + 1 > Len(data) THEN Err
     ELSE IF flag < Base - 3 THEN Ok([size |-> flag, pos |-> pos + 1])
     ELSE IF pos + 1 + n > Len(data) THEN Err
     ELSE IF v < LeastOfWidth(n) \/ v > MaxCompactSize THEN Err
     ELSE Ok([size |-> v, pos |-> pos + 1 + n])

(* CompactSize::write: the shortest form that holds n.                     *)
WriteCompactSize(n) ==
  IF n < Base - 3 THEN <<n>>
  ELSE IF n < Pow2 THEN <<Base - 3>> \o LEBytes(n, 2)
  ELSE IF n < Pow4 THEN <<Base - 2>> \o LEBytes(n, 4)
  ELSE <<Base - 1>> \o LEBytes(n, 8)

(* BlockHeaderData as parse_from_slice builds it: an i32 version, 32-byte *)
(* hashes and nonce, a u32 time, 4 bytes of n_bits and a solution whose    *)
(* length passed CompactSize::read, so at most MAX_SIZE.  The data that    *)
(* follows a header in a block is bytes.                                   *)
Bytes == 0 .. Base - 1
ByteString(n) == [1 .. n -> Bytes]
HeaderData ==
  [version : -(U32Mod \div 2) .. U32Mod \div 2 - 1,
   hash_prev_block : ByteString(32), hash_merkle_root : ByteString(32),
   hash_final_sapling_root : ByteString(32), time : 0 .. U32Mod - 1,
   n_bits_bytes : ByteString(4), nonce : ByteString(32),
   solution : {s \in Seq(Bytes) : Len(s) <= MaxCompactSize}]

ASSUME HeadersAssumption == Headers \subseteq HeaderData /\ Tails \subseteq Seq(Bytes)

-----------------------------------------------------------------------------
(* The fixed-width fields in the order parse_from_slice reads them, with   *)
(* their widths and their offsets from the start of the header.            *)
Width == [version |-> 4, hash_prev_block |-> 32, hash_merkle_root |-> 32,
          hash_final_sapling_root |-> 32, time |-> 4, n_bits_bytes |-> 4,
          nonce |-> 32]
Offset == [version |-> 0, hash_prev_block |-> 4, hash_merkle_root |-> 36,
           hash_final_sapling_root |-> 68, time |-> 100, n_bits_bytes |-> 104,
           nonce |-> 108]
FixedLen == 140

(* BlockHeaderData::parse_from_slice: txid must be None; each field is     *)
(* read in turn (the first short read returns Err); the solution is a      *)
(* CompactSize length and that many bytes; the rest of the data is         *)
(* returned with the header.                                               *)
ParseHeader(data, txid) ==
  LET field(f) == ReadExact(data, Offset[f], Width[f])
      cs == ReadCompactSize(data, FixedLen)
      sol == ReadExact(data, cs.val.pos, cs.val.size)
  IN IF txid # "none" THEN Err
     ELSE IF \E f \in DOMAIN Width : field(f).err THEN Err
     ELSE IF cs.err THEN Err
     ELSE IF sol.err THEN Err
     ELSE
      Ok([rem |-> SubSeq(data, cs.val.pos + cs.val.size + 1, Len(data)),
          hdr |-> [version |-> I32(field("version").val),
                   hash_prev_block |-> field("hash_prev_block").val,
                   hash_merkle_root |-> field("hash_merkle_root").val,
                   hash_final_sapling_root |->
                     field("hash_final_sapling_root").val,
                   time |-> U32(field("time").val),
                   n_bits_bytes |-> field("n_bits_bytes").val,
                   nonce |-> field("nonce").val,
                   solution |-> sol.val]])

(* Mutant (HeaderRoundTrip): time and n_bits_bytes written in swapped order. *)
ToBinaryTimeAfterBits(h) ==
  LEBytes(h.version % U32Mod, 4) \o h.hash_prev_block \o h.hash_merkle_root
  \o h.hash_final_sapling_root \o h.n_bits_bytes \o LEBytes(h.time, 4)
  \o h.nonce \o WriteCompactSize(Len(h.solution)) \o h.solution

(* BlockHeaderData::to_binary: the fields in header order, version and     *)
(* time as to_le_bytes, the solution after its CompactSize length.         *)
ToBinary(h) ==
  LEBytes(h.version % U32Mod, 4) \o h.hash_prev_block \o h.hash_merkle_root
  \o h.hash_final_sapling_root \o LEBytes(h.time, 4) \o h.n_bits_bytes
  \o h.nonce \o WriteCompactSize(Len(h.solution)) \o h.solution

-----------------------------------------------------------------------------
(* Headers are parsed one after another.                                   *)
Init == hdr \in Headers
Next == hdr' \in Headers
Spec == Init /\ [][Next]_hdr

(* Spec 4.1, idempotence: serializing a header and parsing the bytes back, *)
(* with any data following it, yields that header and exactly the data    *)
(* that followed, so the hash computed over to_binary is the hash of the  *)
(* bytes the node sent.                                                    *)
HeaderRoundTrip ==
  \A tail \in Tails :
    ParseHeader(ToBinary(hdr) \o tail, "none") = Ok([rem |-> tail, hdr |-> hdr])

(* Spec 4.1, errors: a header cut short anywhere, in a fixed field, in the *)
(* CompactSize or in the solution, is a ParseError, never a header.        *)
TruncatedHeaderRejected ==
  \A n \in 0 .. Len(ToBinary(hdr)) - 1 :
    ParseHeader(SubSeq(ToBinary(hdr), 1, n), "none").err

=============================================================================
