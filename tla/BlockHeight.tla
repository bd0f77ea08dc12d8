----------------------------- MODULE BlockHeight -----------------------------
(***************************************************************************)
(* FullBlock::get_block_height (zingo-rpc/src/blockcache/block.rs) and the *)
(* script-number reader it calls, read_zcash_script_i64                    *)
(* (zingo-rpc/src/blockcache/utils.rs): the height of a block is read from *)
(* the script_sig of its coinbase input.                                   *)
(*                                                                         *)
(* The integer widths are kept, scaled: a byte holds Base values (256 in   *)
(* the code), u32 and i32 are four bytes wide and u64 and i64 eight, so    *)
(* the wraps of `<<`, `as i64` and `as i32` happen where the code has them *)
(* relative to the byte width.  The first byte of a script is an opcode or *)
(* a length and keeps its real value.                                      *)
(***************************************************************************)
EXTENDS Integers, Sequences, SequencesExt

CONSTANTS
  Base,       \* values of one byte (256 in the code)
  Genesis,    \* GENESIS_TARGET_DIFFICULTY, scaled to a four-byte value
  Inputs      \* the coinbase scripts the parser is given

(* The coinbase script_sig of the block being parsed.                       *)
VARIABLE script

ASSUME BaseAssumption == Base \in Nat /\ Base >= 2
ASSUME GenesisAssumption == Genesis \in 0 .. Base ^ 4 - 1

U32Mod == Base ^ 4
U32Max == U32Mod - 1
U64Mod == Base ^ 8

(* read_zcash_script_int64 OP codes.                                       *)
OP_0 == 0            \* 0x00
OP_1_NEGATE == 79    \* 0x4f
OP_1 == 81           \* 0x51
OP_16 == 96          \* 0x60

(* A result: Ok(value), or Err from a `?`.                                 *)
Ok(x) == [err |-> FALSE, val |-> x]
Err == [err |-> TRUE, val |-> 0]

(* `as i64` of a u64 and `as i32` of an i64: two's complement truncation.  *)
AsI64(x) == IF x >= U64Mod \div 2 THEN x - U64Mod ELSE x
AsI32(x) ==
  LET y == x % U32Mod IN IF y >= U32Mod \div 2 THEN y - U32Mod ELSE y

(* One step of the fold: (acc << 8) | byte on a u64.                       *)
ShiftIn(acc, byte) == (acc * Base + byte) % U64Mod

-----------------------------------------------------------------------------
(* Mutant (HeightRoundTrip): the payload folded without .rev(), i.e. read  *)
(* big-endian.                                                             *)
ReadScriptBigEndian(s) ==
  IF Len(s) = 0 THEN Err
  ELSE LET fb == s[1] IN
    CASE fb = OP_1_NEGATE -> Ok(-1)
      [] fb = OP_0 -> Ok(0)
      [] fb \in OP_1 .. OP_16 -> Ok(fb - (OP_1 - 1))
      [] OTHER -> IF Len(s) - 1 < fb THEN Err
                  ELSE Ok(AsI64(FoldLeft(ShiftIn, 0, SubSeq(s, 2, fb + 1))))

(* read_zcash_script_i64: the first byte is read (Err on an empty script), *)
(* then either it is a small-number opcode or it gives the length of a     *)
(* little-endian number that follows (Err when the script is shorter).     *)
ReadZcashScriptI64(s) ==
  IF Len(s) = 0 THEN Err
  ELSE LET fb == s[1] IN
    CASE fb = OP_1_NEGATE -> Ok(-1)
      [] fb = OP_0 -> Ok(0)
      [] fb \in OP_1 .. OP_16 -> Ok(fb - (OP_1 - 1))
      [] OTHER -> IF Len(s) - 1 < fb THEN Err
                  ELSE Ok(AsI64(FoldLeft(ShiftIn, 0,
                                         Reverse(SubSeq(s, 2, fb + 1)))))

(* get_block_height on the coinbase script: negative and over-u32 values   *)
(* give -1, the genesis target gives 0, anything else `height_num as i32`. *)
GetBlockHeight(s) ==
  LET r == ReadZcashScriptI64(s) IN
  IF r.err THEN Err
  ELSE CASE r.val < 0 -> Ok(-1)
         [] r.val > U32Max -> Ok(-1)
         [] r.val % U32Mod = Genesis -> Ok(0)
         [] OTHER -> Ok(AsI32(r.val))

-----------------------------------------------------------------------------
(* The reference of spec 4.1 step 4 and section 8: the payload is an       *)
(* unsigned little-endian integer of any size; values outside              *)
(* 0 .. u32::MAX give -1, the genesis target gives 0, every other value is *)
(* the height itself.                                                      *)
LEValue(bytes) == FoldRight(LAMBDA b, acc : b + Base * acc, bytes, 0)

SpecHeight(s) ==
  IF Len(s) = 0 THEN Err
  ELSE LET fb == s[1] IN
    CASE fb = OP_1_NEGATE -> Ok(-1)
      [] fb = OP_0 -> Ok(0)
      [] fb \in OP_1 .. OP_16 -> Ok(fb - (OP_1 - 1))
      [] OTHER ->
           IF Len(s) - 1 < fb THEN Err
           ELSE LET v == LEValue(SubSeq(s, 2, fb + 1)) IN
                CASE v > U32Max -> Ok(-1)
                  [] v = Genesis -> Ok(0)
                  [] OTHER -> Ok(v)

(* How the node writes a height into its coinbase (CScript() << height):   *)
(* OP_0, OP_1..OP_16, or a push of the minimal little-endian bytes, with a *)
(* zero byte added when the top byte has its sign bit set.                 *)
NumBytes(h) == CHOOSE k \in 1 .. 9 : h < Base ^ k /\ h >= Base ^ (k - 1)
Digits(h) == [i \in 1 .. NumBytes(h) |-> (h \div Base ^ (i - 1)) % Base]
PushBytes(h) ==
  IF Digits(h)[NumBytes(h)] >= Base \div 2 THEN Append(Digits(h), 0)
  ELSE Digits(h)
EncodeHeight(h) ==
  CASE h = 0 -> <<OP_0>>
    [] h <= 16 -> <<OP_1 + h - 1>>
    [] OTHER -> <<Len(PushBytes(h))>> \o PushBytes(h)

(* The genesis coinbase starts with the pushed target bits (4 bytes).      *)
GenesisScript == <<4>> \o [i \in 1 .. 4 |-> (Genesis \div Base ^ (i - 1)) % Base]

-----------------------------------------------------------------------------
(* FullBlock::parse_from_slice is called on one block after another.       *)
Init == script \in Inputs
Next == script' \in Inputs
Spec == Init /\ [][Next]_script

(* Spec 8 and scenario 5: for every height the node can write into a       *)
(* coinbase and that fits the i32 the code returns, get_block_height reads *)
(* back that height, and the genesis coinbase reads as 0.                  *)
HeightRoundTrip ==
  /\ \A h \in 0 .. U32Mod \div 2 - 1 :
       script = EncodeHeight(h) =>
         GetBlockHeight(script) = Ok(IF h = Genesis THEN 0 ELSE h)
  /\ script = GenesisScript => GetBlockHeight(script) = Ok(0)

(* Spec 4.1 step 4 and section 8: on every script get_block_height agrees  *)
(* with the reference: h for 1 <= h <= u32::MAX, -1 for values out of      *)
(* range, 0 for the genesis target, and an error on a truncated script.    *)
HeightMatchesSpec == GetBlockHeight(script) = SpecHeight(script)

=============================================================================
