-------------------------- MODULE BlockHeaderProofs --------------------------
(***************************************************************************)
(* The block header codec round-trips for every byte width and every      *)
(* header: parse_from_slice reads back what to_binary wrote, and rejects   *)
(* every truncation of it.                                                 *)
(***************************************************************************)
EXTENDS BlockHeader, SequenceTheorems, TLAPS

USE BaseAssumption

-----------------------------------------------------------------------------
(* Arithmetic of little-endian digits.                                     *)

LEMMA MulAssoc ==
  ASSUME NEW a \in Int, NEW b \in Int, NEW c \in Int
  PROVE  a * (b * c) = (a * b) * c
OBVIOUS

LEMMA SquareBig ==
  ASSUME NEW p \in Nat, p >= 65536
  PROVE  p * p > MaxCompactSize
BY DEF MaxCompactSize

LEMMA MaxFacts == MaxCompactSize \in Nat
BY DEF MaxCompactSize

LEMMA PowFacts ==
  /\ Pow2 \in Nat /\ Pow2 >= 256
  /\ Pow4 \in Nat /\ Pow4 >= 65536
  /\ Pow4 * Pow4 > MaxCompactSize
<1>1. Pow2 \in Nat /\ Pow2 >= 256 BY DEF Pow2
<1>2. Pow4 \in Nat /\ Pow4 >= 65536 BY <1>1 DEF Pow4
<1>3. Pow4 * Pow4 > MaxCompactSize BY <1>2, SquareBig
<1>. QED BY <1>1, <1>2, <1>3

LEMMA DivMod ==
  ASSUME NEW x \in Nat, NEW c \in Nat \ {0}
  PROVE  x = (x % c) + c * (x \div c) /\ x % c \in 0 .. c - 1 /\ x \div c \in Nat
OBVIOUS

LEMMA ProdPos ==
  ASSUME NEW a \in Nat \ {0}, NEW b \in Nat \ {0}
  PROVE  a * b \in Nat \ {0}
OBVIOUS

(* The quotient and remainder are the only ones.                          *)
LEMMA DivUnique ==
  ASSUME NEW x \in Int, NEW c \in Nat \ {0}, NEW q \in Int, NEW m \in 0 .. c - 1,
         x = m + c * q
  PROVE  x \div c = q /\ x % c = m
OBVIOUS

(* A digit in base a, then one in base b: the quotient by a * b is the    *)
(* quotient by a then by b, and the residue is the two digits.             *)
LEMMA DigitSplit ==
  ASSUME NEW x \in Nat, NEW a \in Nat \ {0}, NEW b \in Nat \ {0}
  PROVE  /\ x \div (a * b) = (x \div a) \div b
         /\ x % (a * b) = (x % a) + a * ((x \div a) % b)
<1>1. PICK m \in 0 .. a - 1, r \in 0 .. b - 1, q \in Nat :
        m = x % a /\ r = (x \div a) % b /\ q = (x \div a) \div b
  OBVIOUS
<1>2. x = m + a * (r + b * q)
  <2>1. x = (x % a) + a * (x \div a) OBVIOUS
  <2>2. x \div a = ((x \div a) % b) + b * ((x \div a) \div b) OBVIOUS
  <2>. QED BY <1>1, <2>1, <2>2
<1>3. x = (m + a * r) + (a * b) * q BY <1>2
<1>4. m + a * r \in 0 .. a * b - 1
  <2>1. a * r <= a * (b - 1) OBVIOUS
  <2>. QED BY <2>1
<1>5. x \div (a * b) = q /\ x % (a * b) = m + a * r
  BY <1>3, <1>4, DivUnique
<1>. QED BY <1>1, <1>5

-----------------------------------------------------------------------------
(* to_le_bytes read back by the LittleEndian readers.                      *)

LEMMA WeightFacts ==
  /\ Base \in Nat \ {0} /\ Pow2 \in Nat \ {0} /\ Pow4 \in Nat \ {0}
  /\ Pow2 = Base * Base /\ Pow4 = Pow2 * Pow2
  /\ Weight[1] = 1 /\ Weight[2] = Base /\ Weight[3] = Pow2
  /\ Weight[4] = Pow2 * Base /\ Weight[5] = Pow4 /\ Weight[6] = Pow4 * Base
  /\ Weight[7] = Pow4 * Pow2 /\ Weight[8] = (Pow4 * Pow2) * Base
BY PowFacts DEF Weight, Pow2, Pow4

(* Two digits at weight w are the residue of x \div w modulo Base^2.      *)
LEMMA Pair ==
  ASSUME NEW x \in Nat, NEW w \in Nat \ {0}
  PROVE  ((x \div w) % Base) + Base * ((x \div (w * Base)) % Base)
           = (x \div w) % Pow2
<1>1. Base \in Nat \ {0} /\ Pow2 = Base * Base BY WeightFacts
<1>2. PICK y \in Nat : y = x \div w OBVIOUS
<1>3. x \div (w * Base) = y \div Base BY <1>1, <1>2, DigitSplit
<1>4. y % Pow2 = (y % Base) + Base * ((y \div Base) % Base) BY <1>1, DigitSplit
<1>. QED BY <1>2, <1>3, <1>4

(* Four digits at weight w are the residue of x \div w modulo Base^4.     *)
LEMMA Quad ==
  ASSUME NEW x \in Nat, NEW w \in Nat \ {0}
  PROVE  ((x \div w) % Base) + Base * ((x \div (w * Base)) % Base)
         + Pow2 * (((x \div (w * Pow2)) % Base)
                   + Base * ((x \div ((w * Pow2) * Base)) % Base))
           = (x \div w) % Pow4
<1>1. Base \in Nat \ {0} /\ Pow2 \in Nat \ {0} /\ Pow4 = Pow2 * Pow2
  BY WeightFacts
<1>2. PICK v \in Nat \ {0} : v = w * Pow2 BY <1>1, ProdPos
<1>3. ((x \div w) % Base) + Base * ((x \div (w * Base)) % Base) = (x \div w) % Pow2
  BY Pair
<1>4. ((x \div v) % Base) + Base * ((x \div (v * Base)) % Base) = (x \div v) % Pow2
  BY Pair
<1>5. PICK y \in Nat : y = x \div w OBVIOUS
<1>6. x \div v = y \div Pow2 BY <1>1, <1>2, <1>5, DigitSplit
<1>7. y % Pow4 = (y % Pow2) + Pow2 * ((y \div Pow2) % Pow2) BY <1>1, DigitSplit
<1>. QED BY <1>2, <1>3, <1>4, <1>5, <1>6, <1>7

(* to_le_bytes gives n bytes.                                             *)
LEMMA LEBytesType ==
  ASSUME NEW x \in Nat, NEW n \in {2, 4, 8}
  PROVE  LEBytes(x, n) \in Seq(Bytes) /\ Len(LEBytes(x, n)) = n
         /\ \A i \in 1 .. n : LEBytes(x, n)[i] = (x \div Weight[i]) % Base
<1>1. \A i \in 1 .. 8 : Weight[i] \in Nat \ {0}
  BY WeightFacts, ProdPos
<1>2. LEBytes(x, n) \in [1 .. n -> Bytes]
  BY <1>1, WeightFacts DEF LEBytes, Bytes
<1>. QED BY <1>2 DEF LEBytes

(* read_u16 of a u16 written by to_le_bytes.                               *)
LEMMA LE2RoundTrip ==
  ASSUME NEW x \in 0 .. Pow2 - 1
  PROVE  LE(LEBytes(x, 2)) = x
<1>1. x \in Nat /\ x \div 1 = x /\ 1 * Base = Base /\ Base \in Nat \ {0}
  BY PowFacts, WeightFacts
<1>2. /\ Len(LEBytes(x, 2)) = 2
      /\ LEBytes(x, 2)[1] = (x \div 1) % Base
      /\ LEBytes(x, 2)[2] = (x \div (1 * Base)) % Base
  <2>1. Len(LEBytes(x, 2)) = 2 BY <1>1, LEBytesType
  <2>. QED BY <1>1, <2>1, WeightFacts DEF LEBytes
<1>3. PICK w \in Nat \ {0} : w = 1 OBVIOUS
<1>4. ((x \div w) % Base) + Base * ((x \div (w * Base)) % Base) = (x \div w) % Pow2
  BY <1>1, Pair
<1>5. x % Pow2 = x BY PowFacts
<1>6. LE(LEBytes(x, 2)) = LEBytes(x, 2)[1] + Base * LEBytes(x, 2)[2]
  <2>1. LE(LEBytes(x, 2)) = LE2(LEBytes(x, 2), 1) BY <1>2 DEF LE
  <2>. QED BY <2>1 DEF LE2
<1>. QED BY <1>1, <1>2, <1>3, <1>4, <1>5, <1>6

(* read_u32 of a u32 written by to_le_bytes.                               *)
LEMMA LE4RoundTrip ==
  ASSUME NEW x \in 0 .. Pow4 - 1
  PROVE  LE(LEBytes(x, 4)) = x
<1>1. x \in Nat /\ x \div 1 = x /\ 1 * Base = Base /\ 1 * Pow2 = Pow2
  BY PowFacts, WeightFacts
<1>2. /\ Len(LEBytes(x, 4)) = 4
      /\ LEBytes(x, 4)[1] = (x \div 1) % Base
      /\ LEBytes(x, 4)[2] = (x \div (1 * Base)) % Base
      /\ LEBytes(x, 4)[3] = (x \div (1 * Pow2)) % Base
      /\ LEBytes(x, 4)[4] = (x \div ((1 * Pow2) * Base)) % Base
  <2>1. Len(LEBytes(x, 4)) = 4 BY <1>1, LEBytesType
  <2>. QED BY <1>1, <2>1, WeightFacts DEF LEBytes
<1>3. PICK w \in Nat \ {0} : w = 1 OBVIOUS
<1>4. ((x \div w) % Base) + Base * ((x \div (w * Base)) % Base)
      + Pow2 * (((x \div (w * Pow2)) % Base)
                + Base * ((x \div ((w * Pow2) * Base)) % Base))
        = (x \div w) % Pow4
  BY <1>1, Quad
<1>5. x % Pow4 = x BY PowFacts
<1>6. LE(LEBytes(x, 4)) = LEBytes(x, 4)[1] + Base * LEBytes(x, 4)[2]
                         + Pow2 * (LEBytes(x, 4)[3] + Base * LEBytes(x, 4)[4])
  BY <1>2 DEF LE, LE4, LE2
<1>. QED BY <1>1, <1>2, <1>3, <1>4, <1>5, <1>6

(* read_u64 of a u64 written by to_le_bytes.                               *)
LEMMA LE8RoundTrip ==
  ASSUME NEW x \in 0 .. Pow4 * Pow4 - 1
  PROVE  LE(LEBytes(x, 8)) = x
<1>1. /\ x \in Nat /\ x \div 1 = x
      /\ 1 * Base = Base /\ 1 * Pow2 = Pow2 /\ Pow4 \in Nat \ {0}
  BY PowFacts, WeightFacts
<1>2. Len(LEBytes(x, 8)) = 8 BY <1>1, LEBytesType
<1>3. /\ LEBytes(x, 8)[1] = (x \div 1) % Base
      /\ LEBytes(x, 8)[2] = (x \div (1 * Base)) % Base
      /\ LEBytes(x, 8)[3] = (x \div (1 * Pow2)) % Base
      /\ LEBytes(x, 8)[4] = (x \div ((1 * Pow2) * Base)) % Base
      /\ LEBytes(x, 8)[5] = (x \div Pow4) % Base
      /\ LEBytes(x, 8)[6] = (x \div (Pow4 * Base)) % Base
      /\ LEBytes(x, 8)[7] = (x \div (Pow4 * Pow2)) % Base
      /\ LEBytes(x, 8)[8] = (x \div ((Pow4 * Pow2) * Base)) % Base
  BY <1>1, <1>2, WeightFacts DEF LEBytes
<1>4. LE(LEBytes(x, 8))
        = (LEBytes(x, 8)[1] + Base * LEBytes(x, 8)[2]
           + Pow2 * (LEBytes(x, 8)[3] + Base * LEBytes(x, 8)[4]))
          + Pow4 * (LEBytes(x, 8)[5] + Base * LEBytes(x, 8)[6]
                    + Pow2 * (LEBytes(x, 8)[7] + Base * LEBytes(x, 8)[8]))
  <2>1. LE(LEBytes(x, 8)) = LE4(LEBytes(x, 8), 1) + Pow4 * LE4(LEBytes(x, 8), 5)
    BY <1>2 DEF LE
  <2>. QED BY <2>1 DEF LE4, LE2
<1>5. PICK w \in Nat \ {0} : w = 1 OBVIOUS
<1>6. ((x \div w) % Base) + Base * ((x \div (w * Base)) % Base)
      + Pow2 * (((x \div (w * Pow2)) % Base)
                + Base * ((x \div ((w * Pow2) * Base)) % Base))
        = (x \div w) % Pow4
  BY <1>1, Quad
<1>7. PICK v \in Nat \ {0} : v = Pow4 BY <1>1
<1>8. ((x \div v) % Base) + Base * ((x \div (v * Base)) % Base)
      + Pow2 * (((x \div (v * Pow2)) % Base)
                + Base * ((x \div ((v * Pow2) * Base)) % Base))
        = (x \div v) % Pow4
  BY <1>1, Quad
<1>9. x % (Pow4 * Pow4) = (x % Pow4) + Pow4 * ((x \div Pow4) % Pow4)
  BY <1>1, DigitSplit
<1>10. x % (Pow4 * Pow4) = x BY <1>1, PowFacts
<1>. QED BY <1>3, <1>4, <1>5, <1>6, <1>7, <1>8, <1>9, <1>10, <1>1

-----------------------------------------------------------------------------
(* Reading back what was concatenated: a read inside the first part of a  *)
(* concatenation sees only that part, and the bytes after the first part  *)
(* are the second part.                                                    *)
LEMMA ReadInFront ==
  ASSUME NEW S, NEW x \in Seq(S), NEW y \in Seq(S),
         NEW k \in Nat, NEW n \in Nat, k + n <= Len(x)
  PROVE  SubSeq(x \o y, k + 1, k + n) = SubSeq(x, k + 1, k + n)
OBVIOUS

LEMMA ReadBehind ==
  ASSUME NEW S, NEW x \in Seq(S), NEW y \in Seq(S)
  PROVE  SubSeq(x \o y, Len(x) + 1, Len(x) + Len(y)) = y
OBVIOUS

LEMMA ElemInFront ==
  ASSUME NEW S, NEW x \in Seq(S), NEW y \in Seq(S), NEW i \in 1 .. Len(x)
  PROVE  (x \o y)[i] = x[i]
OBVIOUS

LEMMA ConcatAssocBytes ==
  ASSUME NEW a \in Seq(Bytes), NEW b \in Seq(Bytes), NEW c \in Seq(Bytes)
  PROVE  (a \o b) \o c = a \o (b \o c)
OBVIOUS

(* Associativity as a named fact: with many sequences in scope the provers *)
(* find the instance of Assoc(a, b, c) at once, not that of the equation.  *)
Assoc(a, b, c) == (a \o b) \o c = a \o (b \o c)

LEMMA AssocAll == \A a, b, c \in Seq(Bytes) : Assoc(a, b, c)
BY ConcatAssocBytes DEF Assoc

(* A fixed-width byte field is a sequence of bytes of its width.           *)
LEMMA ByteStringSeq ==
  ASSUME NEW n \in Nat, NEW s \in ByteString(n)
  PROVE  s \in Seq(Bytes) /\ Len(s) = n
BY DEF ByteString

(* The flag byte and the little-endian bytes of a long CompactSize, read   *)
(* back from the data they were written into.                              *)
LEMMA FlagAndValue ==
  ASSUME NEW q \in Seq(Bytes), NEW L \in Seq(Bytes), NEW r \in Seq(Bytes),
         NEW k \in Nat, Len(q) = k + 1
  PROVE  /\ ((q \o L) \o r)[k + 1] = q[k + 1]
         /\ SubSeq((q \o L) \o r, k + 2, k + 1 + Len(L)) = L
         /\ Len((q \o L) \o r) >= k + 1 + Len(L)
<1>1. q \o L \in Seq(Bytes) /\ Len(q \o L) = k + 1 + Len(L) OBVIOUS
<1>2. ((q \o L) \o r)[k + 1] = (q \o L)[k + 1] BY <1>1, ElemInFront
<1>3. (q \o L)[k + 1] = q[k + 1] BY ElemInFront
<1>4. SubSeq((q \o L) \o r, k + 2, k + 1 + Len(L))
        = SubSeq(q \o L, k + 2, k + 1 + Len(L))
  BY <1>1, ReadInFront
<1>5. SubSeq(q \o L, Len(q) + 1, Len(q) + Len(L)) = L BY ReadBehind
<1>. QED BY <1>1, <1>2, <1>3, <1>4, <1>5

(* The order of the CompactSize thresholds.                                *)
LEMMA Thresholds ==
  /\ Base - 3 \in Bytes /\ Base - 2 \in Bytes /\ Base - 1 \in Bytes
  /\ Base - 3 < Pow2 /\ Pow2 < Pow4
<1>1. Base < Pow2 BY WeightFacts
<1>2. Pow2 < Pow4 BY WeightFacts, PowFacts
<1>. QED BY <1>1, <1>2, PowFacts DEF Bytes

(* CompactSize::read of a long form written after any data p and followed *)
(* by r, whose value is canonical and at most MAX_SIZE: the value comes    *)
(* back and the cursor moves past the form.                                 *)
LEMMA WrittenLongForm ==
  ASSUME NEW p \in Seq(Bytes), NEW r \in Seq(Bytes), NEW L \in Seq(Bytes),
         NEW f \in Bytes, NEW n \in Nat, f >= Base - 3,
         SizeWidth(f) = Len(L), LE(L) = n,
         n >= LeastOfWidth(Len(L)), n <= MaxCompactSize
  PROVE  ReadCompactSize((p \o (<<f>> \o L)) \o r, Len(p))
           = Ok([size |-> n, pos |-> Len(p) + 1 + Len(L)])
<1>1. PICK t \in Seq(Bytes) : t = <<f>>
  <2>1. <<f>> \in Seq(Bytes) OBVIOUS
  <2>. QED BY <2>1, Zenon
<1>2. PICK q \in Seq(Bytes) : q = p \o t
  <2>1. p \o t \in Seq(Bytes) BY ConcatProperties
  <2>. QED BY <2>1, Zenon
<1>3. p \o (t \o L) = q \o L
  <2>1. (p \o t) \o L = p \o (t \o L) BY ConcatAssocBytes, ZenonT(30)
  <2>. QED BY <1>2, <2>1, Zenon
<1>4. PICK k \in Nat : k = Len(p)
  <2>1. Len(p) \in Nat OBVIOUS
  <2>. QED BY <2>1, Zenon
<1>5. Len(q) = k + 1 /\ q[k + 1] = f BY <1>1, <1>2, <1>4
<1>6. /\ ((q \o L) \o r)[k + 1] = f
      /\ SubSeq((q \o L) \o r, k + 2, k + 1 + Len(L)) = L
      /\ Len((q \o L) \o r) >= k + 1 + Len(L)
  BY <1>5, FlagAndValue
<1>7. PICK d \in Seq(Bytes) : d = (q \o L) \o r
  <2>1. (q \o L) \o r \in Seq(Bytes) BY ConcatProperties
  <2>. QED BY <2>1, Zenon
<1>8. Len(d) >= k + 1 + Len(L) BY <1>6, <1>7
<1>9. d[k + 1] = f BY <1>6, <1>7
<1>10. SubSeq(d, k + 2, k + 1 + Len(L)) = L BY <1>6, <1>7
<1>11. SizeWidth(d[k + 1]) = Len(L) BY <1>9, Zenon
<1>12. SubSeq(d, k + 2, k + 1 + SizeWidth(d[k + 1])) = L BY <1>10, <1>11, Zenon
<1>13. LE(SubSeq(d, k + 2, k + 1 + SizeWidth(d[k + 1]))) = n BY <1>12, Zenon
<1>14. LeastOfWidth(SizeWidth(d[k + 1])) = LeastOfWidth(Len(L)) BY <1>11, Zenon
<1>15. /\ d[k + 1] \in Nat /\ Len(L) \in Nat /\ LeastOfWidth(Len(L)) \in Nat
  BY <1>9, PowFacts DEF Bytes, LeastOfWidth
<1>16. /\ ~(k + 1 > Len(d))
       /\ ~(d[k + 1] < Base - 3)
       /\ ~(k + 1 + SizeWidth(d[k + 1]) > Len(d))
       /\ ~(\/ LE(SubSeq(d, k + 2, k + 1 + SizeWidth(d[k + 1])))
               < LeastOfWidth(SizeWidth(d[k + 1]))
           \/ LE(SubSeq(d, k + 2, k + 1 + SizeWidth(d[k + 1]))) > MaxCompactSize)
  <2>1. ~(k + 1 > Len(d)) BY <1>8, <1>15
  <2>2. ~(d[k + 1] < Base - 3) BY <1>9, <1>15
  <2>3. ~(k + 1 + SizeWidth(d[k + 1]) > Len(d)) BY <1>8, <1>11, <1>15
  <2>4. ~(n < LeastOfWidth(Len(L)) \/ n > MaxCompactSize)
    BY <1>15 DEF MaxCompactSize
  <2>. QED BY <2>1, <2>2, <2>3, <2>4, <1>13, <1>14, Zenon
<1>17. ReadCompactSize(d, k)
         = Ok([size |-> LE(SubSeq(d, k + 2, k + 1 + SizeWidth(d[k + 1]))),
               pos |-> k + 1 + SizeWidth(d[k + 1])])
  BY <1>16, Zenon DEF ReadCompactSize
<1>18. ReadCompactSize(d, k) = Ok([size |-> n, pos |-> k + 1 + Len(L)])
  BY <1>11, <1>13, <1>17
<1>. QED BY <1>1, <1>3, <1>4, <1>7, <1>18

(* CompactSize::read of what CompactSize::write wrote, whatever precedes  *)
(* and follows it: the size comes back, and the cursor ends right after   *)
(* the encoding (none of the non-canonical-form or MAX_SIZE checks fire). *)
LEMMA CompactSizeRoundTrip ==
  ASSUME NEW p \in Seq(Bytes), NEW n \in Nat, n <= MaxCompactSize,
         NEW r \in Seq(Bytes)
  PROVE  /\ WriteCompactSize(n) \in Seq(Bytes)
         /\ ReadCompactSize((p \o WriteCompactSize(n)) \o r, Len(p))
              = Ok([size |-> n, pos |-> Len(p) + Len(WriteCompactSize(n))])
<1>0. n \in Nat /\ n <= MaxCompactSize /\ MaxCompactSize \in Nat BY MaxFacts
<1>1. CASE n < Base - 3
  <2>1. WriteCompactSize(n) = <<n>> BY <1>1 DEF WriteCompactSize
  <2>2. <<n>> \in Seq(Bytes) BY <1>1 DEF Bytes
  <2>3. PICK q \in Seq(Bytes) : q = p \o <<n>>
    <3>1. p \o <<n>> \in Seq(Bytes) BY <2>2, ConcatProperties
    <3>. QED BY <3>1, Zenon
  <2>4. PICK k \in Nat : k = Len(p) OBVIOUS
  <2>5. Len(q) = k + 1 /\ q[k + 1] = n BY <2>3, <2>4
  <2>6. (q \o r)[k + 1] = n /\ Len(q \o r) >= k + 1
    BY <2>5, ElemInFront
  <2>7. ReadCompactSize(q \o r, k) = Ok([size |-> n, pos |-> k + 1])
    BY <1>1, <2>6 DEF ReadCompactSize
  <2>. QED BY <2>1, <2>2, <2>3, <2>4, <2>7
<1>2. CASE n >= Base - 3 /\ n < Pow2
  <2>1. PICK L \in Seq(Bytes) : L = LEBytes(n, 2) /\ Len(L) = 2
    <3>1. LEBytes(n, 2) \in Seq(Bytes) /\ Len(LEBytes(n, 2)) = 2
      BY LEBytesType
    <3>. QED BY <3>1
  <2>2. WriteCompactSize(n) = <<Base - 3>> \o L
    BY <1>2, <2>1, Thresholds DEF WriteCompactSize
  <2>3. LE(L) = n
    <3>1. n \in 0 .. Pow2 - 1 BY <1>0, <1>2, Thresholds, PowFacts
    <3>. QED BY <3>1, <2>1, LE2RoundTrip
  <2>4. SizeWidth(Base - 3) = 2 /\ LeastOfWidth(2) = Base - 3
    BY DEF SizeWidth, LeastOfWidth
  <2>5. /\ Base - 3 \in Bytes /\ Base - 3 >= Base - 3
        /\ SizeWidth(Base - 3) = Len(L) /\ n >= LeastOfWidth(Len(L))
    <3>1. Base - 3 \in Bytes /\ Base - 3 >= Base - 3 BY Thresholds DEF Bytes
    <3>2. SizeWidth(Base - 3) = Len(L) /\ LeastOfWidth(Len(L)) = Base - 3
      BY <2>1, <2>4, Zenon
    <3>3. n >= Base - 3 BY <1>0, <1>2, Thresholds, PowFacts
    <3>. QED BY <3>1, <3>2, <3>3, Zenon
  <2>6. ReadCompactSize((p \o (<<Base - 3>> \o L)) \o r, Len(p))
          = Ok([size |-> n, pos |-> Len(p) + 1 + Len(L)])
    <3>1. PICK g \in Bytes : g = Base - 3 BY <2>5, Zenon
    <3>2. g >= Base - 3 /\ SizeWidth(g) = Len(L) /\ n >= LeastOfWidth(Len(L))
      BY <2>5, <3>1, Zenon
    <3>3. ReadCompactSize((p \o (<<g>> \o L)) \o r, Len(p))
            = Ok([size |-> n, pos |-> Len(p) + 1 + Len(L)])
      BY <2>3, <3>2, WrittenLongForm
    <3>. QED BY <3>1, <3>3, Zenon
  <2>7. <<Base - 3>> \o L \in Seq(Bytes) /\ Len(<<Base - 3>> \o L) = 1 + Len(L)
    BY <2>1, Thresholds
  <2>. QED BY <2>2, <2>6, <2>7
<1>3. CASE n >= Pow2 /\ n < Pow4
  <2>1. PICK L \in Seq(Bytes) : L = LEBytes(n, 4) /\ Len(L) = 4
    <3>1. LEBytes(n, 4) \in Seq(Bytes) /\ Len(LEBytes(n, 4)) = 4
      BY LEBytesType
    <3>. QED BY <3>1
  <2>2. WriteCompactSize(n) = <<Base - 2>> \o L
    BY <1>3, <2>1, Thresholds, PowFacts DEF WriteCompactSize
  <2>3. LE(L) = n
    <3>1. n \in 0 .. Pow4 - 1 BY <1>0, <1>3, Thresholds, PowFacts
    <3>. QED BY <3>1, <2>1, LE4RoundTrip
  <2>4. SizeWidth(Base - 2) = 4 /\ LeastOfWidth(4) = Pow2
    BY DEF SizeWidth, LeastOfWidth
  <2>5. /\ Base - 2 \in Bytes /\ Base - 2 >= Base - 3
        /\ SizeWidth(Base - 2) = Len(L) /\ n >= LeastOfWidth(Len(L))
    <3>1. Base - 2 \in Bytes /\ Base - 2 >= Base - 3 BY Thresholds DEF Bytes
    <3>2. SizeWidth(Base - 2) = Len(L) /\ LeastOfWidth(Len(L)) = Pow2
      BY <2>1, <2>4, Zenon
    <3>3. n >= Pow2 BY <1>0, <1>3, Thresholds, PowFacts
    <3>. QED BY <3>1, <3>2, <3>3, Zenon
  <2>6. ReadCompactSize((p \o (<<Base - 2>> \o L)) \o r, Len(p))
          = Ok([size |-> n, pos |-> Len(p) + 1 + Len(L)])
    <3>1. PICK g \in Bytes : g = Base - 2 BY <2>5, Zenon
    <3>2. g >= Base - 3 /\ SizeWidth(g) = Len(L) /\ n >= LeastOfWidth(Len(L))
      BY <2>5, <3>1, Zenon
    <3>3. ReadCompactSize((p \o (<<g>> \o L)) \o r, Len(p))
            = Ok([size |-> n, pos |-> Len(p) + 1 + Len(L)])
      BY <2>3, <3>2, WrittenLongForm
    <3>. QED BY <3>1, <3>3, Zenon
  <2>7. <<Base - 2>> \o L \in Seq(Bytes) /\ Len(<<Base - 2>> \o L) = 1 + Len(L)
    BY <2>1, Thresholds
  <2>. QED BY <2>2, <2>6, <2>7
<1>4. CASE n >= Pow4
  <2>1. PICK L \in Seq(Bytes) : L = LEBytes(n, 8) /\ Len(L) = 8
    <3>1. LEBytes(n, 8) \in Seq(Bytes) /\ Len(LEBytes(n, 8)) = 8
      BY LEBytesType
    <3>. QED BY <3>1
  <2>2. WriteCompactSize(n) = <<Base - 1>> \o L
    BY <1>4, <2>1, Thresholds, PowFacts DEF WriteCompactSize
  <2>3. LE(L) = n
    <3>0. PICK M \in Nat : M = Pow4 * Pow4 /\ MaxCompactSize < M BY PowFacts
    <3>1. n \in 0 .. M - 1 BY <3>0, <1>0
    <3>2. n \in 0 .. Pow4 * Pow4 - 1 BY <3>0, <3>1, Zenon
    <3>. QED BY <3>2, <2>1, LE8RoundTrip
  <2>4. SizeWidth(Base - 1) = 8 /\ LeastOfWidth(8) = Pow4
    BY DEF SizeWidth, LeastOfWidth
  <2>5. /\ Base - 1 \in Bytes /\ Base - 1 >= Base - 3
        /\ SizeWidth(Base - 1) = Len(L) /\ n >= LeastOfWidth(Len(L))
    <3>1. Base - 1 \in Bytes /\ Base - 1 >= Base - 3 BY Thresholds DEF Bytes
    <3>2. SizeWidth(Base - 1) = Len(L) /\ LeastOfWidth(Len(L)) = Pow4
      BY <2>1, <2>4, Zenon
    <3>3. n >= Pow4 BY <1>0, <1>4, Thresholds, PowFacts
    <3>. QED BY <3>1, <3>2, <3>3, Zenon
  <2>6. ReadCompactSize((p \o (<<Base - 1>> \o L)) \o r, Len(p))
          = Ok([size |-> n, pos |-> Len(p) + 1 + Len(L)])
    <3>1. PICK g \in Bytes : g = Base - 1 BY <2>5, Zenon
    <3>2. g >= Base - 3 /\ SizeWidth(g) = Len(L) /\ n >= LeastOfWidth(Len(L))
      BY <2>5, <3>1, Zenon
    <3>3. ReadCompactSize((p \o (<<g>> \o L)) \o r, Len(p))
            = Ok([size |-> n, pos |-> Len(p) + 1 + Len(L)])
      BY <2>3, <3>2, WrittenLongForm
    <3>. QED BY <3>1, <3>3, Zenon
  <2>7. <<Base - 1>> \o L \in Seq(Bytes) /\ Len(<<Base - 1>> \o L) = 1 + Len(L)
    BY <2>1, Thresholds
  <2>. QED BY <2>2, <2>6, <2>7
<1>5. \/ n < Base - 3
      \/ n >= Base - 3 /\ n < Pow2
      \/ n >= Pow2 /\ n < Pow4
      \/ n >= Pow4
  BY PowFacts
<1>. QED BY <1>1, <1>2, <1>3, <1>4, <1>5, Zenon

-----------------------------------------------------------------------------
(* Reading back each field of to_binary's output.                          *)

(* The first and a middle part of a concatenation, read back.              *)
LEMMA ReadFront ==
  ASSUME NEW x \in Seq(Bytes), NEW y \in Seq(Bytes)
  PROVE  SubSeq(x \o y, 1, Len(x)) = x
OBVIOUS

LEMMA ReadMiddle ==
  ASSUME NEW x \in Seq(Bytes), NEW m \in Seq(Bytes), NEW y \in Seq(Bytes)
  PROVE  /\ SubSeq((x \o m) \o y, Len(x) + 1, Len(x) + Len(m)) = m
         /\ Len((x \o m) \o y) = Len(x) + Len(m) + Len(y)
OBVIOUS

(* What BlockHeaderData holds: the field types parse_from_slice produces. *)
LEMMA HeaderFields ==
  ASSUME NEW h \in HeaderData
  PROVE  /\ h = [version |-> h.version, hash_prev_block |-> h.hash_prev_block,
                 hash_merkle_root |-> h.hash_merkle_root,
                 hash_final_sapling_root |-> h.hash_final_sapling_root,
                 time |-> h.time, n_bits_bytes |-> h.n_bits_bytes,
                 nonce |-> h.nonce, solution |-> h.solution]
         /\ h.version \in -(U32Mod \div 2) .. U32Mod \div 2 - 1
         /\ h.time \in 0 .. U32Mod - 1
         /\ h.hash_prev_block \in ByteString(32)
         /\ h.hash_merkle_root \in ByteString(32)
         /\ h.hash_final_sapling_root \in ByteString(32)
         /\ h.n_bits_bytes \in ByteString(4)
         /\ h.nonce \in ByteString(32)
         /\ h.solution \in Seq(Bytes) /\ Len(h.solution) <= MaxCompactSize
BY DEF HeaderData

(* read_i32 of the to_le_bytes of an i32: two's complement round trip.    *)
LEMMA VersionRoundTrip ==
  ASSUME NEW v \in -(U32Mod \div 2) .. U32Mod \div 2 - 1
  PROVE  /\ LEBytes(v % U32Mod, 4) \in Seq(Bytes)
         /\ Len(LEBytes(v % U32Mod, 4)) = 4
         /\ I32(LEBytes(v % U32Mod, 4)) = v
<1>1. U32Mod \in Nat \ {0} /\ U32Mod = Pow4 BY PowFacts DEF U32Mod
<1>2. PICK x \in 0 .. Pow4 - 1 : x = v % U32Mod BY <1>1
<1>3. LE(LEBytes(x, 4)) = x BY LE4RoundTrip
<1>4. LEBytes(x, 4) \in Seq(Bytes) /\ Len(LEBytes(x, 4)) = 4 BY LEBytesType
<1>5. CASE v >= 0
  <2>1. x = v BY <1>1, <1>2, <1>5, DivUnique
  <2>. QED BY <1>1, <1>2, <1>3, <1>4, <1>5, <2>1 DEF I32
<1>6. CASE v < 0
  <2>1. v = (v + U32Mod) + U32Mod * (-1) BY <1>1
  <2>2. v + U32Mod \in 0 .. U32Mod - 1 BY <1>1, <1>6
  <2>3. -1 \in Int /\ v \in Int OBVIOUS
  <2>4. v % U32Mod = v + U32Mod BY <1>1, <2>1, <2>2, <2>3, DivUnique, Zenon
  <2>5. x = v + U32Mod BY <1>2, <2>4
  <2>. QED BY <1>1, <1>2, <1>3, <1>4, <1>6, <2>5 DEF I32
<1>. QED BY <1>5, <1>6

(* read_u32 of the to_le_bytes of a u32.                                   *)
LEMMA TimeRoundTrip ==
  ASSUME NEW t \in 0 .. U32Mod - 1
  PROVE  /\ LEBytes(t, 4) \in Seq(Bytes) /\ Len(LEBytes(t, 4)) = 4
         /\ U32(LEBytes(t, 4)) = t
<1>1. t \in 0 .. Pow4 - 1 BY DEF U32Mod
<1>. QED BY <1>1, LE4RoundTrip, LEBytesType DEF U32

(* A part read in front of, in the middle of, or behind the rest.          *)
LEMMA FrontField ==
  ASSUME NEW x \in Seq(Bytes), NEW y \in Seq(Bytes), NEW d, d = x \o y
  PROVE  ReadExact(d, 0, Len(x)) = Ok(x)
<1>1. SubSeq(d, 0 + 1, 0 + Len(x)) = x BY ReadFront
<1>2. ~(0 + Len(x) > Len(d)) OBVIOUS
<1>. QED BY <1>1, <1>2, Zenon DEF ReadExact

LEMMA MiddleField ==
  ASSUME NEW x \in Seq(Bytes), NEW m \in Seq(Bytes), NEW y \in Seq(Bytes),
         NEW d, d = (x \o m) \o y
  PROVE  ReadExact(d, Len(x), Len(m)) = Ok(m)
<1>1. SubSeq(d, Len(x) + 1, Len(x) + Len(m)) = m
      /\ Len(d) = Len(x) + Len(m) + Len(y)
  BY ReadMiddle
<1>2. ~(Len(x) + Len(m) > Len(d)) BY <1>1
<1>. QED BY <1>1, <1>2, Zenon DEF ReadExact

LEMMA RestAfter ==
  ASSUME NEW x \in Seq(Bytes), NEW y \in Seq(Bytes), NEW d, d = x \o y
  PROVE  SubSeq(d, Len(x) + 1, Len(d)) = y
BY ReadBehind

(* The length of a concatenation, stated apart: the SMT encoding loses it *)
(* when the lengths of the parts are known numbers.                        *)
LEMMA LenConcat ==
  ASSUME NEW x \in Seq(Bytes), NEW y \in Seq(Bytes)
  PROVE  Len(x \o y) = Len(x) + Len(y)
OBVIOUS

(* parse_from_slice of to_binary's output, followed by any bytes, returns  *)
(* the header and exactly those bytes.  The output is cut into its nine    *)
(* parts a1..a9; x_k is the first k parts and R_k the parts after them,   *)
(* so that d = x_k \o R_k for each k, and each read is the part in front,  *)
(* in the middle or behind such a split.                                   *)
LEMMA ParseToBinary ==
  ASSUME NEW h \in HeaderData, NEW tail \in Seq(Bytes)
  PROVE  ParseHeader(ToBinary(h) \o tail, "none") = Ok([rem |-> tail, hdr |-> h])
<1>1. /\ h = [version |-> h.version, hash_prev_block |-> h.hash_prev_block,
              hash_merkle_root |-> h.hash_merkle_root,
              hash_final_sapling_root |-> h.hash_final_sapling_root,
              time |-> h.time, n_bits_bytes |-> h.n_bits_bytes,
              nonce |-> h.nonce, solution |-> h.solution]
      /\ h.version \in -(U32Mod \div 2) .. U32Mod \div 2 - 1
      /\ h.time \in 0 .. U32Mod - 1
      /\ h.hash_prev_block \in ByteString(32)
      /\ h.hash_merkle_root \in ByteString(32)
      /\ h.hash_final_sapling_root \in ByteString(32)
      /\ h.n_bits_bytes \in ByteString(4)
      /\ h.nonce \in ByteString(32)
      /\ h.solution \in Seq(Bytes) /\ Len(h.solution) <= MaxCompactSize
  BY HeaderFields
\* The nine parts.
<1>2. PICK a1 \in Seq(Bytes) :
        a1 = LEBytes(h.version % U32Mod, 4) /\ Len(a1) = 4 /\ I32(a1) = h.version
  <2>1. /\ LEBytes(h.version % U32Mod, 4) \in Seq(Bytes)
        /\ Len(LEBytes(h.version % U32Mod, 4)) = 4
        /\ I32(LEBytes(h.version % U32Mod, 4)) = h.version
    BY <1>1, VersionRoundTrip
  <2>. QED BY <2>1, Zenon
<1>3. PICK a2 \in Seq(Bytes) : a2 = h.hash_prev_block /\ Len(a2) = 32
  <2>1. h.hash_prev_block \in Seq(Bytes) /\ Len(h.hash_prev_block) = 32
    BY <1>1, ByteStringSeq
  <2>. QED BY <2>1, Zenon
<1>4. PICK a3 \in Seq(Bytes) : a3 = h.hash_merkle_root /\ Len(a3) = 32
  <2>1. h.hash_merkle_root \in Seq(Bytes) /\ Len(h.hash_merkle_root) = 32
    BY <1>1, ByteStringSeq
  <2>. QED BY <2>1, Zenon
<1>5. PICK a4 \in Seq(Bytes) : a4 = h.hash_final_sapling_root /\ Len(a4) = 32
  <2>1. h.hash_final_sapling_root \in Seq(Bytes)
        /\ Len(h.hash_final_sapling_root) = 32
    BY <1>1, ByteStringSeq
  <2>. QED BY <2>1, Zenon
<1>6. PICK a5 \in Seq(Bytes) :
        a5 = LEBytes(h.time, 4) /\ Len(a5) = 4 /\ U32(a5) = h.time
  <2>1. /\ LEBytes(h.time, 4) \in Seq(Bytes) /\ Len(LEBytes(h.time, 4)) = 4
        /\ U32(LEBytes(h.time, 4)) = h.time
    BY <1>1, TimeRoundTrip
  <2>. QED BY <2>1, Zenon
<1>7. PICK a6 \in Seq(Bytes) : a6 = h.n_bits_bytes /\ Len(a6) = 4
  <2>1. h.n_bits_bytes \in Seq(Bytes) /\ Len(h.n_bits_bytes) = 4
    BY <1>1, ByteStringSeq
  <2>. QED BY <2>1, Zenon
<1>8. PICK a7 \in Seq(Bytes) : a7 = h.nonce /\ Len(a7) = 32
  <2>1. h.nonce \in Seq(Bytes) /\ Len(h.nonce) = 32
    BY <1>1, ByteStringSeq
  <2>. QED BY <2>1, Zenon
<1>9. PICK a9 \in Seq(Bytes) : a9 = h.solution BY <1>1, Zenon
<1>10. PICK ns \in Nat : ns = Len(a9) /\ ns <= MaxCompactSize
  <2>1. Len(a9) \in Nat /\ Len(a9) <= MaxCompactSize BY <1>1, <1>9
  <2>. QED BY <2>1, Zenon
<1>11. PICK a8 \in Seq(Bytes) : a8 = WriteCompactSize(ns)
  <2>1. WriteCompactSize(ns) \in Seq(Bytes) BY <1>10, CompactSizeRoundTrip
  <2>. QED BY <2>1, Zenon
\* The prefixes x_k, and to_binary's output is x9.
<1>12. PICK x2 \in Seq(Bytes) : x2 = a1 \o a2
  <2>1. a1 \o a2 \in Seq(Bytes) OBVIOUS
  <2>. QED BY <2>1, Zenon
<1>13. PICK x3 \in Seq(Bytes) : x3 = x2 \o a3
  <2>1. x2 \o a3 \in Seq(Bytes) OBVIOUS
  <2>. QED BY <2>1, Zenon
<1>14. PICK x4 \in Seq(Bytes) : x4 = x3 \o a4
  <2>1. x3 \o a4 \in Seq(Bytes) OBVIOUS
  <2>. QED BY <2>1, Zenon
<1>15. PICK x5 \in Seq(Bytes) : x5 = x4 \o a5
  <2>1. x4 \o a5 \in Seq(Bytes) OBVIOUS
  <2>. QED BY <2>1, Zenon
<1>16. PICK x6 \in Seq(Bytes) : x6 = x5 \o a6
  <2>1. x5 \o a6 \in Seq(Bytes) OBVIOUS
  <2>. QED BY <2>1, Zenon
<1>17. PICK x7 \in Seq(Bytes) : x7 = x6 \o a7
  <2>1. x6 \o a7 \in Seq(Bytes) OBVIOUS
  <2>. QED BY <2>1, Zenon
<1>18. PICK x8 \in Seq(Bytes) : x8 = x7 \o a8
  <2>1. x7 \o a8 \in Seq(Bytes) OBVIOUS
  <2>. QED BY <2>1, Zenon
<1>19. PICK x9 \in Seq(Bytes) : x9 = x8 \o a9
  <2>1. x8 \o a9 \in Seq(Bytes) OBVIOUS
  <2>. QED BY <2>1, Zenon
<1>20. ToBinary(h) = x9
  BY <1>2, <1>3, <1>4, <1>5, <1>6, <1>7, <1>8, <1>9, <1>10, <1>11, <1>12,
     <1>13, <1>14, <1>15, <1>16, <1>17, <1>18, <1>19, Zenon DEF ToBinary
<1>21. /\ Len(x2) = 36 /\ Len(x3) = 68 /\ Len(x4) = 100 /\ Len(x5) = 104
       /\ Len(x6) = 108 /\ Len(x7) = 140
  <2>0. /\ Len(a1) = 4 /\ Len(a2) = 32 /\ Len(a3) = 32 /\ Len(a4) = 32
        /\ Len(a5) = 4 /\ Len(a6) = 4 /\ Len(a7) = 32
    BY <1>2, <1>3, <1>4, <1>5, <1>6, <1>7, <1>8, Zenon
  <2>1. Len(x2) = 36
    <3>1. Len(x2) = Len(a1) + Len(a2) BY <1>12, LenConcat
    <3>. QED BY <2>0, <3>1
  <2>2. Len(x3) = 68
    <3>1. Len(x3) = Len(x2) + Len(a3) BY <1>13, LenConcat
    <3>. QED BY <2>0, <2>1, <3>1
  <2>3. Len(x4) = 100
    <3>1. Len(x4) = Len(x3) + Len(a4) BY <1>14, LenConcat
    <3>. QED BY <2>0, <2>2, <3>1
  <2>4. Len(x5) = 104
    <3>1. Len(x5) = Len(x4) + Len(a5) BY <1>15, LenConcat
    <3>. QED BY <2>0, <2>3, <3>1
  <2>5. Len(x6) = 108
    <3>1. Len(x6) = Len(x5) + Len(a6) BY <1>16, LenConcat
    <3>. QED BY <2>0, <2>4, <3>1
  <2>6. Len(x7) = 140
    <3>1. Len(x7) = Len(x6) + Len(a7) BY <1>17, LenConcat
    <3>. QED BY <2>0, <2>5, <3>1
  <2>. QED BY <2>1, <2>2, <2>3, <2>4, <2>5, <2>6
\* The rests R_k, with d = x_k \o R_k.
<1>22. PICK d \in Seq(Bytes) : d = x9 \o tail
  <2>1. x9 \o tail \in Seq(Bytes) OBVIOUS
  <2>. QED BY <2>1, Zenon
<1>23. PICK R8 \in Seq(Bytes) : R8 = a9 \o tail
  <2>1. a9 \o tail \in Seq(Bytes) OBVIOUS
  <2>. QED BY <2>1, Zenon
<1>24. PICK R7 \in Seq(Bytes) : R7 = a8 \o R8
  <2>1. a8 \o R8 \in Seq(Bytes) OBVIOUS
  <2>. QED BY <2>1, Zenon
<1>25. PICK R6 \in Seq(Bytes) : R6 = a7 \o R7
  <2>1. a7 \o R7 \in Seq(Bytes) OBVIOUS
  <2>. QED BY <2>1, Zenon
<1>26. PICK R5 \in Seq(Bytes) : R5 = a6 \o R6
  <2>1. a6 \o R6 \in Seq(Bytes) OBVIOUS
  <2>. QED BY <2>1, Zenon
<1>27. PICK R4 \in Seq(Bytes) : R4 = a5 \o R5
  <2>1. a5 \o R5 \in Seq(Bytes) OBVIOUS
  <2>. QED BY <2>1, Zenon
<1>28. PICK R3 \in Seq(Bytes) : R3 = a4 \o R4
  <2>1. a4 \o R4 \in Seq(Bytes) OBVIOUS
  <2>. QED BY <2>1, Zenon
<1>29. PICK R2 \in Seq(Bytes) : R2 = a3 \o R3
  <2>1. a3 \o R3 \in Seq(Bytes) OBVIOUS
  <2>. QED BY <2>1, Zenon
<1>30. PICK R1 \in Seq(Bytes) : R1 = a2 \o R2
  <2>1. a2 \o R2 \in Seq(Bytes) OBVIOUS
  <2>. QED BY <2>1, Zenon
\* d = x_k \o R_k, for k = 8 down to 1 (x1 is a1).
<1>31. d = x8 \o R8
  <2>1. Assoc(x8, a9, tail) BY AssocAll
  <2>. QED BY <2>1, <1>19, <1>22, <1>23 DEF Assoc
<1>32. d = x7 \o R7
  <2>1. Assoc(x7, a8, R8) BY AssocAll
  <2>. QED BY <2>1, <1>31, <1>18, <1>24 DEF Assoc
<1>33. d = x6 \o R6
  <2>1. Assoc(x6, a7, R7) BY AssocAll
  <2>. QED BY <2>1, <1>32, <1>17, <1>25 DEF Assoc
<1>34. d = x5 \o R5
  <2>1. Assoc(x5, a6, R6) BY AssocAll
  <2>. QED BY <2>1, <1>33, <1>16, <1>26 DEF Assoc
<1>35. d = x4 \o R4
  <2>1. Assoc(x4, a5, R5) BY AssocAll
  <2>. QED BY <2>1, <1>34, <1>15, <1>27 DEF Assoc
<1>36. d = x3 \o R3
  <2>1. Assoc(x3, a4, R4) BY AssocAll
  <2>. QED BY <2>1, <1>35, <1>14, <1>28 DEF Assoc
<1>37. d = x2 \o R2
  <2>1. Assoc(x2, a3, R3) BY AssocAll
  <2>. QED BY <2>1, <1>36, <1>13, <1>29 DEF Assoc
<1>38. d = a1 \o R1
  <2>1. Assoc(a1, a2, R2) BY AssocAll
  <2>. QED BY <2>1, <1>37, <1>12, <1>30 DEF Assoc
\* Each fixed field read back.
<1>39. ReadExact(d, 0, Len(a1)) = Ok(a1) BY <1>38, FrontField, Zenon
<1>40. ReadExact(d, Len(a1), Len(a2)) = Ok(a2)
  BY <1>37, <1>12, MiddleField, Zenon
<1>41. ReadExact(d, Len(x2), Len(a3)) = Ok(a3)
  BY <1>36, <1>13, MiddleField, Zenon
<1>42. ReadExact(d, Len(x3), Len(a4)) = Ok(a4)
  BY <1>35, <1>14, MiddleField, Zenon
<1>43. ReadExact(d, Len(x4), Len(a5)) = Ok(a5)
  BY <1>34, <1>15, MiddleField, Zenon
<1>44. ReadExact(d, Len(x5), Len(a6)) = Ok(a6)
  BY <1>33, <1>16, MiddleField, Zenon
<1>45. ReadExact(d, Len(x6), Len(a7)) = Ok(a7)
  BY <1>32, <1>17, MiddleField, Zenon
\* The CompactSize, the solution and the rest.
<1>46. ReadCompactSize(d, Len(x7)) = Ok([size |-> ns, pos |-> Len(x7) + Len(a8)])
  <2>1. ReadCompactSize((x7 \o WriteCompactSize(ns)) \o R8, Len(x7))
          = Ok([size |-> ns, pos |-> Len(x7) + Len(WriteCompactSize(ns))])
    BY <1>10, CompactSizeRoundTrip
  <2>2. d = (x7 \o a8) \o R8 BY <1>31, <1>18, Zenon
  <2>. QED BY <2>1, <2>2, <1>11, Zenon
<1>47. ReadExact(d, Len(x8), Len(a9)) = Ok(a9)
  BY <1>22, <1>19, MiddleField, Zenon
<1>48. SubSeq(d, Len(x9) + 1, Len(d)) = tail BY <1>22, RestAfter, Zenon
<1>49. Len(x8) = Len(x7) + Len(a8) /\ Len(x9) = Len(x8) + ns
  <2>1. Len(x8) = Len(x7) + Len(a8) BY <1>18, LenConcat
  <2>2. Len(x9) = Len(x8) + Len(a9) BY <1>19, LenConcat
  <2>. QED BY <2>1, <2>2, <1>10
\* ParseHeader's reads, at the offsets and widths it uses.
<1>50. /\ ReadExact(d, Offset["version"], Width["version"]) = Ok(a1)
       /\ ReadExact(d, Offset["hash_prev_block"], Width["hash_prev_block"]) = Ok(a2)
       /\ ReadExact(d, Offset["hash_merkle_root"], Width["hash_merkle_root"]) = Ok(a3)
       /\ ReadExact(d, Offset["hash_final_sapling_root"],
                    Width["hash_final_sapling_root"]) = Ok(a4)
       /\ ReadExact(d, Offset["time"], Width["time"]) = Ok(a5)
       /\ ReadExact(d, Offset["n_bits_bytes"], Width["n_bits_bytes"]) = Ok(a6)
       /\ ReadExact(d, Offset["nonce"], Width["nonce"]) = Ok(a7)
  <2>0. /\ Len(a1) = 4 /\ Len(a2) = 32 /\ Len(a3) = 32 /\ Len(a4) = 32
        /\ Len(a5) = 4 /\ Len(a6) = 4 /\ Len(a7) = 32
    BY <1>2, <1>3, <1>4, <1>5, <1>6, <1>7, <1>8, Zenon
  <2>1. /\ Offset["version"] = 0 /\ Width["version"] = 4
        /\ Offset["hash_prev_block"] = 4 /\ Width["hash_prev_block"] = 32
        /\ Offset["hash_merkle_root"] = 36 /\ Width["hash_merkle_root"] = 32
        /\ Offset["hash_final_sapling_root"] = 68
        /\ Width["hash_final_sapling_root"] = 32
        /\ Offset["time"] = 100 /\ Width["time"] = 4
        /\ Offset["n_bits_bytes"] = 104 /\ Width["n_bits_bytes"] = 4
        /\ Offset["nonce"] = 108 /\ Width["nonce"] = 32
    BY DEF Offset, Width
  <2>. QED BY <2>0, <2>1, <1>21, <1>39, <1>40, <1>41, <1>42, <1>43, <1>44, <1>45
<1>51. ~\E f \in DOMAIN Width : ReadExact(d, Offset[f], Width[f]).err
  <2>1. DOMAIN Width = {"version", "hash_prev_block", "hash_merkle_root",
                        "hash_final_sapling_root", "time", "n_bits_bytes", "nonce"}
    BY DEF Width
  <2>2. /\ ReadExact(d, Offset["version"], Width["version"]).err = FALSE
        /\ ReadExact(d, Offset["hash_prev_block"], Width["hash_prev_block"]).err = FALSE
        /\ ReadExact(d, Offset["hash_merkle_root"], Width["hash_merkle_root"]).err = FALSE
        /\ ReadExact(d, Offset["hash_final_sapling_root"],
                     Width["hash_final_sapling_root"]).err = FALSE
        /\ ReadExact(d, Offset["time"], Width["time"]).err = FALSE
        /\ ReadExact(d, Offset["n_bits_bytes"], Width["n_bits_bytes"]).err = FALSE
        /\ ReadExact(d, Offset["nonce"], Width["nonce"]).err = FALSE
    BY <1>50 DEF Ok
  <2>. QED BY <2>1, <2>2, Zenon
<1>52. /\ ReadCompactSize(d, FixedLen).err = FALSE
       /\ ReadCompactSize(d, FixedLen).val.pos = Len(x8)
       /\ ReadCompactSize(d, FixedLen).val.size = ns
  <2>1. FixedLen = Len(x7) BY <1>21 DEF FixedLen
  <2>. QED BY <2>1, <1>46, <1>49 DEF Ok
<1>53. ReadExact(d, ReadCompactSize(d, FixedLen).val.pos,
                 ReadCompactSize(d, FixedLen).val.size) = Ok(a9)
  BY <1>52, <1>47, <1>10
<1>54. SubSeq(d, ReadCompactSize(d, FixedLen).val.pos
                 + ReadCompactSize(d, FixedLen).val.size + 1, Len(d)) = tail
  BY <1>52, <1>48, <1>49
<1>55. ParseHeader(d, "none")
         = Ok([rem |-> tail,
               hdr |-> [version |-> I32(a1), hash_prev_block |-> a2,
                        hash_merkle_root |-> a3, hash_final_sapling_root |-> a4,
                        time |-> U32(a5), n_bits_bytes |-> a6, nonce |-> a7,
                        solution |-> a9]])
  <2>1. /\ ReadExact(d, Offset["version"], Width["version"]).val = a1
        /\ ReadExact(d, Offset["hash_prev_block"], Width["hash_prev_block"]).val = a2
        /\ ReadExact(d, Offset["hash_merkle_root"], Width["hash_merkle_root"]).val = a3
        /\ ReadExact(d, Offset["hash_final_sapling_root"],
                     Width["hash_final_sapling_root"]).val = a4
        /\ ReadExact(d, Offset["time"], Width["time"]).val = a5
        /\ ReadExact(d, Offset["n_bits_bytes"], Width["n_bits_bytes"]).val = a6
        /\ ReadExact(d, Offset["nonce"], Width["nonce"]).val = a7
        /\ ReadExact(d, ReadCompactSize(d, FixedLen).val.pos,
                     ReadCompactSize(d, FixedLen).val.size).val = a9
        /\ ReadExact(d, ReadCompactSize(d, FixedLen).val.pos,
                     ReadCompactSize(d, FixedLen).val.size).err = FALSE
    BY <1>50, <1>53 DEF Ok
  <2>. QED BY <2>1, <1>51, <1>52, <1>54, Zenon DEF ParseHeader
<1>56. [version |-> I32(a1), hash_prev_block |-> a2,
        hash_merkle_root |-> a3, hash_final_sapling_root |-> a4,
        time |-> U32(a5), n_bits_bytes |-> a6, nonce |-> a7,
        solution |-> a9] = h
  BY <1>1, <1>2, <1>3, <1>4, <1>5, <1>6, <1>7, <1>8, <1>9
<1>57. ToBinary(h) \o tail = d BY <1>20, <1>22
<1>. QED BY <1>55, <1>56, <1>57
-----------------------------------------------------------------------------
(* Reading a cut-short to_binary output.                                   *)

(* A prefix that reaches past x is x and a prefix of what follows.         *)
LEMMA PrefixConcat ==
  ASSUME NEW x \in Seq(Bytes), NEW y \in Seq(Bytes), NEW k \in Nat,
         Len(x) <= k, k <= Len(x) + Len(y)
  PROVE  SubSeq(x \o y, 1, k) = x \o SubSeq(y, 1, k - Len(x))
OBVIOUS

(* The same, as a named fact that the provers instantiate at once.        *)
PrefixIs(x, y, k) == SubSeq(x \o y, 1, k) = x \o SubSeq(y, 1, k - Len(x))

LEMMA PrefixAll ==
  \A x, y \in Seq(Bytes), k \in Nat :
    Len(x) <= k /\ k <= Len(x) + Len(y) => PrefixIs(x, y, k)
BY PrefixConcat DEF PrefixIs

(* A CompactSize cut short (CompactSize::read on a short input) fails:     *)
(* either the flag byte or some of the bytes it announces are missing.     *)
LEMMA TruncatedCompactSize ==
  ASSUME NEW p \in Seq(Bytes), NEW m \in Nat, m <= MaxCompactSize,
         NEW k \in Nat, k < Len(WriteCompactSize(m))
  PROVE  ReadCompactSize(p \o SubSeq(WriteCompactSize(m), 1, k), Len(p)).err
<1>1. PICK w \in Seq(Bytes) : w = WriteCompactSize(m)
  <2>1. WriteCompactSize(m) \in Seq(Bytes) BY CompactSizeRoundTrip
  <2>. QED BY <2>1, Zenon
<1>2. PICK q \in Seq(Bytes) : q = SubSeq(w, 1, k)
  <2>1. SubSeq(w, 1, k) \in Seq(Bytes) BY <1>1
  <2>. QED BY <2>1, Zenon
<1>3. PICK d \in Seq(Bytes) : d = p \o q
  <2>1. p \o q \in Seq(Bytes) OBVIOUS
  <2>. QED BY <2>1, Zenon
<1>4. Len(d) = Len(p) + k BY <1>1, <1>2, <1>3
<1>. SUFFICES ReadCompactSize(d, Len(p)).err BY <1>1, <1>2, <1>3
<1>5. CASE k = 0
  <2>1. Len(p) + 1 > Len(d) BY <1>4, <1>5
  <2>. QED BY <2>1, Zenon DEF ReadCompactSize, Err
<1>6. CASE k > 0
  \* A cut inside the CompactSize leaves the flag of a long form, and fewer
  \* bytes after it than the flag announces.
  <2>1. /\ w[1] \in Bytes /\ w[1] >= Base - 3
        /\ Len(w) = 1 + SizeWidth(w[1])
    <3>1. Pow2 \in Nat /\ Pow4 \in Nat /\ Base - 3 \in Bytes /\ Base - 2 \in Bytes
          /\ Base - 1 \in Bytes
      BY PowFacts, Thresholds
    <3>2. ~(m < Base - 3)
      <4>1. Len(WriteCompactSize(m)) > 1 BY <1>6
      <4>. QED BY <4>1 DEF WriteCompactSize
    <3>3. CASE m < Pow2
      <4>1. w = <<Base - 3>> \o LEBytes(m, 2) BY <1>1, <3>2, <3>3 DEF WriteCompactSize
      <4>2. LEBytes(m, 2) \in Seq(Bytes) /\ Len(LEBytes(m, 2)) = 2 BY LEBytesType
      <4>3. SizeWidth(Base - 3) = 2 BY DEF SizeWidth
      <4>4. w[1] = Base - 3 BY <3>1, <4>1, <4>2
      <4>5. Len(w) = Len(<<Base - 3>>) + Len(LEBytes(m, 2)) BY <3>1, <4>1, <4>2, LenConcat
      <4>6. Len(<<Base - 3>>) = 1 OBVIOUS
      <4>7. Len(w) = 1 + 2 BY <4>2, <4>5, <4>6
      <4>8. SizeWidth(w[1]) = 2 BY <4>3, <4>4
      <4>. QED BY <3>1, <4>4, <4>7, <4>8 DEF Bytes
    <3>4. CASE ~(m < Pow2) /\ m < Pow4
      <4>1. w = <<Base - 2>> \o LEBytes(m, 4) BY <1>1, <3>2, <3>4, Thresholds DEF WriteCompactSize
      <4>2. LEBytes(m, 4) \in Seq(Bytes) /\ Len(LEBytes(m, 4)) = 4 BY LEBytesType
      <4>3. SizeWidth(Base - 2) = 4 BY DEF SizeWidth
      <4>4. w[1] = Base - 2 BY <3>1, <4>1, <4>2
      <4>5. Len(w) = Len(<<Base - 2>>) + Len(LEBytes(m, 4)) BY <3>1, <4>1, <4>2, LenConcat
      <4>6. Len(<<Base - 2>>) = 1 OBVIOUS
      <4>7. Len(w) = 1 + 4 BY <4>2, <4>5, <4>6
      <4>8. SizeWidth(w[1]) = 4 BY <4>3, <4>4
      <4>. QED BY <3>1, <4>4, <4>7, <4>8 DEF Bytes
    <3>5. CASE ~(m < Pow2) /\ ~(m < Pow4)
      <4>1. w = <<Base - 1>> \o LEBytes(m, 8) BY <1>1, <3>2, <3>5, Thresholds DEF WriteCompactSize
      <4>2. LEBytes(m, 8) \in Seq(Bytes) /\ Len(LEBytes(m, 8)) = 8 BY LEBytesType
      <4>3. SizeWidth(Base - 1) = 8 BY DEF SizeWidth
      <4>4. w[1] = Base - 1 BY <3>1, <4>1, <4>2
      <4>5. Len(w) = Len(<<Base - 1>>) + Len(LEBytes(m, 8)) BY <3>1, <4>1, <4>2, LenConcat
      <4>6. Len(<<Base - 1>>) = 1 OBVIOUS
      <4>7. Len(w) = 1 + 8 BY <4>2, <4>5, <4>6
      <4>8. SizeWidth(w[1]) = 8 BY <4>3, <4>4
      <4>. QED BY <3>1, <4>4, <4>7, <4>8 DEF Bytes
    <3>. QED BY <3>3, <3>4, <3>5
  <2>2. d[Len(p) + 1] = w[1] BY <1>1, <1>2, <1>3, <1>6
  <2>3. PICK f \in Bytes : f = w[1] /\ f = d[Len(p) + 1] BY <2>1, <2>2, Zenon
  <2>4. ~(Len(p) + 1 > Len(d)) BY <1>4, <1>6
  <2>5. ~(f < Base - 3) BY <2>1, <2>3 DEF Bytes
  <2>6. k < Len(w) BY <1>1
  <2>7. SizeWidth(f) = SizeWidth(w[1]) /\ SizeWidth(f) \in Nat BY <2>3 DEF SizeWidth
  <2>8. Len(p) + 1 + SizeWidth(f) > Len(d) BY <1>4, <2>1, <2>6, <2>7
  <2>. QED BY <2>3, <2>4, <2>5, <2>8, Zenon DEF ReadCompactSize, Err
<1>. QED BY <1>5, <1>6

(* to_binary's output is 140 bytes of fixed fields, the CompactSize of the *)
(* solution's length, and the solution.                                    *)
LEMMA ToBinaryShape ==
  ASSUME NEW h \in HeaderData
  PROVE  \E x7 \in Seq(Bytes), a9 \in Seq(Bytes) :
           /\ Len(x7) = 140 /\ Len(a9) <= MaxCompactSize
           /\ ToBinary(h) = (x7 \o WriteCompactSize(Len(a9))) \o a9
<1>1. /\ h.version \in -(U32Mod \div 2) .. U32Mod \div 2 - 1
      /\ h.time \in 0 .. U32Mod - 1
      /\ h.hash_prev_block \in ByteString(32)
      /\ h.hash_merkle_root \in ByteString(32)
      /\ h.hash_final_sapling_root \in ByteString(32)
      /\ h.n_bits_bytes \in ByteString(4)
      /\ h.nonce \in ByteString(32)
      /\ h.solution \in Seq(Bytes) /\ Len(h.solution) <= MaxCompactSize
  BY HeaderFields
<1>2. /\ LEBytes(h.version % U32Mod, 4) \in Seq(Bytes)
      /\ Len(LEBytes(h.version % U32Mod, 4)) = 4
      /\ LEBytes(h.time, 4) \in Seq(Bytes) /\ Len(LEBytes(h.time, 4)) = 4
  BY <1>1, VersionRoundTrip, TimeRoundTrip
<1>3. /\ h.hash_prev_block \in Seq(Bytes) /\ Len(h.hash_prev_block) = 32
      /\ h.hash_merkle_root \in Seq(Bytes) /\ Len(h.hash_merkle_root) = 32
      /\ h.hash_final_sapling_root \in Seq(Bytes)
      /\ Len(h.hash_final_sapling_root) = 32
      /\ h.n_bits_bytes \in Seq(Bytes) /\ Len(h.n_bits_bytes) = 4
      /\ h.nonce \in Seq(Bytes) /\ Len(h.nonce) = 32
  BY <1>1, ByteStringSeq
<1>4. PICK x1 \in Seq(Bytes) : x1 = LEBytes(h.version % U32Mod, 4) BY <1>2, Zenon
<1>5. PICK x2 \in Seq(Bytes) : x2 = x1 \o h.hash_prev_block
  <2>1. x1 \o h.hash_prev_block \in Seq(Bytes) BY <1>3
  <2>. QED BY <2>1, Zenon
<1>6. PICK x3 \in Seq(Bytes) : x3 = x2 \o h.hash_merkle_root
  <2>1. x2 \o h.hash_merkle_root \in Seq(Bytes) BY <1>3
  <2>. QED BY <2>1, Zenon
<1>7. PICK x4 \in Seq(Bytes) : x4 = x3 \o h.hash_final_sapling_root
  <2>1. x3 \o h.hash_final_sapling_root \in Seq(Bytes) BY <1>3
  <2>. QED BY <2>1, Zenon
<1>8. PICK x5 \in Seq(Bytes) : x5 = x4 \o LEBytes(h.time, 4)
  <2>1. x4 \o LEBytes(h.time, 4) \in Seq(Bytes) BY <1>2
  <2>. QED BY <2>1, Zenon
<1>9. PICK x6 \in Seq(Bytes) : x6 = x5 \o h.n_bits_bytes
  <2>1. x5 \o h.n_bits_bytes \in Seq(Bytes) BY <1>3
  <2>. QED BY <2>1, Zenon
<1>10. PICK x7 \in Seq(Bytes) : x7 = x6 \o h.nonce
  <2>1. x6 \o h.nonce \in Seq(Bytes) BY <1>3
  <2>. QED BY <2>1, Zenon
<1>11. Len(x7) = 140
  <2>1. Len(x2) = 36
    <3>1. Len(x2) = Len(x1) + Len(h.hash_prev_block) BY <1>3, <1>5, LenConcat
    <3>2. Len(x1) = 4 BY <1>2, <1>4, Zenon
    <3>. QED BY <1>3, <3>1, <3>2
  <2>2. Len(x3) = 68
    <3>1. Len(x3) = Len(x2) + Len(h.hash_merkle_root) BY <1>3, <1>6, LenConcat
    <3>. QED BY <1>3, <2>1, <3>1
  <2>3. Len(x4) = 100
    <3>1. Len(x4) = Len(x3) + Len(h.hash_final_sapling_root) BY <1>3, <1>7, LenConcat
    <3>. QED BY <1>3, <2>2, <3>1
  <2>4. Len(x5) = 104
    <3>1. Len(x5) = Len(x4) + Len(LEBytes(h.time, 4)) BY <1>2, <1>8, LenConcat
    <3>2. PICK t \in Seq(Bytes) : t = LEBytes(h.time, 4) /\ Len(t) = 4 BY <1>2, Zenon
    <3>3. Len(x5) = Len(x4) + Len(t) BY <3>1, <3>2, Zenon
    <3>. QED BY <2>3, <3>2, <3>3
  <2>5. Len(x6) = 108
    <3>1. Len(x6) = Len(x5) + Len(h.n_bits_bytes) BY <1>3, <1>9, LenConcat
    <3>. QED BY <1>3, <2>4, <3>1
  <2>6. Len(x7) = Len(x6) + Len(h.nonce) BY <1>3, <1>10, LenConcat
  <2>. QED BY <1>3, <2>5, <2>6
<1>12. ToBinary(h) = (x7 \o WriteCompactSize(Len(h.solution))) \o h.solution
  BY <1>4, <1>5, <1>6, <1>7, <1>8, <1>9, <1>10, Zenon DEF ToBinary
<1>13. h.solution \in Seq(Bytes) /\ Len(h.solution) <= MaxCompactSize BY <1>1, Zenon
<1>14. PICK a9 \in Seq(Bytes) : a9 = h.solution BY <1>13, Zenon
<1>15. /\ Len(a9) <= MaxCompactSize
       /\ ToBinary(h) = (x7 \o WriteCompactSize(Len(a9))) \o a9
  BY <1>12, <1>13, <1>14, Zenon
<1>. QED BY <1>11, <1>15, Zenon

(* parse_from_slice returns a header only when its nonce read, its         *)
(* CompactSize read and its solution read all succeed.                     *)
LEMMA ParseNeedsReads ==
  ASSUME NEW data, ~ParseHeader(data, "none").err
  PROVE  /\ ~ReadExact(data, Offset["nonce"], Width["nonce"]).err
         /\ ~ReadCompactSize(data, FixedLen).err
         /\ ~ReadExact(data, ReadCompactSize(data, FixedLen).val.pos,
                       ReadCompactSize(data, FixedLen).val.size).err
<1>1. "nonce" \in DOMAIN Width BY DEF Width
<1>2. Err.err BY DEF Err
<1>. QED BY <1>1, <1>2, Zenon DEF ParseHeader

(* Any strict prefix of to_binary's output is refused by parse_from_slice: *)
(* cut in the fixed fields the nonce read fails, cut in the CompactSize    *)
(* its read fails, cut in the solution the solution read fails.            *)
LEMMA TruncatedRejected ==
  ASSUME NEW h \in HeaderData, NEW n \in Nat, n < Len(ToBinary(h))
  PROVE  ParseHeader(SubSeq(ToBinary(h), 1, n), "none").err
<1>1. PICK x7 \in Seq(Bytes), a9 \in Seq(Bytes) :
        /\ Len(x7) = 140 /\ Len(a9) <= MaxCompactSize
        /\ ToBinary(h) = (x7 \o WriteCompactSize(Len(a9))) \o a9
  BY ToBinaryShape
<1>2. PICK ns \in Nat : ns = Len(a9) /\ ns <= MaxCompactSize
  <2>1. Len(a9) \in Nat OBVIOUS
  <2>. QED BY <1>1, <2>1, Zenon
<1>3. PICK a8 \in Seq(Bytes) : a8 = WriteCompactSize(ns)
  <2>1. WriteCompactSize(ns) \in Seq(Bytes) BY <1>2, CompactSizeRoundTrip
  <2>. QED BY <2>1, Zenon
<1>4. PICK x8 \in Seq(Bytes) : x8 = x7 \o a8
  <2>1. x7 \o a8 \in Seq(Bytes) OBVIOUS
  <2>. QED BY <2>1, Zenon
<1>5. ToBinary(h) = x8 \o a9 BY <1>1, <1>2, <1>3, <1>4, Zenon
<1>6. Len(x8) = 140 + Len(a8) /\ Len(x8 \o a9) = Len(x8) + ns
  <2>1. Len(x8) = Len(x7) + Len(a8) BY <1>4, LenConcat
  <2>2. Len(x8 \o a9) = Len(x8) + Len(a9) BY LenConcat
  <2>. QED BY <1>1, <1>2, <2>1, <2>2
<1>7. PICK d \in Seq(Bytes) : d = SubSeq(x8 \o a9, 1, n) /\ Len(d) = n
  <2>1. SubSeq(x8 \o a9, 1, n) \in Seq(Bytes) /\ Len(SubSeq(x8 \o a9, 1, n)) = n
    BY <1>5, <1>6
  <2>. QED BY <2>1, Zenon
<1>. SUFFICES ParseHeader(d, "none").err BY <1>5, <1>7
<1>. SUFFICES ASSUME ~ParseHeader(d, "none").err PROVE FALSE OBVIOUS
<1>8. /\ ~ReadExact(d, Offset["nonce"], Width["nonce"]).err
      /\ ~ReadCompactSize(d, FixedLen).err
      /\ ~ReadExact(d, ReadCompactSize(d, FixedLen).val.pos,
                    ReadCompactSize(d, FixedLen).val.size).err
  BY ParseNeedsReads
<1>9. CASE n < 140
  <2>1. ReadExact(d, Offset["nonce"], Width["nonce"]).err
    BY <1>7, <1>9 DEF ReadExact, Err, Offset, Width
  <2>. QED BY <1>8, <2>1
<1>10. CASE 140 <= n /\ n < Len(x8)
  <2>1. PICK q \in Seq(Bytes) : q = SubSeq(a8, 1, n - 140)
    <3>1. SubSeq(a8, 1, n - 140) \in Seq(Bytes) BY <1>1, <1>6, <1>10
    <3>. QED BY <3>1, Zenon
  <2>2. d = x7 \o q
    <3>1. Assoc(x7, a8, a9) BY AssocAll
    <3>2. SubSeq(x7 \o (a8 \o a9), 1, n) = x7 \o SubSeq(a8 \o a9, 1, n - 140)
      <4>1. PICK y \in Seq(Bytes) : y = a8 \o a9
        <5>1. a8 \o a9 \in Seq(Bytes) OBVIOUS
        <5>. QED BY <5>1, Zenon
      <4>2. Len(x7) <= n /\ n <= Len(x7) + Len(y)
        <5>1. Len(y) = Len(a8) + Len(a9) BY <4>1, LenConcat
        <5>. QED BY <1>1, <1>6, <1>10, <5>1
      <4>3. PrefixIs(x7, y, n) BY <4>2, PrefixAll
      <4>. QED BY <1>1, <4>1, <4>3 DEF PrefixIs
    <3>3. SubSeq(a8 \o a9, 1, n - 140) = q BY <1>6, <1>10, <2>1
    <3>. QED BY <1>4, <1>7, <3>1, <3>2, <3>3 DEF Assoc
  <2>3. ReadCompactSize(x7 \o SubSeq(WriteCompactSize(ns), 1, n - 140), Len(x7)).err
    <3>1. n - 140 \in Nat /\ n - 140 < Len(WriteCompactSize(ns)) BY <1>3, <1>6, <1>10
    <3>. QED BY <1>2, <3>1, TruncatedCompactSize
  <2>4. ReadCompactSize(d, FixedLen).err BY <1>1, <1>3, <2>1, <2>2, <2>3 DEF FixedLen
  <2>. QED BY <1>8, <2>4
<1>11. CASE Len(x8) <= n
  <2>1. PICK r \in Seq(Bytes) : r = SubSeq(a9, 1, n - Len(x8))
    <3>1. SubSeq(a9, 1, n - Len(x8)) \in Seq(Bytes) BY <1>2, <1>5, <1>6, <1>11
    <3>. QED BY <3>1, Zenon
  <2>2. d = (x7 \o a8) \o r
    <3>1. Len(x8) <= n /\ n <= Len(x8) + Len(a9) BY <1>2, <1>5, <1>6, <1>11
    <3>2. PrefixIs(x8, a9, n) BY <3>1, PrefixAll
    <3>. QED BY <1>4, <1>7, <2>1, <3>2 DEF PrefixIs
  <2>3. ReadCompactSize((x7 \o WriteCompactSize(ns)) \o r, Len(x7))
          = Ok([size |-> ns, pos |-> Len(x7) + Len(WriteCompactSize(ns))])
    BY <1>2, CompactSizeRoundTrip
  <2>4. /\ ReadCompactSize(d, FixedLen).val.pos = Len(x8)
        /\ ReadCompactSize(d, FixedLen).val.size = ns
    BY <1>1, <1>3, <1>6, <2>2, <2>3 DEF FixedLen, Ok
  <2>5. ReadExact(d, Len(x8), ns).err BY <1>5, <1>6, <1>7 DEF ReadExact, Err
  <2>. QED BY <1>8, <2>4, <2>5
<1>. QED BY <1>9, <1>10, <1>11

-----------------------------------------------------------------------------
(* Every header parse_from_slice is given, as written by to_binary and     *)
(* followed by any further bytes of the block, parses back to that header  *)
(* and leaves exactly the following bytes (BlockHeaderData::to_binary,     *)
(* then parse_from_slice), for every byte range of at least 16 values.     *)
(* The header under test is one of the headers the model is given.        *)
HdrInHeaders == hdr \in Headers

THEOREM HeaderRoundTripHolds == Spec => []HeaderRoundTrip
<1>1. Init => HdrInHeaders BY DEF Init, HdrInHeaders
<1>2. HdrInHeaders /\ [Next]_hdr => HdrInHeaders' BY DEF Next, HdrInHeaders
<1>3. HdrInHeaders => HeaderRoundTrip
  <2>. SUFFICES ASSUME HdrInHeaders, NEW tail \in Tails
                PROVE  ParseHeader(ToBinary(hdr) \o tail, "none")
                         = Ok([rem |-> tail, hdr |-> hdr])
    BY DEF HeaderRoundTrip
  <2>1. hdr \in HeaderData /\ tail \in Seq(Bytes)
    BY HeadersAssumption DEF HdrInHeaders
  <2>. QED BY <2>1, ParseToBinary
<1>. QED BY <1>1, <1>2, <1>3, PTL DEF Spec

(* No strict prefix of a header's to_binary output, cut in a fixed field,  *)
(* in the CompactSize or in the solution, parses as a header: the parser   *)
(* reports ParseError (parse_from_slice's read_bytes and CompactSize::read *)
(* on a short input), for every byte range of at least 16 values.          *)
THEOREM TruncatedHeaderRejectedHolds == Spec => []TruncatedHeaderRejected
<1>1. Init => HdrInHeaders BY DEF Init, HdrInHeaders
<1>2. HdrInHeaders /\ [Next]_hdr => HdrInHeaders' BY DEF Next, HdrInHeaders
<1>3. HdrInHeaders => TruncatedHeaderRejected
  <2>. SUFFICES ASSUME HdrInHeaders, NEW n \in 0 .. Len(ToBinary(hdr)) - 1
                PROVE  ParseHeader(SubSeq(ToBinary(hdr), 1, n), "none").err
    BY DEF TruncatedHeaderRejected
  <2>1. hdr \in HeaderData BY HeadersAssumption DEF HdrInHeaders
  <2>2. ToBinary(hdr) \in Seq(Bytes)
    <3>1. PICK x7 \in Seq(Bytes), a9 \in Seq(Bytes) :
            /\ Len(x7) = 140 /\ Len(a9) <= MaxCompactSize
            /\ ToBinary(hdr) = (x7 \o WriteCompactSize(Len(a9))) \o a9
      BY <2>1, ToBinaryShape
    <3>2. PICK m \in Nat : m = Len(a9) /\ m <= MaxCompactSize
      <4>1. Len(a9) \in Nat OBVIOUS
      <4>. QED BY <3>1, <4>1, Zenon
    <3>3. WriteCompactSize(m) \in Seq(Bytes) BY <3>2, CompactSizeRoundTrip
    <3>4. (x7 \o WriteCompactSize(m)) \o a9 \in Seq(Bytes) BY <3>3
    <3>. QED BY <3>1, <3>2, <3>4, Zenon
  <2>3. n \in Nat /\ n < Len(ToBinary(hdr)) BY <2>2
  <2>. QED BY <2>1, <2>3, TruncatedRejected
<1>. QED BY <1>1, <1>2, <1>3, PTL DEF Spec

=============================================================================
