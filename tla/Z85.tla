-------------------------------- MODULE Z85 --------------------------------
(***************************************************************************)
(* The Z85 codec of src/src/z85.c: four bytes are one 32-bit word and five *)
(* digits in base 85, with a leading digit that counts the bytes of the    *)
(* last word.  A character is the digit it stands for: base85 begins with  *)
(* the decimal digits, so the padding character '0' + k is the digit k.    *)
(* Sizes are parameters, so that the word is wider than TLC's integers in  *)
(* the code and narrower in a small instance.                              *)
(***************************************************************************)
EXTENDS Integers, Sequences

CONSTANTS
  ByteSize,   \* 256
  Base,       \* 85
  Magic,      \* DIV85_MAGIC
  Shift       \* 2^38: DIV85 shifts by 32 and by 6

WordSize == ByteSize * ByteSize * ByteSize * ByteSize

(* Five digits are enough for a word, and Magic / Shift is 1 / Base rounded *)
(* up, closely enough.                                                      *)
ASSUME Z85Assumption ==
  /\ ByteSize \in Nat \ {0}
  /\ Base \in Nat /\ Base >= 5
  /\ Magic \in Nat /\ Shift \in Nat \ {0}
  /\ WordSize <= Base * Base * Base * Base * Base
  /\ Magic * Base >= Shift
  /\ (Magic * Base - Shift) * (WordSize \div Base + 1) < Magic

Byte  == 0..(ByteSize - 1)
Digit == 0..(Base - 1)
Word  == 0..(WordSize - 1)

-----------------------------------------------------------------------------
(* One word.                                                                *)

DIV85(n) == (Magic * n) \div Shift

(* The big-endian frame of four bytes.                                      *)
Unpack(b) ==
  b[1] * (ByteSize * ByteSize * ByteSize) + b[2] * (ByteSize * ByteSize)
    + b[3] * ByteSize + b[4]

Pack(v) ==
  <<v \div (ByteSize * ByteSize * ByteSize), (v \div (ByteSize * ByteSize)) % ByteSize,
    (v \div ByteSize) % ByteSize, v % ByteSize>>

EncodeWord(v) ==
  LET v4 == DIV85(v)
      v3 == DIV85(v4)
      v2 == DIV85(v3)
      v1 == DIV85(v2)
  IN  <<v1, v2 - v1 * Base, v3 - v2 * Base, v4 - v3 * Base, v - v4 * Base>>

(* Unsigned arithmetic: what is above a word is lost.                       *)
Shifted(v, d) == (v * Base + d) % WordSize

DecodeWord(c) ==
  Shifted(Shifted(Shifted(Shifted(c[1], c[2]), c[3]), c[4]), c[5])

-----------------------------------------------------------------------------
(* Whole words.                                                             *)

(* The i-th of the groups of n into which s is cut.                         *)
Group(s, n, i) == SubSeq(s, n * (i - 1) + 1, n * i)

Z85_encode_unsafe(src) ==
  [i \in 1..(5 * (Len(src) \div 4)) |->
     EncodeWord(Unpack(Group(src, 4, (i - 1) \div 5 + 1)))[((i - 1) % 5) + 1]]

Z85_decode_unsafe(src) ==
  [i \in 1..(4 * (Len(src) \div 5)) |->
     Pack(DecodeWord(Group(src, 5, (i - 1) \div 4 + 1)))[((i - 1) % 4) + 1]]

Z85_encode_bound(size) == (size * 5) \div 4

Z85_decode_bound(size) == (size * 4) \div 5

-----------------------------------------------------------------------------
(* Any number of bytes: the last word is filled with zeros.                 *)

(* Variant, to see BuffersHold of WsClient fail: the last word is not        *)
(* rounded up.                                                              *)
Z85_encode_with_padding_bound_NoRounding(size) ==
  IF size = 0 THEN 0 ELSE Z85_encode_bound(size) + 1

Z85_encode_with_padding_bound(size) ==
  IF size = 0 THEN 0
  ELSE LET bound == Z85_encode_bound(size)
       IN  bound + ((5 - (bound % 5)) % 5) + 1

Z85_decode_with_padding_bound(src) ==
  LET size  == Len(src)
      bound == Z85_decode_bound(size - 1)
  IN  IF size = 0 \/ src[1] \notin 1..4 \/ bound + src[1] < 4
      THEN 0
      ELSE bound + src[1] - 4

TailBytes(m) == Len(m) % 4

Padded(m) ==
  [i \in 1..(4 * ((Len(m) + 3) \div 4)) |-> IF i <= Len(m) THEN m[i] ELSE 0]

Z85_encode_with_padding(m) ==
  IF m = <<>> THEN <<>>
  ELSE <<IF TailBytes(m) = 0 THEN 4 ELSE TailBytes(m)>> \o Z85_encode_unsafe(Padded(m))

(* What the assertion of Z85_decode_with_padding lets through; the other    *)
(* one looks at the padding digit.                                          *)
WholeGroups(src) == src # <<>> /\ (Len(src) - 1) % 5 = 0

Decodable(src) == WholeGroups(src) /\ src[1] \in 1..4

(* Variant, to see OnlyKnownLosses of WsClient fail: the zeros of the last  *)
(* word are kept.                                                           *)
Z85_decode_with_padding_KeepsZeros(src) == Z85_decode_unsafe(Tail(src))

(* Of a block with at least one group.                                      *)
Z85_decode_with_padding(src) ==
  LET all == Z85_decode_unsafe(Tail(src))
  IN  SubSeq(all, 1, Len(all) - 4 + src[1])
=============================================================================
