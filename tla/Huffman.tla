------------------------------ MODULE Huffman ------------------------------
(***************************************************************************)
(* What both halves of miniz's Deflate share: numbers as bits, canonical   *)
(* Huffman codes, and the symbols that stand for the lengths and the       *)
(* distances of matches.  A table is, for every code size, the sequence of *)
(* the symbols that have it, in order.                                     *)
(***************************************************************************)
EXTENDS Integers, Sequences, FiniteSets

MaxSize == 15   \* of a code that a decoder can read

(* Bits go into the stream from the lowest up.                              *)
Bits(v, n) == [i \in 1..n |-> (v \div 2^(i - 1)) % 2]

(* The sum of a sequence of numbers, and the sequences of a sequence joined. *)
RECURSIVE Total(_)
Total(s) ==
  LET half == Len(s) \div 2
  IN  CASE s = <<>> -> 0
        [] Len(s) = 1 -> s[1]
        [] Len(s) > 1 -> Total(SubSeq(s, 1, half)) + Total(SubSeq(s, half + 1, Len(s)))

RECURSIVE Concat(_)
Concat(s) ==
  LET half == Len(s) \div 2
  IN  CASE s = <<>> -> <<>>
        [] Len(s) = 1 -> s[1]
        [] Len(s) > 1 -> Concat(SubSeq(s, 1, half)) \o Concat(SubSeq(s, half + 1, Len(s)))

Value(bits) == Total([i \in 1..Len(bits) |-> bits[i] * 2^(i - 1)])

Pad(bits) == bits \o [i \in 1..((-Len(bits)) % 8) |-> 0]

(* A sequence given by a rule, worked out once.                             *)
Listed(s) == SubSeq(s, 1, Len(s))

(* sizes[s + 1] is the size of the code of s, 0 if it has none.             *)
Table(sizes) ==
  LET syms == Listed([i \in 1..Len(sizes) |-> i - 1])
  IN  Listed([l \in 1..MaxSize |-> SelectSeq(syms, LAMBDA s : sizes[s + 1] = l)])

(* next_code: the first code of each size; past the longest, the space that *)
(* the codes fill, out of 2^16.                                             *)
next_code(table) ==
  LET c[l \in 1..MaxSize + 1] == IF l = 1 THEN 0 ELSE 2 * (c[l - 1] + Len(table[l - 1]))
  IN  c

UsedSyms(table) == Total([l \in 1..MaxSize |-> Len(table[l])])

(* The code of a symbol, its highest bit first.                             *)
Code(table, s) ==
  LET l == CHOOSE n \in 1..MaxSize : \E i \in DOMAIN table[n] : table[n][i] = s
      c == next_code(table)[l] + (CHOOSE i \in DOMAIN table[l] : table[l][i] = s) - 1
  IN  [j \in 1..l |-> (c \div 2^(l - j)) % 2]

-----------------------------------------------------------------------------

StaticLitSizes ==
  [i \in 1..288 |-> IF i <= 144 THEN 8 ELSE IF i <= 256 THEN 9 ELSE IF i <= 280 THEN 7 ELSE 8]

StaticDistSizes == [i \in 1..32 |-> 5]

EndOfBlock == 256

(* The first length or distance of each symbol, and how many bits choose    *)
(* among those that share it.  The symbols past the last have none.         *)
LengthBase ==
  <<3, 4, 5, 6, 7, 8, 9, 10, 11, 13, 15, 17, 19, 23, 27, 31, 35, 43, 51, 59,
    67, 83, 99, 115, 131, 163, 195, 227, 258, 0, 0>>

LengthExtra(sym) ==
  IF sym < 265 \/ sym >= 285 THEN 0 ELSE (sym - 261) \div 4

DistBase ==
  <<1, 2, 3, 4, 5, 7, 9, 13, 17, 25, 33, 49, 65, 97, 129, 193, 257, 385, 513,
    769, 1025, 1537, 2049, 3073, 4097, 6145, 8193, 12289, 16385, 24577, 0, 0>>

DistExtra(sym) == IF sym < 4 \/ sym >= 30 THEN 0 ELSE (sym - 2) \div 2

(* In which order the sizes of the codes for code sizes are listed.         *)
Dezigzag == <<16, 17, 18, 0, 8, 7, 9, 6, 10, 5, 11, 4, 12, 3, 13, 2, 14, 1, 15>>

RepeatExtra == [s \in 16..18 |-> CASE s = 16 -> 2 [] s = 17 -> 3 [] s = 18 -> 7]

-----------------------------------------------------------------------------

(* The checksum's four bytes.  s2 adds up s1 after every byte, so it has a  *)
(* byte as often as there are bytes from it on.  The code takes the modulus *)
(* every 5552 bytes, before 32 bits overflow.                               *)
mz_adler32(bytes) ==
  LET n  == Len(bytes)
      s1 == (1 + Total(bytes)) % 65521
      s2 == (n + Total([i \in 1..n |-> (n - i + 1) * bytes[i]])) % 65521
  IN  <<s2 \div 256, s2 % 256, s1 \div 256, s1 % 256>>

=============================================================================
