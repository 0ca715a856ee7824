------------------------------ MODULE Z85Proofs ------------------------------
(***************************************************************************)
(* What a client relies on in z85.c, for messages of every length: a block *)
(* decodes to the message it was made from, and fits its buffer.           *)
(***************************************************************************)
EXTENDS Z85, SequenceTheorems, TLAPS

(* Division is unique.                                                      *)
LEMMA DivUnique ==
  ASSUME NEW n \in Int, NEW d \in Nat \ {0}, NEW q \in Int, NEW r \in 0..(d - 1),
         n = (q * d) + r
  PROVE  n \div d = q /\ n % d = r
<1>1. /\ n \div d \in Int /\ (n % d) \in 0..(d - 1)
      /\ n = (d * (n \div d)) + (n % d)
  BY SMT
<1> DEFINE p == n \div d
<1> DEFINE s == n % d
<1>2. p \in Int /\ s \in 0..(d - 1) /\ (q * d) + r = (d * p) + s
  BY <1>1
<1> HIDE DEF p, s
<1>3. p = q
  <2>1. (q - p) * d = s - r
    BY <1>2, SMT
  <2>2. ASSUME q - p >= 1 PROVE FALSE
    <3>1. (q - p) * d >= d
      BY <2>2, <1>2, SMT
    <3> QED  BY <3>1, <2>1, <1>2, SMT
  <2>3. ASSUME q - p <= -1 PROVE FALSE
    <3>1. (q - p) * d <= -d
      BY <2>3, <1>2, SMT
    <3> QED  BY <3>1, <2>1, <1>2, SMT
  <2> QED  BY <2>2, <2>3, <1>2, SMT
<1>4. s = r
  BY <1>2, <1>3, SMT
<1> QED
  BY <1>3, <1>4 DEF p, s

(* The constants of the codec are numbers, and so is the number of its      *)
(* words.                                                                   *)
LEMMA Sizes ==
  /\ ByteSize \in Nat \ {0} /\ Base \in Nat \ {0} /\ Magic \in Nat /\ Shift \in Nat \ {0}
  /\ WordSize \in Nat \ {0}
<1>1. ByteSize * ByteSize \in Nat \ {0}
  BY Z85Assumption, SMT
<1>2. ByteSize * ByteSize * ByteSize \in Nat \ {0}
  BY <1>1, Z85Assumption, SMT
<1>3. ByteSize * ByteSize * ByteSize * ByteSize \in Nat \ {0}
  BY <1>2, Z85Assumption, SMT
<1> QED
  BY <1>3, Z85Assumption, SMT DEF WordSize

(* A larger factor, a larger product.                                       *)
LEMMA Monotone ==
  ASSUME NEW a \in Int, NEW b \in Int, NEW c \in Nat, a <= b
  PROVE  a * c <= b * c /\ c * a <= c * b
OBVIOUS

(* The multiplication and the shift of DIV85 divide every 32-bit word       *)
(* exactly, whatever the constants are as long as Z85Assumption holds.      *)
THEOREM DivExact == \A n \in Word : DIV85(n) = n \div Base
<1> SUFFICES ASSUME NEW n \in Word
             PROVE  DIV85(n) = n \div Base
  OBVIOUS
<1> DEFINE q == n \div Base
<1> DEFINE r == n % Base
<1> DEFINE e == (Magic * Base) - Shift
<1> DEFINE top == WordSize \div Base
<1> DEFINE left == WordSize % Base
<1>1. /\ n \in Nat /\ n < WordSize
      /\ q \in Nat /\ r \in 0..(Base - 1) /\ n = (Base * q) + r
  BY Sizes, SMT DEF Word
<1>2. top \in Nat /\ left \in 0..(Base - 1) /\ WordSize = (Base * top) + left
  BY Sizes, SMT
<1>3. e \in Nat /\ e * (top + 1) < Magic /\ Magic * Base = Shift + e
  <2>1. Magic * Base \in Nat
    BY Sizes, SMT
  <2>2. ((Magic * Base) - Shift) * ((WordSize \div Base) + 1) < Magic /\ Magic * Base >= Shift
    BY Z85Assumption
  <2> QED  BY <2>1, <2>2, Sizes, SMT
<1> HIDE DEF q, r, e, top, left
<1>4. q <= top
  <2>1. ASSUME top + 1 <= q PROVE FALSE
    <3>1. Base * (top + 1) <= Base * q
      BY <2>1, <1>1, <1>2, Sizes, Monotone
    <3>2. Base * (top + 1) = (Base * top) + Base
      BY <1>2, Sizes, SMT
    <3>3. Base * top \in Nat /\ Base * q \in Nat
      BY <1>1, <1>2, Sizes, SMT
    <3> QED  BY <3>1, <3>2, <3>3, <1>1, <1>2, Sizes, SMT
  <2> QED  BY <2>1, <1>1, <1>2, SMT
<1>5. e * (q + 1) < Magic
  <2>1. e * (q + 1) <= e * (top + 1)
    BY <1>1, <1>2, <1>3, <1>4, Monotone, SMT
  <2>2. e * (q + 1) \in Int /\ e * (top + 1) \in Int
    BY <1>1, <1>2, <1>3, SMT
  <2> QED  BY <2>1, <2>2, <1>3, Sizes, SMT
<1> DEFINE t == (e * q) + (Magic * r)
<1>6. t \in 0..(Shift - 1)
  <2>1. Magic * r <= Magic * (Base - 1)
    BY <1>1, Sizes, Monotone, SMT
  <2>2. Magic * (Base - 1) = Shift + e - Magic
    <3>1. Magic * (Base - 1) = (Magic * Base) - Magic
      BY Sizes, SMT
    <3> QED  BY <3>1, <1>3, Sizes, SMT
  <2>3. e * (q + 1) = (e * q) + e
    BY <1>1, <1>3, SMT
  <2>4. e * q \in Nat /\ Magic * r \in Nat
    BY <1>1, <1>3, Sizes, SMT
  <2> QED  BY <2>1, <2>2, <2>3, <2>4, <1>3, <1>5, Sizes, SMT
<1>7. Magic * n = (q * Shift) + t
  <2>1. Magic * ((Base * q) + r) = ((Magic * Base) * q) + (Magic * r)
    BY <1>1, Sizes, SMT
  <2>2. (Shift + e) * q = (q * Shift) + (e * q)
    BY <1>1, <1>3, Sizes, SMT
  <2>3. e * q \in Nat /\ Magic * r \in Nat /\ q * Shift \in Nat
    BY <1>1, <1>3, Sizes, SMT
  <2> QED  BY <2>1, <2>2, <2>3, <1>1, <1>3, SMT
<1>8. Magic * n \in Int
  BY <1>1, Sizes, SMT
<1> HIDE DEF t
<1>9. (Magic * n) \div Shift = q
  BY <1>1, <1>6, <1>7, <1>8, Sizes, DivUnique
<1> QED
  BY <1>9 DEF DIV85, q

-----------------------------------------------------------------------------
(* One word.                                                                *)

(* DIV85 divides a word: what it leaves of the word is a digit, and a word  *)
(* below k times the base has a quotient below k.                           *)
LEMMA Divided ==
  ASSUME NEW n \in Word
  PROVE  /\ DIV85(n) \in Word
         /\ n - (DIV85(n) * Base) \in Digit
         /\ \A k \in Nat : n < k * Base => DIV85(n) < k
<1> DEFINE q == n \div Base
<1> DEFINE r == n % Base
<1>1. /\ n \in Nat /\ n < WordSize
      /\ q \in Nat /\ r \in 0..(Base - 1) /\ n = (Base * q) + r
  BY Sizes, SMT DEF Word
<1>2. DIV85(n) = q
  BY DivExact
<1> HIDE DEF q, r
<1>3. q <= Base * q
  <2>1. q * 1 <= q * Base
    BY <1>1, Sizes, Monotone, SMT
  <2> QED  BY <2>1, <1>1, Sizes, SMT
<1>4. q \in Word
  <2>1. Base * q \in Nat
    BY <1>1, Sizes, SMT
  <2> QED  BY <2>1, <1>1, <1>3, Sizes, SMT DEF Word
<1>5. n - (q * Base) \in Digit
  <2>1. q * Base = Base * q /\ Base * q \in Nat
    BY <1>1, Sizes, SMT
  <2> QED  BY <2>1, <1>1, Sizes, SMT DEF Digit
<1>6. ASSUME NEW k \in Nat, n < k * Base
      PROVE  q < k
  <2>1. ASSUME k <= q PROVE FALSE
    <3>1. k * Base <= q * Base
      BY <2>1, <1>1, Sizes, Monotone
    <3>2. q * Base = Base * q /\ Base * q \in Nat /\ k * Base \in Nat
      BY <1>1, Sizes, SMT
    <3> QED  BY <3>1, <3>2, <1>1, <1>6, Sizes, SMT
  <2> QED  BY <2>1, <1>1, <1>6, SMT
<1> QED
  BY <1>2, <1>4, <1>5, <1>6

(* The five characters of a word are characters of the alphabet: base85 is  *)
(* never read beyond its end.                                               *)
THEOREM EncodeWordDigits ==
  ASSUME NEW v \in Word
  PROVE  /\ EncodeWord(v) \in Seq(Digit)
         /\ Len(EncodeWord(v)) = 5
<1> DEFINE v4 == DIV85(v)
<1> DEFINE v3 == DIV85(v4)
<1> DEFINE v2 == DIV85(v3)
<1> DEFINE v1 == DIV85(v2)
<1>1. v4 \in Word /\ v3 \in Word /\ v2 \in Word /\ v1 \in Word
  BY Divided
<1>2. /\ v - (v4 * Base) \in Digit /\ v4 - (v3 * Base) \in Digit
      /\ v3 - (v2 * Base) \in Digit /\ v2 - (v1 * Base) \in Digit
  BY <1>1, Divided
<1>3. v1 \in Digit
  <2>1. /\ Base * Base \in Nat /\ Base * Base * Base \in Nat
        /\ Base * Base * Base * Base \in Nat
        /\ Base * Base * Base * Base * Base \in Nat
    <3>1. Base * Base \in Nat
      BY Sizes, SMT
    <3>2. Base * Base * Base \in Nat
      BY <3>1, Sizes, SMT
    <3>3. Base * Base * Base * Base \in Nat
      BY <3>2, Sizes, SMT
    <3>4. Base * Base * Base * Base * Base \in Nat
      BY <3>3, Sizes, SMT
    <3> QED  BY <3>1, <3>2, <3>3, <3>4
  <2>2. v < Base * Base * Base * Base * Base
    BY <2>1, Sizes, Z85Assumption, SMT DEF Word
  <2>3. v4 < Base * Base * Base * Base
    BY <2>1, <2>2, Divided
  <2>4. v3 < Base * Base * Base
    BY <2>1, <2>3, <1>1, Divided
  <2>5. v2 < Base * Base
    BY <2>1, <2>4, <1>1, Divided
  <2>6. v1 < Base
    BY <2>5, <1>1, Divided, Sizes
  <2> QED  BY <2>6, <1>1, Sizes, SMT DEF Digit, Word
<1> HIDE DEF v1, v2, v3, v4
<1>4. EncodeWord(v) = <<v1, v2 - (v1 * Base), v3 - (v2 * Base), v4 - (v3 * Base), v - (v4 * Base)>>
  BY DEF EncodeWord, v1, v2, v3, v4
<1> QED
  BY <1>2, <1>3, <1>4

(* A word is decoded to what was encoded.                                   *)
THEOREM WordRoundTrip ==
  ASSUME NEW v \in Word
  PROVE  DecodeWord(EncodeWord(v)) = v
<1>1. ASSUME NEW n \in Word, NEW d \in Word
      PROVE  Shifted(d, n - (d * Base)) = n
  <2>1. d * Base \in Int
    BY <1>1, Sizes, SMT DEF Word
  <2>2. (d * Base) + (n - (d * Base)) = n
    BY <2>1, <1>1, SMT DEF Word
  <2>3. n % WordSize = n
    BY <1>1, Sizes, SMT DEF Word
  <2> QED  BY <2>2, <2>3 DEF Shifted
<1> DEFINE v4 == DIV85(v)
<1> DEFINE v3 == DIV85(v4)
<1> DEFINE v2 == DIV85(v3)
<1> DEFINE v1 == DIV85(v2)
<1>2. v4 \in Word /\ v3 \in Word /\ v2 \in Word /\ v1 \in Word
  BY Divided
<1> HIDE DEF v1, v2, v3, v4
<1>3. EncodeWord(v) = <<v1, v2 - (v1 * Base), v3 - (v2 * Base), v4 - (v3 * Base), v - (v4 * Base)>>
  BY DEF EncodeWord, v1, v2, v3, v4
<1>4. DecodeWord(EncodeWord(v)) =
        Shifted(Shifted(Shifted(Shifted(v1, v2 - (v1 * Base)), v3 - (v2 * Base)),
                        v4 - (v3 * Base)), v - (v4 * Base))
  BY <1>3 DEF DecodeWord
<1>5. Shifted(v1, v2 - (v1 * Base)) = v2
  BY <1>1, <1>2
<1>6. Shifted(v2, v3 - (v2 * Base)) = v3
  BY <1>1, <1>2
<1>7. Shifted(v3, v4 - (v3 * Base)) = v4
  BY <1>1, <1>2
<1>8. Shifted(v4, v - (v4 * Base)) = v
  BY <1>1, <1>2
<1> QED
  BY <1>4, <1>5, <1>6, <1>7, <1>8

-----------------------------------------------------------------------------
(* Four bytes.                                                              *)

(* Two facts about products, which the others would have to find again.     *)
LEMMA TimesInt ==
  ASSUME NEW x \in Int, NEW y \in Int
  PROVE  x * y \in Int
OBVIOUS

LEMMA SumTimes ==
  ASSUME NEW x \in Int, NEW y \in Int, NEW z \in Int
  PROVE  (x + y) * z = (x * z) + (y * z)
OBVIOUS

LEMMA Horner ==
  ASSUME NEW x \in Int, NEW y \in Int, NEW z \in Int, NEW b \in Int, NEW c \in Int,
         NEW h, h = (x * b) + y, NEW u, u = (h * b) + z
  PROVE  /\ h * b = ((x * b) * b) + (y * b)
         /\ h * c = ((x * b) * c) + (y * c)
         /\ u * b = ((h * b) * b) + (z * b)
         /\ (h * b) * b = (((x * b) * b) * b) + ((y * b) * b)
<1>1. PICK p \in Int, q \in Int : p = x * b /\ q = y * b BY TimesInt
<1>2. h = p + y /\ h \in Int BY <1>1
<1>3. h * b = (p * b) + q /\ h * c = (p * c) + (y * c) BY <1>1, <1>2, SumTimes
<1>4. PICK r \in Int, k \in Int : r = h * b /\ k = p * b BY <1>1, <1>2, TimesInt
<1>5. u * b = (r * b) + (z * b) BY <1>4, SumTimes
<1>6. r = k + q BY <1>3, <1>4
<1>7. r * b = (k * b) + (q * b) BY <1>1, <1>4, <1>6, SumTimes
<1> QED BY <1>1, <1>3, <1>4, <1>5, <1>7

(* Two digits of whatever bases are a number below the product of the       *)
(* bases.                                                                   *)
LEMMA TwoDigits ==
  ASSUME NEW d \in Nat \ {0}, NEW b \in Nat \ {0}, NEW x \in 0..(d - 1), NEW y \in 0..(b - 1)
  PROVE  (x * b) + y \in 0..((d * b) - 1)
<1>1. x * b <= (d - 1) * b
  BY Monotone
<1>2. (d - 1) * b = (d * b) - b
  BY SMT
<1>3. x * b \in Nat /\ d * b \in Int
  BY SMT
<1> QED
  BY <1>1, <1>2, <1>3, SMT

(* The bytes that the decoder packs are those that the encoder unpacked     *)
(* (UNPACK and PACK of z85.c).                                              *)
LEMMA PackUnpack ==
  ASSUME NEW b \in Seq(Byte), Len(b) = 4
  PROVE  Unpack(b) \in Word /\ Pack(Unpack(b)) = b
<1> DEFINE B  == ByteSize
<1> DEFINE B2 == ByteSize * ByteSize
<1> DEFINE B3 == ByteSize * ByteSize * ByteSize
<1> DEFINE hi == (b[1] * B) + b[2]
<1> DEFINE up == (hi * B) + b[3]
<1> DEFINE lo == (b[3] * B) + b[4]
<1>1. /\ b[1] \in 0..(B - 1) /\ b[2] \in 0..(B - 1)
      /\ b[3] \in 0..(B - 1) /\ b[4] \in 0..(B - 1)
  <2>1. b[1] \in Byte /\ b[2] \in Byte /\ b[3] \in Byte /\ b[4] \in Byte
    <3>1. 1 \in 1..Len(b) /\ 2 \in 1..Len(b) /\ 3 \in 1..Len(b) /\ 4 \in 1..Len(b)
      OBVIOUS
    <3> QED  BY <3>1, ElementOfSeq
  <2> QED  BY <2>1 DEF Byte
<1>2. B \in Nat \ {0} /\ B2 \in Nat \ {0}
  BY Sizes, SMT
<1>3. B3 \in Nat \ {0} /\ B3 = B2 * B /\ B3 = B * B2 /\ WordSize = B3 * B
  <2>1. B2 * B \in Nat \ {0}
    BY <1>2, SMT
  <2>2. B3 = B2 * B
    OBVIOUS
  <2>3. B2 * B = B * B2
    BY <1>2, SMT
  <2> QED  BY <2>1, <2>2, <2>3 DEF WordSize
<1>4. hi \in 0..(B2 - 1)
  BY <1>1, <1>2, TwoDigits
<1>5. up \in 0..(B3 - 1)
  BY <1>1, <1>2, <1>3, <1>4, TwoDigits
<1>6. (up * B) + b[4] \in 0..(WordSize - 1)
  BY <1>1, <1>2, <1>3, <1>5, TwoDigits
<1>7. lo \in 0..(B2 - 1)
  BY <1>1, <1>2, TwoDigits
<1>8. (b[2] * B2) + lo \in 0..(B3 - 1)
  BY <1>1, <1>2, <1>3, <1>7, TwoDigits
<1>9. /\ b[1] * B3 = ((b[1] * B) * B) * B
      /\ b[1] * B3 = (b[1] * B) * B2
      /\ b[2] * B2 = (b[2] * B) * B
  <2>1. b[1] \in Int /\ b[2] \in Int /\ B \in Int
    BY <1>1, <1>2
  <2>2. PICK x \in Int, y \in Int : x = b[1] /\ y = b[2]
    BY <2>1
  <2>3. /\ x * B3 = ((x * B) * B) * B
        /\ x * B3 = (x * B) * B2
        /\ y * B2 = (y * B) * B
    BY <2>1, SMT
  <2> QED  BY <2>2, <2>3
<1>10. /\ hi * B = ((b[1] * B) * B) + (b[2] * B)
       /\ hi * B2 = ((b[1] * B) * B2) + (b[2] * B2)
       /\ up * B = ((hi * B) * B) + (b[3] * B)
       /\ (hi * B) * B = (((b[1] * B) * B) * B) + ((b[2] * B) * B)
  <2>1. b[1] \in Int /\ b[2] \in Int /\ b[3] \in Int /\ B \in Int /\ B2 \in Int
    BY <1>1, <1>2
  <2> HIDE DEF B, B2
  <2>2. PICK x \in Int, y \in Int, z \in Int : x = b[1] /\ y = b[2] /\ z = b[3]
    BY <2>1
  <2>3. hi = (x * B) + y /\ up = (hi * B) + z
    BY <2>2
  <2> HIDE DEF hi, up
  <2>4. /\ hi * B = ((x * B) * B) + (y * B)
        /\ hi * B2 = ((x * B) * B2) + (y * B2)
        /\ up * B = ((hi * B) * B) + (z * B)
        /\ (hi * B) * B = (((x * B) * B) * B) + ((y * B) * B)
    BY <2>1, <2>3, Horner
  <2> QED BY <2>2, <2>4
<1>11. Unpack(b) = (b[1] * B3) + (b[2] * B2) + (b[3] * B) + b[4]
  BY DEF Unpack
<1> HIDE DEF B, B2, B3, hi, up, lo
<1>12. /\ b[1] \in Int /\ b[1] * B3 \in Int /\ b[2] * B2 \in Int /\ b[3] * B \in Int /\ b[4] \in Int
       /\ b[2] * B \in Int /\ (b[1] * B) * B \in Int
       /\ hi \in Int /\ up \in Int /\ hi * B \in Int /\ hi * B2 \in Int
  <2>1. /\ b[1] \in Int /\ b[2] \in Int /\ b[3] \in Int /\ b[4] \in Int
        /\ B \in Int /\ B2 \in Int /\ B3 \in Int /\ hi \in Int /\ up \in Int
    BY <1>1, <1>2, <1>3, <1>4, <1>5
  <2>2. PICK x \in Int, y \in Int, z \in Int : x = b[1] /\ y = b[2] /\ z = b[3]
    BY <2>1
  <2>3. /\ x * B3 \in Int /\ y * B2 \in Int /\ z * B \in Int /\ y * B \in Int
        /\ x * B \in Int /\ hi * B \in Int /\ hi * B2 \in Int
    BY <2>1, TimesInt
  <2>4. (x * B) * B \in Int
    BY <2>1, <2>3, TimesInt
  <2> QED  BY <2>1, <2>2, <2>3, <2>4
<1>13. Unpack(b) = (b[1] * B3) + ((b[2] * B2) + lo)
  BY <1>11, <1>12, SMT DEF lo
<1>14. Unpack(b) = (hi * B2) + lo
  <2>1. PICK p \in Int, q \in Int, r \in Int :
          p = b[1] * B3 /\ q = b[2] * B2 /\ r = b[3] * B
    BY <1>12
  <2>2. hi * B2 = p + q
    BY <1>9, <1>10, <2>1
  <2>3. lo = r + b[4]
    BY <2>1 DEF lo
  <2>4. Unpack(b) = p + q + r + b[4]
    BY <1>11, <2>1
  <2>5. PICK x \in Int : x = b[4]
    BY <1>12
  <2> QED  BY <2>2, <2>3, <2>4, <2>5
<1>15. Unpack(b) = (up * B) + b[4]
  BY <1>9, <1>10, <1>11, <1>12, SMT
<1>16. Unpack(b) \in Int
  BY <1>11, <1>12, SMT
<1>17. Unpack(b) \div B3 = b[1]
  <2> DEFINE r == (b[2] * B2) + lo
  <2>1. r \in 0..(B3 - 1) /\ Unpack(b) = (b[1] * B3) + r
    BY <1>8, <1>13
  <2> HIDE DEF r
  <2> QED  BY <2>1, <1>3, <1>12, <1>16, DivUnique
<1>18. Unpack(b) \div B2 = hi
  BY <1>2, <1>7, <1>12, <1>14, <1>16, DivUnique
<1>19. Unpack(b) \div B = up /\ Unpack(b) % B = b[4]
  BY <1>1, <1>2, <1>12, <1>15, <1>16, DivUnique
<1>20. hi % B = b[2]
  <2>1. hi = (b[1] * B) + b[2]
    BY DEF hi
  <2> QED  BY <2>1, <1>1, <1>2, <1>12, DivUnique
<1>21. up % B = b[3]
  <2>1. up = (hi * B) + b[3]
    BY DEF up
  <2> QED  BY <2>1, <1>1, <1>2, <1>12, DivUnique
<1>22. Pack(Unpack(b)) = <<b[1], b[2], b[3], b[4]>>
  BY <1>17, <1>18, <1>19, <1>20, <1>21 DEF Pack, B, B2, B3
<1>23. b = <<b[1], b[2], b[3], b[4]>>
  OBVIOUS
<1>24. Unpack(b) \in Word
  BY <1>6, <1>15 DEF Word
<1> QED
  BY <1>22, <1>23, <1>24

-----------------------------------------------------------------------------
(* Whole messages.                                                          *)

(* A function on 1..n is a sequence of length n.                            *)
LEMMA FunctionIsSeq ==
  ASSUME NEW S, NEW n \in Nat, NEW f \in [1..n -> S]
  PROVE  f \in Seq(S) /\ Len(f) = n
<1>1. f \in Seq(S)
  BY SeqDef
<1>2. Len(f) \in Nat /\ DOMAIN f = 1..Len(f)
  BY <1>1, LenProperties
<1>3. 1..n = 1..Len(f)
  BY <1>2
<1> QED
  BY <1>1, <1>2, <1>3, SMT

(* The i-th group of k values of a sequence that has that many.             *)
LEMMA GroupIsSeq ==
  ASSUME NEW S, NEW k \in Nat \ {0}, NEW s \in Seq(S), NEW i \in Nat \ {0},
         k * i <= Len(s)
  PROVE  /\ Group(s, k, i) \in Seq(S)
         /\ Len(Group(s, k, i)) = k
         /\ \A j \in 1..k : Group(s, k, i)[j] = s[(k * (i - 1)) + j]
<1> DEFINE a == (k * (i - 1)) + 1
<1> DEFINE z == k * i
<1>1. k * (i - 1) = (k * i) - k /\ k * i \in Nat /\ Len(s) \in Nat
  BY LenProperties, SMT
<1>3. 0 <= k * (i - 1)
  <2>1. k * 0 <= k * (i - 1)
    BY Monotone, SMT
  <2> QED  BY <2>1, SMT
<1>4. /\ a \in Int /\ z \in Int /\ (z - a) + 1 = k /\ a >= 1 /\ z <= Len(s)
      /\ a - 1 = k * (i - 1)
  BY <1>1, <1>3, SMT
<1> HIDE DEF a, z
<1>5. \A j \in a..z : s[j] \in S
  <2> SUFFICES ASSUME NEW j \in a..z
               PROVE  s[j] \in S
    OBVIOUS
  <2>1. j \in 1..Len(s)
    BY <1>4, LenProperties, SMT
  <2> QED  BY <2>1, ElementOfSeq
<1>6. /\ SubSeq(s, a, z) \in Seq(S)
      /\ Len(SubSeq(s, a, z)) = IF a <= z THEN (z - a) + 1 ELSE 0
      /\ \A j \in 1..((z - a) + 1) : SubSeq(s, a, z)[j] = s[(a + j) - 1]
  BY <1>4, <1>5, SubSeqProperties
<1>7. a <= z
  BY <1>4, SMT
<1>8. \A j \in 1..k : (a + j) - 1 = (k * (i - 1)) + j
  BY <1>1, <1>4, SMT
<1> QED
  BY <1>4, <1>6, <1>7, <1>8 DEF Group, a, z

(* Where an element of a group of five is.                                  *)
LEMMA InGroup ==
  ASSUME NEW a \in Nat, NEW b \in 0..4
  PROVE  ((5 * a) + b) \div 5 = a /\ ((5 * a) + b) % 5 = b
OBVIOUS

(* A group of four: the bytes of one word.                                  *)
LEMMA GroupOfFour ==
  ASSUME NEW S, NEW n \in Nat, NEW s \in Seq(S), Len(s) = 4 * n, NEW i \in 1..n
  PROVE  /\ Group(s, 4, i) \in Seq(S)
         /\ Len(Group(s, 4, i)) = 4
         /\ \A j \in 1..4 : Group(s, 4, i)[j] = s[(4 * (i - 1)) + j]
<1> DEFINE k == 4
<1>1. k \in Nat \ {0} /\ i \in Nat \ {0} /\ k * i <= Len(s)
  OBVIOUS
<1> HIDE DEF k
<1>2. /\ Group(s, k, i) \in Seq(S)
      /\ Len(Group(s, k, i)) = k
      /\ \A j \in 1..k : Group(s, k, i)[j] = s[(k * (i - 1)) + j]
  <2>1. k * i \in Nat /\ i \in Nat \ {0} /\ k \in Nat \ {0} BY <1>1
  <2> QED BY <1>1, <2>1, GroupIsSeq
<1> QED
  BY <1>2 DEF k

(* A group of five: the digits of one word.                                 *)
LEMMA GroupOfFive ==
  ASSUME NEW S, NEW n \in Nat, NEW s \in Seq(S), Len(s) = 5 * n, NEW i \in 1..n
  PROVE  /\ Group(s, 5, i) \in Seq(S)
         /\ Len(Group(s, 5, i)) = 5
         /\ \A j \in 1..5 : Group(s, 5, i)[j] = s[(5 * (i - 1)) + j]
<1> DEFINE k == 5
<1>1. k \in Nat \ {0} /\ i \in Nat \ {0} /\ k * i <= Len(s)
  OBVIOUS
<1> HIDE DEF k
<1>2. /\ Group(s, k, i) \in Seq(S)
      /\ Len(Group(s, k, i)) = k
      /\ \A j \in 1..k : Group(s, k, i)[j] = s[(k * (i - 1)) + j]
  <2>1. k * i \in Nat /\ i \in Nat \ {0} /\ k \in Nat \ {0} BY <1>1
  <2> QED BY <1>1, <2>1, GroupIsSeq
<1> QED
  BY <1>2 DEF k

(* The encoder works word by word: the i-th five digits are those of the    *)
(* i-th four bytes.                                                         *)
LEMMA EncodeGroups ==
  ASSUME NEW n \in Nat, NEW s \in Seq(Byte), Len(s) = 4 * n
  PROVE  /\ Z85_encode_unsafe(s) \in Seq(Digit)
         /\ Len(Z85_encode_unsafe(s)) = 5 * n
         /\ \A i \in 1..n : Group(Z85_encode_unsafe(s), 5, i) = EncodeWord(Unpack(Group(s, 4, i)))
<1> DEFINE E == Z85_encode_unsafe(s)
<1> DEFINE W(i) == EncodeWord(Unpack(Group(s, 4, i)))
<1>1. \A i \in 1..n : W(i) \in Seq(Digit) /\ Len(W(i)) = 5
  <2> SUFFICES ASSUME NEW i \in 1..n
               PROVE  W(i) \in Seq(Digit) /\ Len(W(i)) = 5
    OBVIOUS
  <2>1. Group(s, 4, i) \in Seq(Byte) /\ Len(Group(s, 4, i)) = 4
    BY GroupOfFour
  <2>2. Unpack(Group(s, 4, i)) \in Word
    BY <2>1, PackUnpack
  <2> QED  BY <2>2, EncodeWordDigits
<1>2. E = [i \in 1..(5 * n) |-> W(((i - 1) \div 5) + 1)[((i - 1) % 5) + 1]]
  <2>1. (4 * n) \div 4 = n
    BY SMT
  <2> QED  BY <2>1 DEF Z85_encode_unsafe
<1> HIDE DEF E, W
<1>3. E \in [1..(5 * n) -> Digit]
  <2> SUFFICES ASSUME NEW i \in 1..(5 * n)
               PROVE  W(((i - 1) \div 5) + 1)[((i - 1) % 5) + 1] \in Digit
    BY <1>2
  <2>1. ((i - 1) \div 5) + 1 \in 1..n /\ ((i - 1) % 5) + 1 \in 1..5
    BY SMT
  <2> QED  BY <2>1, <1>1, ElementOfSeq
<1>4. E \in Seq(Digit) /\ Len(E) = 5 * n
  BY <1>3, FunctionIsSeq, SMT
<1>5. ASSUME NEW i \in 1..n
      PROVE  Group(E, 5, i) = W(i)
  <2>1. /\ Group(E, 5, i) \in Seq(Digit) /\ Len(Group(E, 5, i)) = 5
        /\ \A j \in 1..5 : Group(E, 5, i)[j] = E[(5 * (i - 1)) + j]
    BY <1>4, GroupOfFive
  <2>2. ASSUME NEW j \in 1..5
        PROVE  E[(5 * (i - 1)) + j] = W(i)[j]
    <3> DEFINE k == (5 * (i - 1)) + j
    <3>1. k \in 1..(5 * n) /\ ((k - 1) \div 5) + 1 = i /\ ((k - 1) % 5) + 1 = j
      <4>1. PICK a \in Nat, b \in 0..4 : a = i - 1 /\ b = j - 1 OBVIOUS
      <4>2. k - 1 = (5 * a) + b /\ k \in 1..(5 * n) BY <4>1
      <4>3. ((5 * a) + b) \div 5 = a /\ ((5 * a) + b) % 5 = b BY <4>1, InGroup
      <4> QED BY <4>1, <4>2, <4>3
    <3> HIDE DEF k
    <3>2. E[k] = W(i)[j]
      BY <3>1, <1>2
    <3> QED  BY <3>2 DEF k
  <2>3. \A j \in 1..5 : Group(E, 5, i)[j] = W(i)[j]
    BY <2>1, <2>2
  <2>4. W(i) \in Seq(Digit) /\ Len(W(i)) = 5
    BY <1>1
  <2>5. PICK g, w : g = Group(E, 5, i) /\ w = W(i)
    OBVIOUS
  <2>6. /\ g \in Seq(Digit) /\ w \in Seq(Digit) /\ Len(g) = Len(w)
        /\ \A j \in 1..Len(g) : g[j] = w[j]
    BY <2>1, <2>3, <2>4, <2>5
  <2>7. g = w
    BY <2>6, SeqEqual
  <2> QED  BY <2>5, <2>7
<1> QED
  BY <1>4, <1>5 DEF E, W

(* The decoder undoes the encoder on whole words.                           *)
LEMMA DecodeEncode ==
  ASSUME NEW n \in Nat, NEW s \in Seq(Byte), Len(s) = 4 * n
  PROVE  Z85_decode_unsafe(Z85_encode_unsafe(s)) = s
<1> DEFINE E == Z85_encode_unsafe(s)
<1> DEFINE D == Z85_decode_unsafe(E)
<1> DEFINE W(i) == Pack(DecodeWord(Group(E, 5, i)))
<1>1. E \in Seq(Digit) /\ Len(E) = 5 * n
  BY EncodeGroups
<1>2. ASSUME NEW i \in 1..n
      PROVE  W(i) = Group(s, 4, i)
  <2>1. Group(s, 4, i) \in Seq(Byte) /\ Len(Group(s, 4, i)) = 4
    BY GroupOfFour
  <2>2. Unpack(Group(s, 4, i)) \in Word /\ Pack(Unpack(Group(s, 4, i))) = Group(s, 4, i)
    BY <2>1, PackUnpack
  <2>3. Group(E, 5, i) = EncodeWord(Unpack(Group(s, 4, i)))
    BY EncodeGroups
  <2> QED  BY <2>2, <2>3, WordRoundTrip
<1>3. D = [i \in 1..(4 * n) |-> W(((i - 1) \div 4) + 1)[((i - 1) % 4) + 1]]
  <2>1. (5 * n) \div 5 = n
    BY SMT
  <2> QED  BY <1>1, <2>1 DEF Z85_decode_unsafe
<1> HIDE DEF E, D, W
<1>4. ASSUME NEW i \in 1..(4 * n)
      PROVE  D[i] = s[i]
  <2> DEFINE g == ((i - 1) \div 4) + 1
  <2> DEFINE j == ((i - 1) % 4) + 1
  <2>1. g \in 1..n /\ j \in 1..4 /\ (4 * (g - 1)) + j = i
    BY SMT
  <2>2. D[i] = W(g)[j]
    BY <1>3
  <2> HIDE DEF g, j
  <2>3. W(g)[j] = s[(4 * (g - 1)) + j]
    <3>1. \A k \in 1..4 : Group(s, 4, g)[k] = s[(4 * (g - 1)) + k]
      BY <2>1, GroupOfFour
    <3> QED  BY <3>1, <2>1, <1>2
  <2> QED  BY <2>1, <2>2, <2>3
<1>5. s \in [1..(4 * n) -> Byte]
  BY LenProperties
<1> QED
  BY <1>3, <1>4, <1>5 DEF D, E

(* What a block with padding is made of: the number of bytes of its last    *)
(* word, then the digits of the message and its padding.                    *)
LEMMA Blocks ==
  ASSUME NEW m \in Seq(Byte), m # <<>>
  PROVE  LET n == (Len(m) + 3) \div 4
             b == Z85_encode_with_padding(m)
         IN  /\ n \in Nat \ {0}
             /\ Padded(m) \in Seq(Byte) /\ Len(Padded(m)) = 4 * n
             /\ b \in Seq(Digit) /\ Len(b) = (5 * n) + 1
             /\ b[1] \in 1..4 /\ Len(m) = ((4 * n) - 4) + b[1]
             /\ Tail(b) = Z85_encode_unsafe(Padded(m))
<1> DEFINE n == (Len(m) + 3) \div 4
<1> DEFINE d == IF TailBytes(m) = 0 THEN 4 ELSE TailBytes(m)
<1> DEFINE E == Z85_encode_unsafe(Padded(m))
<1>1. Len(m) \in Nat \ {0}
  BY EmptySeq
<1>2. n \in Nat \ {0} /\ d \in 1..4 /\ Len(m) = ((4 * n) - 4) + d /\ Len(m) <= 4 * n
  <2> DEFINE l == Len(m)
  <2> DEFINE r == l % 4
  <2> DEFINE p == l \div 4
  <2>1. l \in Nat \ {0} /\ r \in 0..3 /\ p \in Nat /\ l = (4 * p) + r
    BY <1>1, SMT
  <2>2. n = (l + 3) \div 4 /\ d = IF r = 0 THEN 4 ELSE r
    BY DEF TailBytes
  <2> HIDE DEF l, r, p, n, d
  <2>3. CASE r = 0
    BY <2>1, <2>2, <2>3, SMT DEF l
  <2>4. CASE r # 0
    BY <2>1, <2>2, <2>4, SMT DEF l
  <2> QED  BY <2>3, <2>4
<1>3. Padded(m) \in [1..(4 * n) -> Byte]
  <2> SUFFICES ASSUME NEW i \in 1..(4 * n)
               PROVE  (IF i <= Len(m) THEN m[i] ELSE 0) \in Byte
    BY DEF Padded
  <2>1. 0 \in Byte
    BY Sizes, SMT DEF Byte
  <2>2. CASE i <= Len(m)
    <3>1. i \in 1..Len(m)
      BY <2>2, <1>1, <1>2
    <3> QED  BY <3>1, <2>2, ElementOfSeq
  <2> QED  BY <2>1, <2>2
<1>4. Padded(m) \in Seq(Byte) /\ Len(Padded(m)) = 4 * n
  <2>1. 4 * n \in Nat
    BY <1>2
  <2> QED  BY <2>1, <1>3, FunctionIsSeq
<1> HIDE DEF n, d
<1>5. E \in Seq(Digit) /\ Len(E) = 5 * n
  BY <1>2, <1>4, EncodeGroups
<1>6. d \in Digit
  BY <1>2, Z85Assumption, SMT DEF Digit
<1>7. Z85_encode_with_padding(m) = <<d>> \o E
  BY DEF Z85_encode_with_padding, d
<1> HIDE DEF E
<1> DEFINE b == <<d>> \o E
<1>8. <<d>> \in Seq(Digit) /\ Len(<<d>>) = 1 /\ <<d>>[1] = d
  BY <1>6
<1>9. b \in Seq(Digit) /\ Len(b) = 1 + Len(E)
      /\ \A i \in 1..(1 + Len(E)) : b[i] = IF i <= 1 THEN <<d>>[i] ELSE E[i - 1]
  BY <1>5, <1>8, ConcatProperties
<1>10. b[1] = d /\ Len(b) = (5 * n) + 1 /\ \A i \in 1..Len(E) : b[i + 1] = E[i]
  BY <1>2, <1>5, <1>8, <1>9, SMT
<1>11. Tail(b) = E
  <2> HIDE DEF b
  <2>1. b # <<>>
    BY <1>2, <1>9, <1>10, EmptySeq, SMT
  <2>2. /\ Tail(b) \in Seq(Digit) /\ Len(Tail(b)) = Len(E)
        /\ \A i \in 1..Len(Tail(b)) : Tail(b)[i] = E[i]
    <3>1. /\ Tail(b) \in Seq(Digit) /\ Len(Tail(b)) = Len(b) - 1
          /\ \A i \in 1..Len(Tail(b)) : Tail(b)[i] = b[i + 1]
      BY <2>1, <1>9, HeadTailProperties
    <3>2. Len(b) - 1 = Len(E)
      BY <1>2, <1>5, <1>10, SMT
    <3> QED  BY <3>1, <3>2, <1>10
  <2> QED  BY <2>2, <1>5, SeqEqual
<1> QED
  BY <1>2, <1>4, <1>7, <1>9, <1>10, <1>11 DEF n, E

(* What ws_post encodes, ws_get decodes: the block is one that the          *)
(* assertions of the decoder let through, and it decodes to the message.    *)
THEOREM RoundTrip ==
  ASSUME NEW m \in Seq(Byte), m # <<>>
  PROVE  /\ Decodable(Z85_encode_with_padding(m))
         /\ Z85_decode_with_padding(Z85_encode_with_padding(m)) = m
<1> DEFINE n == (Len(m) + 3) \div 4
<1> DEFINE b == Z85_encode_with_padding(m)
<1>1. /\ n \in Nat \ {0}
      /\ Padded(m) \in Seq(Byte) /\ Len(Padded(m)) = 4 * n
      /\ b \in Seq(Digit) /\ Len(b) = (5 * n) + 1
      /\ b[1] \in 1..4 /\ Len(m) = ((4 * n) - 4) + b[1]
      /\ Tail(b) = Z85_encode_unsafe(Padded(m))
  BY Blocks
<1>2. \A i \in 1..Len(m) : Padded(m)[i] = m[i]
  BY <1>1, SMT DEF Padded
<1> HIDE DEF b, n
<1>3. Decodable(b)
  BY <1>1, EmptySeq, SMT DEF Decodable, WholeGroups
<1>4. Z85_decode_unsafe(Tail(b)) = Padded(m)
  BY <1>1, DecodeEncode
<1>5. Z85_decode_with_padding(b) = SubSeq(Padded(m), 1, Len(m))
  BY <1>1, <1>4 DEF Z85_decode_with_padding
<1>6. SubSeq(Padded(m), 1, Len(m)) = m
  <2>1. Len(m) \in Nat \ {0} /\ 1 \in Int
    BY EmptySeq
  <2>2. \A i \in 1..Len(m) : Padded(m)[i] \in Byte
    BY <1>2, ElementOfSeq
  <2>3. /\ SubSeq(Padded(m), 1, Len(m)) \in Seq(Byte)
        /\ Len(SubSeq(Padded(m), 1, Len(m))) = Len(m)
        /\ \A i \in 1..Len(m) : SubSeq(Padded(m), 1, Len(m))[i] = Padded(m)[i]
    <3> DEFINE l == Len(m)
    <3>1. /\ SubSeq(Padded(m), 1, l) \in Seq(Byte)
          /\ Len(SubSeq(Padded(m), 1, l)) = IF 1 <= l THEN (l - 1) + 1 ELSE 0
          /\ \A i \in 1..((l - 1) + 1) : SubSeq(Padded(m), 1, l)[i] = Padded(m)[(1 + i) - 1]
      BY <2>1, <2>2, SubSeqProperties
    <3> QED  BY <3>1, <2>1
  <2> QED  BY <2>3, <1>2, SeqEqual
<1> QED
  BY <1>3, <1>5, <1>6 DEF b

(* A block is exactly as long as Z85_encode_with_padding_bound says, and    *)
(* its message as Z85_decode_with_padding_bound says: the buffers of        *)
(* encode_msg and decode_msg, one longer, also hold the terminating NUL.    *)
THEOREM BoundsExact ==
  ASSUME NEW m \in Seq(Byte), m # <<>>
  PROVE  /\ Len(Z85_encode_with_padding(m)) = Z85_encode_with_padding_bound(Len(m))
         /\ Z85_decode_with_padding_bound(Z85_encode_with_padding(m)) = Len(m)
<1> DEFINE n == (Len(m) + 3) \div 4
<1> DEFINE b == Z85_encode_with_padding(m)
<1>1. /\ n \in Nat \ {0} /\ Len(b) = (5 * n) + 1
      /\ b[1] \in 1..4 /\ Len(m) = ((4 * n) - 4) + b[1]
  BY Blocks
<1> HIDE DEF b, n
<1>2. Len(b) = Z85_encode_with_padding_bound(Len(m))
  <2> DEFINE q == (Len(m) * 5) \div 4
  <2>1. q \in Nat /\ Len(m) \in Nat \ {0} /\ q + ((5 - (q % 5)) % 5) = 5 * n
    <3> DEFINE d == b[1]
    <3> DEFINE l == Len(m)
    <3>1. n \in Nat \ {0} /\ d \in 1..4 /\ l = ((4 * n) - 4) + d /\ q = (l * 5) \div 4
      BY <1>1
    <3> HIDE DEF d, l, q
    <3>2. l \in Nat \ {0}
      BY <3>1, SMT
    <3>3. q = ((5 * n) - 5) + (IF d = 4 THEN 5 ELSE d)
      BY <3>1, SMT
    <3>4. q % 5 = IF d = 4 THEN 0 ELSE d
      BY <3>1, <3>3, SMT
    <3>5. q + ((5 - (q % 5)) % 5) = 5 * n
      <4>1. CASE d = 4
        BY <3>1, <3>3, <3>4, <4>1, SMT
      <4>2. CASE d # 4
        BY <3>1, <3>3, <3>4, <4>2, SMT
      <4> QED  BY <4>1, <4>2
    <3> QED  BY <3>1, <3>2, <3>3, <3>5, SMT DEF l
  <2> QED  BY <2>1, <1>1 DEF Z85_encode_with_padding_bound, Z85_encode_bound
<1>3. Z85_decode_with_padding_bound(b) = Len(m)
  <2>1. ((Len(b) - 1) * 4) \div 5 = 4 * n
    BY <1>1, SMT
  <2> QED  BY <2>1, <1>1, SMT DEF Z85_decode_with_padding_bound, Z85_decode_bound
<1> QED
  BY <1>2, <1>3 DEF b

-----------------------------------------------------------------------------
(* Blocks that somebody else made.                                          *)

(* Five characters make one word, whatever they are: what is above 32 bits  *)
(* is lost.                                                                 *)
LEMMA AnyWord ==
  ASSUME NEW c \in Seq(Digit), Len(c) = 5
  PROVE  DecodeWord(c) \in Word
<1>1. c[1] \in Int /\ c[2] \in Int /\ c[3] \in Int /\ c[4] \in Int /\ c[5] \in Int
  <2>1. \A i \in 1..5 : c[i] \in Digit BY LenProperties
  <2> QED BY <2>1, Sizes DEF Digit
<1>2. ASSUME NEW v \in Int, NEW d \in Int PROVE Shifted(v, d) \in Word
  <2>1. v * Base \in Int BY Sizes, SMT
  <2> QED BY <2>1, Sizes, SMT DEF Shifted, Word
<1>3. Word \subseteq Int BY Sizes DEF Word
<1> HIDE DEF Word
<1> DEFINE a == Shifted(c[1], c[2])
           b == Shifted(a, c[3])
           d == Shifted(b, c[4])
<1>4. a \in Word BY <1>1, <1>2
<1>5. b \in Word
  <2> HIDE DEF a
  <2> QED BY <1>1, <1>2, <1>3, <1>4
<1>6. d \in Word
  <2> HIDE DEF b
  <2> QED BY <1>1, <1>2, <1>3, <1>5
<1>7. Shifted(d, c[5]) \in Word
  <2> HIDE DEF d
  <2> QED BY <1>1, <1>2, <1>3, <1>6
<1> QED BY <1>7 DEF DecodeWord

(* A word is four bytes.                                                    *)
LEMMA WordBytes ==
  ASSUME NEW v \in Word, NEW j \in 1..4
  PROVE  Pack(v)[j] \in Byte
<1> DEFINE B == ByteSize
           C == ByteSize * ByteSize * ByteSize
           D == ByteSize * ByteSize
<1>1. B \in Nat \ {0} /\ D \in Nat \ {0} /\ v \in Nat BY Sizes, SMT DEF Word
<1>2. C \in Nat \ {0}
  <2>1. \A x, y \in Nat \ {0} : x * y \in Nat \ {0} BY SMT
  <2>2. (ByteSize * ByteSize) * ByteSize \in Nat \ {0} BY <1>1, <2>1
  <2> QED BY <2>2
<1>3. v < C * B
  <2>1. v < WordSize BY Sizes, SMT DEF Word
  <2> QED BY <2>1 DEF WordSize
<1> HIDE DEF B, C, D
<1>4. v \div C \in 0..(B - 1)
  <2> DEFINE q == v \div C
             r == v % C
  <2>1. q \in Nat /\ r \in 0..(C - 1) /\ v = (C * q) + r BY <1>1, <1>2, SMT
  <2> HIDE DEF q, r
  <2>2. ASSUME B <= q PROVE FALSE
    <3>1. C * B <= C * q BY <1>1, <1>2, <2>1, <2>2, Monotone
    <3>2. C * B \in Nat /\ C * q \in Nat BY <1>1, <1>2, <2>1, SMT
    <3> QED BY <1>1, <1>2, <1>3, <2>1, <3>1, <3>2, SMT
  <2>3. q \in 0..(B - 1) BY <1>1, <2>1, <2>2, SMT
  <2> QED BY <2>3 DEF q
<1>5. ASSUME NEW w \in Int PROVE w % B \in 0..(B - 1) BY <1>1, SMT
<1>6. v \div D \in Int /\ v \div B \in Int BY <1>1, SMT
<1>7. (v \div D) % B \in 0..(B - 1) /\ (v \div B) % B \in 0..(B - 1) /\ v % B \in 0..(B - 1)
  BY <1>1, <1>5, <1>6
<1>8. Pack(v) = <<v \div C, (v \div D) % B, (v \div B) % B, v % B>> BY DEF Pack, B, C, D
<1>9. Byte = 0..(B - 1) BY DEF Byte, B
<1> QED BY <1>4, <1>7, <1>8, <1>9

(* The decoder makes four bytes of five characters, whoever posted them.    *)
LEMMA DecodeBytes ==
  ASSUME NEW n \in Nat, NEW s \in Seq(Digit), Len(s) = 5 * n
  PROVE  Z85_decode_unsafe(s) \in Seq(Byte) /\ Len(Z85_decode_unsafe(s)) = 4 * n
<1> DEFINE D == Z85_decode_unsafe(s)
           W(i) == Pack(DecodeWord(Group(s, 5, i)))
<1>1. D = [i \in 1..(4 * n) |-> W(((i - 1) \div 4) + 1)[((i - 1) % 4) + 1]]
  <2>1. (5 * n) \div 5 = n BY SMT
  <2> QED BY <2>1 DEF Z85_decode_unsafe
<1>2. ASSUME NEW g \in 1..n, NEW j \in 1..4 PROVE W(g)[j] \in Byte
  BY GroupOfFive, AnyWord, WordBytes
<1> HIDE DEF W, D
<1>3. ASSUME NEW i \in 1..(4 * n) PROVE D[i] \in Byte
  <2> DEFINE g == ((i - 1) \div 4) + 1
             j == ((i - 1) % 4) + 1
  <2>1. g \in 1..n /\ j \in 1..4 BY SMT
  <2>2. D[i] = W(g)[j] BY <1>1
  <2> HIDE DEF g, j
  <2> QED BY <1>2, <2>1, <2>2
<1>4. D \in [1..(4 * n) -> Byte] BY <1>1, <1>3
<1>5. 4 * n \in Nat OBVIOUS
<1> QED BY <1>4, <1>5, FunctionIsSeq DEF D

(* What passes the assertions of Z85_decode_with_padding and is longer than *)
(* its padding character alone is decoded into exactly as many bytes as     *)
(* Z85_decode_with_padding_bound has said, although nobody has ever encoded *)
(* it.                                                                      *)
THEOREM DecodeFits ==
  ASSUME NEW s \in Seq(Digit), Decodable(s), Len(s) > 1
  PROVE  /\ Len(s) > 5
         /\ Z85_decode_with_padding(s) \in Seq(Byte)
         /\ Len(Z85_decode_with_padding(s)) = Z85_decode_with_padding_bound(s)
<1>1. Len(s) \in Nat /\ (Len(s) - 1) % 5 = 0 /\ s[1] \in 1..4
  BY LenProperties DEF Decodable, WholeGroups
<1> DEFINE n == (Len(s) - 1) \div 5
           k == s[1]
           t == Tail(s)
           all == Z85_decode_unsafe(t)
           m == SubSeq(all, 1, Len(all) - 4 + k)
<1>2. n \in Nat \ {0} /\ Len(s) = (5 * n) + 1 BY <1>1, SMT
<1>3. t \in Seq(Digit) /\ Len(t) = 5 * n
  <2>1. s # <<>> BY <1>2
  <2>2. t \in Seq(Digit) /\ Len(t) = Len(s) - 1 BY <2>1, HeadTailProperties
  <2> HIDE DEF t, n
  <2> QED BY <1>2, <2>2
<1> HIDE DEF t, n
<1>4. all \in Seq(Byte) /\ Len(all) = 4 * n BY <1>2, <1>3, DecodeBytes
<1> HIDE DEF all
<1>5. Z85_decode_with_padding(s) = m BY DEF Z85_decode_with_padding, all, t
<1> DEFINE z == Len(all) - 4 + k
<1>6. z \in 1..Len(all) /\ z = (4 * n) - 4 + k BY <1>1, <1>2, <1>4
<1>7. m \in Seq(Byte) /\ Len(m) = z
  <2>1. \A i \in 1..z : all[i] \in Byte
    <3>1. \A i \in 1..Len(all) : all[i] \in Byte BY <1>4, LenProperties
    <3>2. Len(all) \in Nat BY <1>2, <1>4
    <3> HIDE DEF z
    <3> QED BY <1>6, <3>1, <3>2
  <2>2. Len(all) \in Nat BY <1>2, <1>4
  <2> HIDE DEF z
  <2>3. z \in Int /\ 1 <= z BY <1>6, <2>2
  <2>4. SubSeq(all, 1, z) \in Seq(Byte) /\ Len(SubSeq(all, 1, z)) = z - 1 + 1
    BY <2>1, <2>3, SubSeqProperties
  <2> QED BY <2>3, <2>4 DEF z
<1>8. Z85_decode_with_padding_bound(s) = z
  <2>1. ((Len(s) - 1) * 4) \div 5 = 4 * n BY <1>2, SMT
  <2> QED BY <1>1, <1>2, <1>6, <2>1 DEF Z85_decode_with_padding_bound, Z85_decode_bound
<1> HIDE DEF z, m
<1> QED BY <1>2, <1>5, <1>7, <1>8

(* The constants of z85.c are such constants.                               *)
THEOREM RealConstants ==
  ASSUME ByteSize = 256, Base = 85, Magic = 3233857729, Shift = 274877906944
  PROVE  /\ WordSize = 4294967296
         /\ WordSize <= Base * Base * Base * Base * Base
         /\ Magic * Base >= Shift
         /\ ((Magic * Base) - Shift) * ((WordSize \div Base) + 1) < Magic
<1>1. WordSize = 4294967296
  BY SMT DEF WordSize
<1>2. Base * Base * Base * Base * Base = 4437053125
  BY SMT
<1>3. (Magic * Base) - Shift = 21
  BY SMT
<1>4. WordSize \div Base = 50529027
  BY <1>1, SMT
<1> QED
  BY <1>1, <1>2, <1>3, <1>4, SMT
=============================================================================
