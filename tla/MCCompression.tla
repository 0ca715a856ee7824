--------------------------- MODULE MCCompression ---------------------------
(***************************************************************************)
(* The sizes of miniz, scaled so that short messages reach every branch,   *)
(* and the messages that do: each is named for the branch.                 *)
(***************************************************************************)
EXTENDS Compression

Repeat(b, n) == [i \in 1..n |-> b]
Upward(b, n) == [i \in 1..n |-> b + i - 1]
Hash(i)      == (3 * i * i * i + 5 * i) % 997
Text(n, k)   == [i \in 1..n |-> 40 + (Hash(i) % k)]

(* How many ones a hash ends in: each letter half as frequent as the last.  *)
Skewed(n) ==
  [i \in 1..n |-> 97 + Cardinality({j \in 1..5 : Hash(i) % 2^j = 2^j - 1})]

Word(k)  == [j \in 1..4 |-> 97 + ((3 * k * k + (j - 1) * (k + 2)) % 11)]
Words(n) == [i \in 1..4 * n |-> Word(Hash((i + 3) \div 4) % 5)[((i - 1) % 4) + 1]]

Better  == <<1, 2, 3, 4, 1, 3, 4, 5, 6, 7, 1, 2, 3, 4, 5, 6, 7, 2, 3, 4, 5, 6, 7>>
LongRun == <<1>> \o Repeat(9, 290)
Distant == <<1, 5, 6, 7>> \o Repeat(9, 530) \o <<5, 6, 7>> \o Repeat(8, 20) \o <<5, 6, 7, 9>>
(* After 509 bytes a match that is being overwritten while it is looked for. *)
Ring    == <<1, 5, 6, 7, 8>> \o Repeat(9, 420) \o <<5, 6, 7>> \o Repeat(2, 100)
Far     == <<1, 5, 6, 7>> \o Upward(65, 26) \o <<5, 6, 7, 1, 5, 6, 7, 65>>
Stored  == Upward(200, 41)
Noise   == [i \in 1..50 |-> 1 + 8 * (Hash(i) % 30)]

MCMessages ==
  {<<>>, <<65>>, Better, LongRun, Distant, Ring, Far, Stored, Noise,
   Text(60, 6), Text(150, 8), Skewed(64), Words(70)}

MCFragile == {<<65>>, Better, Stored, Text(60, 6), Skewed(64)}

MCProbes == {2, 1000}

=============================================================================
