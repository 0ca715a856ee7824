------------------------------- MODULE Tinfl -------------------------------
(***************************************************************************)
(* The decompressor of miniz (tinfl), as mz_uncompress runs it: the whole  *)
(* pack and an output buffer of a fixed size, in one call.  A step reads   *)
(* the header, a block's header with its tables, one symbol with the match *)
(* that it begins, or the checksum.                                        *)
(***************************************************************************)
EXTENDS Huffman

VARIABLES
  input,   \* the pack, as bits
  room,    \* the size of the output buffer, in bytes
  state,   \* what comes next: "header", "block", "codes", "trailer";
           \* "done" and "failed" are the ends
  at,      \* how many bits have been read
  final,   \* m_final: the block is the last one
  tables,  \* the tables of the block: literals and lengths, distances
  output

tinflVars == <<input, room, state, at, final, tables, output>>

TinflIdle ==
  /\ input = <<>>
  /\ room = 0
  /\ state = "idle"
  /\ at = 0
  /\ final = FALSE
  /\ tables = <<>>
  /\ output = <<>>

Left(pos) == Len(input) - pos
Get(pos, n) == Value(SubSeq(input, pos + 1, pos + n))
Aligned(pos) == pos + ((-pos) % 8)

Give(s) == state' = s /\ UNCHANGED <<input, room, at, final, tables, output>>

-----------------------------------------------------------------------------

ReadHeader ==
  /\ state = "header"
  /\ LET z0 == Get(0, 8)
         z1 == Get(8, 8)
     IN  IF \/ Left(0) < 16
            \/ (z0 * 256 + z1) % 31 # 0
            \/ (z1 \div 32) % 2 = 1
            \/ z0 % 16 # 8
         THEN Give("failed")
         ELSE /\ at' = 16
              /\ state' = "block"
              /\ UNCHANGED <<input, room, final, tables, output>>

(* A table that leaves codes unused, or has too many, is refused, unless it *)
(* has a single symbol or none.                                             *)
Usable(table) == UsedSyms(table) <= 1 \/ next_code(table)[MaxSize + 1] = 2^16

(* HUFF_DECODE: the symbol at a position and the size of its code.  A code  *)
(* that no symbol has reads as symbol 0 of no size, if 15 bits are there;   *)
(* if it leaves the path to a single long code, as what was walked of it.   *)
Unreadable == [sym |-> -1, size |-> 0]

Decode(table, pos) ==
  LET first == next_code(table)
      c[l \in 0..MaxSize] == IF l = 0 THEN 0 ELSE 2 * c[l - 1] + input[pos + l]
      hits  == {l \in 1..MaxSize : l <= Left(pos) /\ c[l] - first[l] \in 0..Len(table[l]) - 1}
      long  == {l \in 11..MaxSize : Len(table[l]) > 0}
      leave == {l \in 1..MaxSize : l <= Left(pos) /\ c[l] = 1}
  IN  IF hits # {}
      THEN LET l == CHOOSE n \in hits : TRUE
           IN  [sym |-> table[l][c[l] - first[l] + 1], size |-> l]
      ELSE IF long # {} /\ leave \cap 11..MaxSize # {}
           THEN [sym |-> 0, size |-> CHOOSE l \in leave \cap 11..MaxSize : TRUE]
           ELSE IF Left(pos) < MaxSize THEN Unreadable ELSE [sym |-> 0, size |-> 0]

(* The code sizes of a dynamic block, n of them, from its packed ones.      *)
Broken == [ok |-> FALSE, pos |-> 0, sizes |-> <<>>]

RECURSIVE Unpack(_, _, _, _)
Unpack(table, n, pos, sizes) ==
  IF Len(sizes) >= n THEN [ok |-> Len(sizes) = n, pos |-> pos, sizes |-> sizes]
  ELSE LET d     == Decode(table, pos)
           next  == pos + d.size
           extra == RepeatExtra[d.sym]
           times == (IF d.sym = 18 THEN 11 ELSE 3) + Get(next, extra)
           value == IF d.sym = 16 THEN sizes[Len(sizes)] ELSE 0
       IN  CASE d = Unreadable -> Broken
             [] d.sym \in 0..15 -> Unpack(table, n, next, Append(sizes, d.sym))
             [] d.sym = 16 /\ sizes = <<>> -> Broken
             [] d.sym > 16 \/ sizes # <<>> ->
                  IF Left(next) < extra THEN Broken
                  ELSE Unpack(table, n, next + extra, sizes \o [i \in 1..times |-> value])

(* The tables of a dynamic block, whose description begins at a position.   *)
NoTables == [ok |-> FALSE, pos |-> 0, tables |-> <<>>]

DynamicTables(pos) ==
  LET nlit  == 257 + Get(pos, 5)
      ndist == 1 + Get(pos + 5, 5)
      nsize == 4 + Get(pos + 10, 4)
      order(s) == CHOOSE i \in 1..19 : Dezigzag[i] = s
      Sizes(short) ==
        IF Usable(short) THEN Unpack(short, nlit + ndist, pos + 14 + 3 * nsize, <<>>)
        ELSE Broken
      Checked(end, lits, dists) ==
        IF Usable(dists) /\ Usable(lits)
        THEN [ok |-> TRUE, pos |-> end, tables |-> <<lits, dists>>]
        ELSE NoTables
      Split(all) ==
        IF all.ok
        THEN Checked(all.pos, Table(SubSeq(all.sizes, 1, nlit)),
                     Table(SubSeq(all.sizes, nlit + 1, nlit + ndist)))
        ELSE NoTables
  IN  IF Left(pos) < 14 \/ Left(pos) < 14 + 3 * nsize
      THEN NoTables
      ELSE Split(Sizes(Table(
             [i \in 1..19 |-> IF order(i - 1) > nsize THEN 0
                              ELSE Get(pos + 14 + 3 * (order(i - 1) - 1), 3)])))

StaticTables(pos) ==
  [ok |-> TRUE, pos |-> pos, tables |-> <<Table(StaticLitSizes), Table(StaticDistSizes)>>]

NextBlock(last) == IF last THEN "trailer" ELSE "block"

ReadRaw(pos, last) ==
  LET n == Get(pos, 16)
  IN  IF \/ Left(pos) < 32
         \/ n + Get(pos + 16, 16) # 65535
         \/ n > room - Len(output)
         \/ 8 * n > Left(pos + 32)
      THEN Give("failed")
      ELSE /\ output' = output \o [i \in 1..n |-> Get(pos + 24 + 8 * i, 8)]
           /\ at' = pos + 32 + 8 * n
           /\ final' = last
           /\ state' = NextBlock(last)
           /\ UNCHANGED <<input, room, tables>>

BeginBlock(t, last) ==
  IF ~t.ok THEN Give("failed")
  ELSE /\ tables' = t.tables
       /\ at' = t.pos
       /\ final' = last
       /\ state' = "codes"
       /\ UNCHANGED <<input, room, output>>

ReadBlock ==
  /\ state = "block"
  /\ LET last == Get(at, 1) = 1
         type == Get(at + 1, 2)
     IN  CASE Left(at) < 3 \/ type = 3 -> Give("failed")
           [] Left(at) >= 3 /\ type = 0 -> ReadRaw(Aligned(at + 3), last)
           [] Left(at) >= 3 /\ type = 1 -> BeginBlock(StaticTables(at + 3), last)
           [] Left(at) >= 3 /\ type = 2 -> BeginBlock(DynamicTables(at + 3), last)

-----------------------------------------------------------------------------

(* A match may reach into what it is itself writing.  A distance of 0, of   *)
(* the two symbols that have none, finds the zeros of the new buffer.       *)
Copied(text, len, dist) ==
  text \o [i \in 1..len |->
             IF dist = 0 THEN 0 ELSE text[Len(text) - dist + 1 + ((i - 1) % dist)]]

(* Variant: the buffer is taken to be large enough.                         *)
Write_NoRoom(text, pos) ==
  /\ output' = text
  /\ at' = pos
  /\ UNCHANGED <<input, room, state, final, tables>>

Write(text, pos) ==
  IF Len(text) > room THEN Give("failed")
  ELSE /\ output' = text
       /\ at' = pos
       /\ UNCHANGED <<input, room, state, final, tables>>

ReadMatch(sym, pos) ==
  LET more == LengthExtra(sym)
      d    == Decode(tables[2], pos + more)
      pos2 == pos + more + d.size
      len  == LengthBase[sym - 256] + Get(pos, more)
      dist == DistBase[d.sym + 1] + Get(pos2, DistExtra(d.sym))
  IN  IF \/ Left(pos) < more
         \/ d = Unreadable
         \/ Left(pos2) < DistExtra(d.sym)
         \/ dist > Len(output)
      THEN Give("failed")
      ELSE Write(Copied(output, len, dist), pos2 + DistExtra(d.sym))

ReadSymbol ==
  /\ state = "codes"
  /\ LET s == Decode(tables[1], at)
     IN  CASE s = Unreadable -> Give("failed")
           [] s.sym \in 0..255 -> Write(Append(output, s.sym), at + s.size)
           [] s.sym > EndOfBlock -> ReadMatch(s.sym, at + s.size)
           [] s.sym = EndOfBlock ->
                /\ at' = at + s.size
                /\ state' = NextBlock(final)
                /\ tables' = <<>>
                /\ UNCHANGED <<input, room, final, output>>

(* Variant: the checksum is read over.                                      *)
ReadTrailer_NoChecksum ==
  /\ state = "trailer"
  /\ Give(IF Left(Aligned(at)) >= 32 THEN "done" ELSE "failed")

ReadTrailer ==
  /\ state = "trailer"
  /\ LET pos == Aligned(at)
     IN  Give(IF /\ Left(pos) >= 32
                 /\ \A i \in 1..4 : Get(pos + 8 * (i - 1), 8) = mz_adler32(output)[i]
              THEN "done" ELSE "failed")

tinfl_decompress == ReadHeader \/ ReadBlock \/ ReadSymbol \/ ReadTrailer

=============================================================================
