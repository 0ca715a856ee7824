------------------------------- MODULE Tdefl -------------------------------
(***************************************************************************)
(* The compressor of miniz (tdefl), as mz_compress runs it: one call with  *)
(* the whole message and MZ_FINISH, at the default level.  That is level   *)
(* -1, which has the 128 probes of level 6, and the greedy parsing of the  *)
(* levels up to 3: no match is put aside for a better one.  A step is one  *)
(* turn of the loop of tdefl_compress_normal; the last one flushes what is *)
(* left.  Positions count from 0, the output is a sequence of bits.        *)
(***************************************************************************)
EXTENDS Huffman

CONSTANTS
  DictSize,     \* TDEFL_LZ_DICT_SIZE, 32768
  CodeBufSize,  \* TDEFL_LZ_CODE_BUF_SIZE, 65536
  FlushAt,      \* 31 * 1024: a block that does not shrink ends past it
  FarAway,      \* 8 * 1024: a match of three bytes is not worth more
  StaticBelow,  \* 48: a shorter block has the static tables
  LitLimit,     \* 15: the longest code of a literal, length or distance
  SizeLimit,    \* 7: the longest code of a code size
  Probes        \* how many earlier places a search may look at

MinMatch == 3
MaxMatch == 258

ASSUME TdeflAssumption ==
  /\ DictSize > FlushAt + MaxMatch
  /\ LitLimit \in 1..MaxSize /\ SizeLimit \in 1..7
  /\ Probes \subseteq Nat

VARIABLES
  source,         \* the message
  probes,         \* the places that a search looks at: hash collisions and
                  \* max_probes decide, and no more is known of it
  lookahead_pos,  \* the next byte to be coded
  dict_size,      \* how far back a match may lie
  codes,          \* the LZ codes of the block
  block_pos,      \* where the block begins
  out             \* the output

tdeflVars == <<source, probes, lookahead_pos, dict_size, codes, block_pos, out>>

Byte(pos) == source[pos + 1]

Literal(b) == [len |-> 1, dist |-> 0, lit |-> b]
Match(len, dist) == [len |-> len, dist |-> dist, lit |-> 0]

TdeflInit(m, n) ==
  /\ source = m
  /\ probes = n
  /\ lookahead_pos = 0
  /\ dict_size = 0
  /\ codes = <<>>
  /\ block_pos = 0
  /\ out = <<>>

-----------------------------------------------------------------------------
(* Finding matches.                                                         *)

(* Variant: all that is left of the message is read ahead.                  *)
Lookahead_Everything == Len(source) - lookahead_pos

Lookahead == LET left == Len(source) - lookahead_pos
             IN  IF left < MaxMatch THEN left ELSE MaxMatch

(* The oldest bytes make room for the ones that have been read ahead.       *)
Window == IF DictSize - Lookahead < dict_size THEN DictSize - Lookahead ELSE dict_size

Grown(n) == IF Window + n < DictSize THEN Window + n ELSE DictSize

(* m_dict is a ring: what lies at a position is the newest byte of its slot. *)
DictByte(pos) ==
  LET newest == lookahead_pos + Lookahead - 1
  IN  Byte(newest - ((newest - pos) % DictSize))

(* Variant: the byte that ends a match is counted with it.                  *)
Common_WithLast(pos) ==
  Cardinality({i \in 0..Lookahead - 1 :
                 \A j \in 0..i - 1 : DictByte(pos + j) = DictByte(lookahead_pos + j)})

(* How many bytes there are the same from a place and from here on.         *)
Common(pos) ==
  LET differ == {i \in 0..Lookahead - 1 : DictByte(pos + i) # DictByte(lookahead_pos + i)}
  IN  IF differ = {} THEN Lookahead ELSE CHOOSE i \in differ : \A j \in differ : i <= j

(* The hash chain: the places, position 0 excepted, that begin with the same *)
(* three bytes.  A search goes from the nearest on.                         *)
Chain ==
  {p \in 1..lookahead_pos - 1 :
     /\ lookahead_pos - p <= Window
     /\ Lookahead >= MinMatch
     /\ \A i \in 0..2 : DictByte(p + i) = DictByte(lookahead_pos + i)}

(* Not worth its code, or (at the start of the dictionary) indistinguishable *)
(* from none.                                                               *)
Worthless(m) ==
  \/ m.len = MinMatch /\ m.dist >= FarAway
  \/ m.dist = lookahead_pos % DictSize

(* The longest match, the nearest of its length, or the byte by itself.     *)
find_match ==
  LET chain == Chain
      near  == {p \in chain : Cardinality({q \in chain : q > p}) < probes}
      found == {Match(Common(p), lookahead_pos - p) : p \in near}
      best  == CHOOSE m \in found :
                 \A n \in found : n.len < m.len \/ (n.len = m.len /\ m.dist <= n.dist)
  IN  IF found = {} \/ Worthless(best) THEN Literal(Byte(lookahead_pos)) ELSE best

TotalBytes(cs) == Total([i \in 1..Len(cs) |-> cs[i].len])

(* A literal takes one byte, a match three, eight codes share one of flags.  *)
CodeBytes(cs) ==
  1 + Len(cs) + 2 * Cardinality({i \in DOMAIN cs : cs[i].dist > 0}) + Len(cs) \div 8

BlockIsFull(cs) ==
  \/ CodeBytes(cs) > CodeBufSize - 8
  \/ /\ TotalBytes(cs) > FlushAt
     /\ (CodeBytes(cs) * 115) \div 128 >= TotalBytes(cs)

-----------------------------------------------------------------------------
(* Huffman codes for the symbols that a block uses.                         *)

(* The depths of the leaves of a tree that is grown from two queues, the    *)
(* leaves by frequency and the trees already joined: on a tie a leaf goes   *)
(* first.                                                                   *)
RECURSIVE minimum_redundancy(_, _)
minimum_redundancy(leaves, joined) ==
  IF Len(leaves) + Len(joined) = 1 THEN (leaves \o joined)[1].depths
  ELSE LET Leaf(l, j) == j = <<>> \/ (l # <<>> /\ Head(l).freq <= Head(j).freq)
           fst == Leaf(leaves, joined)
           a   == IF fst THEN Head(leaves) ELSE Head(joined)
           l1  == IF fst THEN Tail(leaves) ELSE leaves
           j1  == IF fst THEN joined ELSE Tail(joined)
           snd == Leaf(l1, j1)
           b   == IF snd THEN Head(l1) ELSE Head(j1)
           ab  == [freq |-> (a.freq + b.freq) % 65536,
                   depths |-> Listed([i \in 1..Len(a.depths) + Len(b.depths) |->
                                        (a.depths \o b.depths)[i] + 1])]
       IN  minimum_redundancy(IF snd THEN Tail(l1) ELSE l1,
                              Append(IF snd THEN j1 ELSE Tail(j1), ab))

(* The codes that are too long take the longest size allowed; as long as    *)
(* they need more room than there is, one of them moves up beside a shorter *)
(* code, which grows by a bit.                                              *)
RECURSIVE MakeRoom(_, _)
MakeRoom(counts, limit) ==
  LET total == Total([l \in 1..limit |-> counts[l] * 2^(limit - l)])
      grows == CHOOSE l \in 1..limit - 1 :
                 counts[l] > 0 /\ \A k \in l + 1..limit - 1 : counts[k] = 0
  IN  IF total = 2^limit THEN counts
      ELSE LET fewer == [counts EXCEPT ![limit] = @ - 1]
           IN  MakeRoom(Listed([fewer EXCEPT ![grows] = @ - 1, ![grows + 1] = @ + 2]), limit)

enforce_max_code_size(depths, limit) ==
  LET Count(l) == Cardinality({i \in DOMAIN depths : depths[i] = l
                                 \/ (l = limit /\ depths[i] > limit)})
      counts == Listed([l \in 1..limit |-> Count(l)])
  IN  IF Len(depths) <= 1 THEN counts ELSE MakeRoom(counts, limit)

(* The symbols by frequency; the rarest get the longest codes.              *)
Sorted(freq) ==
  LET used == {s \in 0..Len(freq) - 1 : freq[s + 1] > 0}
      Rank(s) == Cardinality({t \in used : \/ freq[t + 1] < freq[s + 1]
                                           \/ freq[t + 1] = freq[s + 1] /\ t <= s})
  IN  Listed([i \in 1..Cardinality(used) |-> CHOOSE s \in used : Rank(s) = i])

optimize_huffman_table(freq, limit) ==
  LET syms   == Sorted(freq)
      n      == Len(syms)
      depths == CASE n = 0 -> <<>>
                  [] n = 1 -> <<1>>
                  [] OTHER -> minimum_redundancy(
                                Listed([i \in 1..n |-> [freq |-> freq[syms[i] + 1],
                                                        depths |-> <<0>>]]), <<>>)
      counts == enforce_max_code_size(depths, limit)
      UpTo(l) == Total(SubSeq(counts, 1, l))
      SizeOf(i) == CHOOSE l \in 1..limit : UpTo(l - 1) < n - i + 1 /\ n - i + 1 <= UpTo(l)
  IN  Listed([s \in 1..Len(freq) |->
                IF freq[s] = 0 THEN 0 ELSE SizeOf(CHOOSE i \in 1..n : syms[i] = s - 1)])

-----------------------------------------------------------------------------
(* Blocks.                                                                  *)

(* The last symbol whose base is no more than the length or distance.       *)
LenSym(len) == 256 + (CHOOSE i \in 1..29 : LengthBase[i] <= len /\ \A j \in i + 1..29 : LengthBase[j] > len)

DistSym(dist) == (CHOOSE i \in 1..30 : DistBase[i] <= dist /\ \A j \in i + 1..30 : DistBase[j] > dist) - 1

LitSym(c) == IF c.dist = 0 THEN c.lit ELSE LenSym(c.len)

(* compress_lz_codes *)
Coded(cs, lits, dists) ==
  LET CodeOf(c) ==
        Code(lits, LitSym(c)) \o
        IF c.dist = 0 THEN <<>>
        ELSE LET l == LitSym(c)
                 d == DistSym(c.dist)
             IN  Bits(c.len - LengthBase[l - 256], LengthExtra(l)) \o Code(dists, d) \o
                 Bits(c.dist - DistBase[d + 1], DistExtra(d))
  IN  Concat([i \in 1..Len(cs) |-> CodeOf(cs[i])]) \o Code(lits, EndOfBlock)

StaticBlock(cs) == <<1, 0>> \o Coded(cs, Table(StaticLitSizes), Table(StaticDistSizes))

(* Code sizes are packed by runs: zeros by up to 138, repeats of the size   *)
(* before by up to 6, and fewer than three one by one.                      *)
Plain(v) == [sym |-> v, count |-> 0]

(* Variant: a run of zeros may be one longer.                               *)
RECURSIVE Repeated_OneMore(_, _)
Repeated_OneMore(v, n) ==
  LET most == IF v = 0 THEN 139 ELSE 6
  IN  CASE n < 3 -> [i \in 1..n |-> Plain(v)]
        [] n > most -> Repeated_OneMore(v, most) \o Repeated_OneMore(v, n - most)
        [] OTHER -> <<CASE v # 0 -> [sym |-> 16, count |-> n - 3]
                        [] v = 0 /\ n <= 10 -> [sym |-> 17, count |-> n - 3]
                        [] v = 0 /\ n > 10 -> [sym |-> 18, count |-> n - 11]>>

RECURSIVE Repeated(_, _)
Repeated(v, n) ==
  LET most == IF v = 0 THEN 138 ELSE 6
  IN  CASE n < 3 -> [i \in 1..n |-> Plain(v)]
        [] n > most -> Repeated(v, most) \o Repeated(v, n - most)
        [] OTHER -> <<CASE v # 0 -> [sym |-> 16, count |-> n - 3]
                        [] v = 0 /\ n <= 10 -> [sym |-> 17, count |-> n - 3]
                        [] v = 0 /\ n > 10 -> [sym |-> 18, count |-> n - 11]>>

RECURSIVE Packed(_)
Packed(sizes) ==
  IF sizes = <<>> THEN <<>>
  ELSE LET v    == Head(sizes)
           ends == {i \in DOMAIN sizes : i = Len(sizes) \/ sizes[i + 1] # v}
           n    == CHOOSE i \in ends : \A j \in ends : i <= j
       IN  (IF v = 0 THEN Repeated(0, n) ELSE <<Plain(v)>> \o Repeated(v, n - 1)) \o
           Packed(SubSeq(sizes, n + 1, Len(sizes)))

(* How many sizes there are up to the last that is not 0, but `least`.      *)
UpToUsed(sizes, least) ==
  CHOOSE n \in least..Len(sizes) :
    /\ n = least \/ sizes[n] > 0
    /\ \A i \in n + 1..Len(sizes) : sizes[i] = 0

(* They have codes of their own, whose sizes come first.                    *)
SizeCodes(packed, sizes) ==
  LET order == Listed([i \in 1..19 |-> sizes[Dezigzag[i] + 1]])
      nsize == UpToUsed(order, 4)
      table == Table(sizes)
      CodeOf(p) == Code(table, p.sym) \o
                   IF p.sym < 16 THEN <<>> ELSE Bits(p.count, RepeatExtra[p.sym])
  IN  Bits(nsize - 4, 4) \o
      Concat([i \in 1..nsize |-> Bits(order[i], 3)]) \o
      Concat([i \in 1..Len(packed) |-> CodeOf(packed[i])])

PackedCodes(packed) ==
  SizeCodes(packed,
    optimize_huffman_table(
      Listed([s \in 1..19 |-> Cardinality({i \in DOMAIN packed : packed[i].sym = s - 1})]),
      SizeLimit))

DynamicBlock(cs) ==
  LET Count(Sym(_), which, n) ==
        Listed([i \in 1..n |-> Cardinality({c \in which : Sym(cs[c]) = i - 1})])
      DSym(c) == DistSym(c.dist)
      Block(lits, dists) ==
        LET nlit  == UpToUsed(lits, 257)
            ndist == UpToUsed(dists, 1)
        IN  <<0, 1>> \o Bits(nlit - 257, 5) \o Bits(ndist - 1, 5) \o
            PackedCodes(Packed(SubSeq(lits, 1, nlit) \o SubSeq(dists, 1, ndist))) \o
            Coded(cs, Table(lits), Table(dists))
  IN  Block(optimize_huffman_table(
              [Count(LitSym, DOMAIN cs, 288) EXCEPT ![EndOfBlock + 1] = 1], LitLimit),
            optimize_huffman_table(
              Count(DSym, {i \in DOMAIN cs : cs[i].dist > 0}, 32), LitLimit))

RawBlock(head, n) ==
  Pad(head \o <<0, 0>>) \o Bits(n, 16) \o Bits(65535 - n, 16) \o
  Concat([i \in 1..n |-> Bits(Byte(block_pos + i - 1), 8)])

(* Variant: the header of level 6.                                          *)
ZlibHeader_Level6 == Bits(120, 8) \o Bits(156, 8)

ZlibHeader == Bits(120, 8) \o Bits(1, 8)

(* flush_block: a block that would not be smaller is stored as it is, while *)
(* its bytes are all in the dictionary.  Blocks are small enough for the    *)
(* output buffer, so the static tables are never a second try.              *)
flush_block(cs, window, pos, finish) ==
  LET head  == out \o (IF out = <<>> THEN ZlibHeader ELSE <<>>) \o
               <<IF finish THEN 1 ELSE 0>>
      total == TotalBytes(cs)
      Kept(packed) ==
        IF /\ total > 0
           /\ Len(packed) \div 8 - Len(head) \div 8 + 1 >= total
           /\ pos - block_pos <= window
        THEN RawBlock(head, total) ELSE packed
      Ended(block, sum) ==
        IF finish THEN Pad(block) \o Concat([i \in 1..4 |-> Bits(sum[i], 8)]) ELSE block
  IN  Ended(Kept(head \o IF total < StaticBelow THEN StaticBlock(cs) ELSE DynamicBlock(cs)),
            mz_adler32(source))

-----------------------------------------------------------------------------

compress_normal ==
  /\ lookahead_pos < Len(source)
  /\ LET code   == find_match
         cs     == Append(codes, code)
         pos    == lookahead_pos + code.len
         window == Grown(code.len)
         full   == BlockIsFull(cs)
     IN  /\ lookahead_pos' = pos
         /\ dict_size' = window
         /\ out' = IF full THEN flush_block(cs, window, pos, FALSE) ELSE out
         /\ codes' = IF full THEN <<>> ELSE cs
         /\ block_pos' = IF full THEN block_pos + TotalBytes(cs) ELSE block_pos
  /\ UNCHANGED <<source, probes>>

Finish ==
  /\ lookahead_pos = Len(source)
  /\ out' = flush_block(codes, dict_size, lookahead_pos, TRUE)
  /\ codes' = <<>>
  /\ block_pos' = block_pos + TotalBytes(codes)
  /\ UNCHANGED <<source, probes, lookahead_pos, dict_size>>

(* deflateBound *)
compressBound(n) ==
  LET a == 128 + (n * 110) \div 100
      b == 128 + n + (n \div FlushAt + 1) * 5
  IN  IF a > b THEN a ELSE b

=============================================================================
