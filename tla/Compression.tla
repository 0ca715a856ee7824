---------------------------- MODULE Compression ----------------------------
(***************************************************************************)
(* compression.c: mza_squash packs a message for ws_post, mza_restore      *)
(* unpacks it for ws_get, which does not know how long it was and does so  *)
(* only with what looks like a pack.  In between the pack is stored in the *)
(* server; a bit of it may turn over.                                      *)
(***************************************************************************)
EXTENDS Tdefl, Tinfl

CONSTANTS
  Messages,       \* what may be packed
  Fragile,        \* the messages whose packs may be damaged
  RestoreFactor   \* 10: how many times the pack the buffer holds

VARIABLE damaged

vars == <<tdeflVars, tinflVars, damaged>>

Init ==
  /\ \E m \in Messages, n \in Probes : TdeflInit(m, n)
  /\ TinflIdle
  /\ damaged = FALSE

comp_len == Len(input) \div 8

(* mz_compress, a turn at a time.                                           *)
Squash ==
  /\ state = "idle"
  /\ compress_normal
  /\ UNCHANGED <<tinflVars, damaged>>

(* Its end, and what mza_squash returns: nothing if the buffer was too small *)
mza_squash ==
  /\ state = "idle"
  /\ Finish
  /\ input' = out'
  /\ state' = IF Len(out') > 8 * compressBound(Len(source)) THEN "failed" ELSE "packed"
  /\ UNCHANGED <<room, at, final, tables, output, damaged>>

Flip(bits, i) == [bits EXCEPT ![i] = 1 - @]

Damage ==
  /\ state = "packed"
  /\ source \in Fragile
  /\ ~damaged
  /\ damaged' = TRUE
  /\ \E i \in DOMAIN input : input' = Flip(input, i)
  /\ UNCHANGED <<tdeflVars, room, state, at, final, tables, output>>

(* What ws_get tests to tell a pack from a message that was not packed.     *)
Recognised == comp_len > 6 /\ SubSeq(input, 1, 16) = Bits(120, 8) \o Bits(1, 8)

(* mza_restore: a buffer of ten times the pack, then mz_uncompress.         *)
mza_restore ==
  /\ state = "packed"
  /\ Recognised
  /\ room' = RestoreFactor * comp_len
  /\ state' = "header"
  /\ UNCHANGED <<tdeflVars, input, at, final, tables, output, damaged>>

(* handle_page of ws_get writes what does not look like a pack as it is.    *)
write_raw ==
  /\ state = "packed"
  /\ ~Recognised
  /\ state' = "raw"
  /\ UNCHANGED <<tdeflVars, input, room, at, final, tables, output, damaged>>

mz_uncompress ==
  /\ tinfl_decompress
  /\ UNCHANGED <<tdeflVars, damaged>>

Next == Squash \/ mza_squash \/ Damage \/ mza_restore \/ write_raw \/ mz_uncompress

Spec == Init /\ [][Next]_vars

-----------------------------------------------------------------------------

(* Every variable keeps its type: above all the counters with which         *)
(* tdefl_compress_normal walks its ring buffer.                             *)
TypeOK ==
  /\ source \in Messages /\ probes \in Probes
  /\ lookahead_pos \in 0..Len(source) /\ dict_size \in 0..DictSize
  /\ block_pos \in 0..lookahead_pos
  /\ \A i \in DOMAIN codes : codes[i].len \in 1..MaxMatch /\ codes[i].dist \in 0..DictSize
  /\ out \in Seq({0, 1}) /\ input \in Seq({0, 1})
  /\ state \in {"idle", "packed", "header", "block", "codes", "trailer", "done", "failed", "raw"}
  /\ at \in 0..Len(input)
  /\ final \in BOOLEAN /\ damaged \in BOOLEAN

(* The text that LZ codes spell after a text.                               *)
Spelled(text, cs) ==
  LET t[i \in 0..Len(cs)] ==
        IF i = 0 THEN text
        ELSE IF cs[i].dist = 0 THEN Append(t[i - 1], cs[i].lit)
        ELSE Copied(t[i - 1], cs[i].len, cs[i].dist)
  IN  t[Len(cs)]

(* The loop invariant of the compressor (miniz.c:1711): the codes of the     *)
(* block, after the blocks before it, spell the message up to the byte that  *)
(* is coded next: no match was found in bytes that had been overwritten.     *)
CodesSpellMessage ==
  Spelled(SubSeq(source, 1, block_pos), codes) = SubSeq(source, 1, lookahead_pos)

(* What ws_get writes of an intact pack (handle_page, ws_get.c:96; and       *)
(* mza_restore, compression.c:43) is the message, never the pack itself,     *)
(* unless the message is more than ten times as long as its pack: then, and  *)
(* only then, it writes nothing.                                             *)
Restored ==
  ~damaged =>
    /\ state = "done" => output = source
    /\ state = "failed" => Len(source) > room
    /\ state # "raw"

(* Of a pack that comes back with a bit turned over ws_get writes the        *)
(* message or nothing (the tables' checks and the checksum, miniz.c:2540 and *)
(* 2846), except when the bit is one of the sixteen by which it knows a pack *)
(* (ws_get.c:96): only then it writes another text, the damaged pack.        *)
DamageNoticed ==
  damaged =>
    /\ state = "done" => output = source
    /\ state = "raw" => \E i \in 1..16 : input = Flip(out, i)

(* The decompressor writes into a buffer that it did not size, and the       *)
(* compressor into one that mz_compressBound sized: neither goes past its    *)
(* end, whatever the pack says.                                              *)
BuffersHold ==
  /\ Len(output) <= room
  /\ Len(input) <= 8 * compressBound(Len(source))

(* What ws_get's test (ws_get.c:96) takes for granted of every pack of       *)
(* ws_post: that it begins with 78 01 and has more than six bytes.           *)
PacksAreRecognised == state = "packed" /\ ~damaged => Recognised

=============================================================================
