----------------------------- MODULE MCWebstore -----------------------------
(* A small instance of Webstore for TLC: one token and one limited address. *)
EXTENDS Webstore

CONSTANTS t1, listener, a, x, localhost, hello

MCUrls        == {"abcd", "xyz!"}
MCUrlLen      == [u \in MCUrls |-> 4]
MCConvertHash == [u \in MCUrls |-> IF u = "abcd" THEN a ELSE NotHex]
MCHashLen     == [n \in Nodes |-> 4]
MCDataLen     == [b \in Bodies |-> 5]
MCIsZ85       == [b \in Bodies |-> TRUE]

Config(mt, imm, bar, exp) ==
  [multithreaded |-> mt, immutable |-> imm, bar |-> bar, expiration |-> exp]

(* A server that burns keeps its messages; an immutable message may end.    *)
BarSettings == {Config(mt, FALSE, TRUE, 0) : mt \in BOOLEAN}
ImmSettings == {Config(mt, TRUE, FALSE, 1) : mt \in BOOLEAN}
MCSettings  == BarSettings \cup ImmSettings
=============================================================================
