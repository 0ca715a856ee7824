------------------------------- MODULE MCNode -------------------------------
(* Small instances of WebstoreNode for TLC.                                 *)
EXTENDS WebstoreNode, TLC

CONSTANTS t1, t2, a, b, hello, world

Keys1 == {a}
Keys2 == {a, b}

(* Two of the six nodes, with scaled-down hash lengths.  The urls are one   *)
(* hash in two spellings, a prefix of it, a text that is not hexadecimal    *)
(* and a hash of the second node's length.                                  *)
MCNodes   == {"store128", "store160"}
MCHashLen == [n \in MCNodes |-> IF n = "store128" THEN 4 ELSE 5]

Urls1 == {"abcd", "ABCD", "abc", "xyz!"}
Urls2 == Urls1 \cup {"12345"}

MCUrlLen(urls) ==
  [u \in urls |-> CASE u = "abc" -> 3 [] u = "12345" -> 5 [] OTHER -> 4]
MCConvertHash(urls) ==
  [u \in urls |-> CASE u = "xyz!" -> "NotHex" [] u = "12345" -> b [] OTHER -> a]

UrlLen1 == MCUrlLen(Urls1)
UrlLen2 == MCUrlLen(Urls2)
ConvertHash1 == MCConvertHash(Urls1)
ConvertHash2 == MCConvertHash(Urls2)

(* Bodies to store, one that is too short and one that is not Z85.          *)
MCBodies  == {"short", "not85", hello, world}
MCDataLen == [x \in MCBodies |-> IF x = "short" THEN 4 ELSE 5]
MCIsZ85   == [x \in MCBodies |-> x # "not85"]
MCVals    == {hello, world}

Config(mt, imm, bar, exp) ==
  [multithreaded |-> mt, immutable |-> imm, bar |-> bar, expiration |-> exp]

AllSettings == {Config(mt, imm, bar, exp) :
                  mt \in BOOLEAN, imm \in BOOLEAN, bar \in BOOLEAN, exp \in {0, 60}}

BurnSettings    == {Config(mt, FALSE, TRUE, 0) : mt \in BOOLEAN}
KeepSettings    == {Config(mt, TRUE, FALSE, 60) : mt \in BOOLEAN}
FaultySettings  == BurnSettings \cup KeepSettings

(* The threads are interchangeable, and so are the messages.                *)
Symmetry == Permutations({t1, t2}) \cup Permutations({hello, world})
=============================================================================
