--------------------------- MODULE WsClientProofs ---------------------------
(***************************************************************************)
(* What holds of the clients, however many of them run at one server, what *)
(* they post and get, and wherever their connections break.                *)
(***************************************************************************)
EXTENDS WsClient, Z85Proofs, OptionsProofs

-----------------------------------------------------------------------------
(* The command line.                                                        *)

(* A message on the command line has bytes and no NUL, and ws_post's file   *)
(* is one that there is (parse_args).                                       *)
LEMMA ArgumentOf ==
  ASSUME NEW s \in Scenarios, NEW p \in Run, s[p].prog # "curl", NEW name, name # "end",
         IsSet(Scan(s[p].argv, Table[s[p].prog]), name)
  PROVE  LET a == ArgOf(Scan(s[p].argv, Table[s[p].prog]), name)
         IN  /\ name = "msg" => a \in Seq(Byte \ {0})
             /\ name = "file" /\ s[p].prog = "ws_post" => a \in DOMAIN Contents
<1> DEFINE argv == s[p].argv
           prog == s[p].prog
           table == Table[prog]
<1>1. /\ Len(argv) \in Nat /\ argv = [i \in 1..Len(argv) |-> argv[i]]
      /\ \A k \in 1..Len(argv) : ArgumentHolds(prog, getopts(argv, k, table))
  BY ScenarioAssumption DEF CanRun
<1>2. IsSet(Scan(argv, table), name) OBVIOUS
<1> HIDE DEF argv, table, prog
<1>3. argv \in Seq({argv[i] : i \in 1..Len(argv)})
  <2> DEFINE W == {argv[i] : i \in 1..Len(argv)}
             n == Len(argv)
  <2>1. \A i \in 1..n : argv[i] \in W OBVIOUS
  <2>2. n \in Nat /\ argv = [i \in 1..n |-> argv[i]] BY <1>1
  <2> HIDE DEF W, n
  <2>3. argv \in [1..n -> W] BY <2>1, <2>2
  <2>4. argv \in Seq(W) BY <2>2, <2>3
  <2> QED BY <2>4 DEF W
<1>4. PICK k \in 1..Len(argv) : /\ getopts(argv, k, table).ret = name
                                /\ ArgOf(Scan(argv, table), name) = getopts(argv, k, table).arg
  BY <1>2, <1>3, Argued
<1>5. ArgumentHolds(prog, getopts(argv, k, table)) BY <1>1
<1> QED BY <1>4, <1>5 DEF ArgumentHolds, argv, table, prog

-----------------------------------------------------------------------------
(* Types.                                                                   *)

(* The NUL that parse_args and get_file put behind a message is a byte.     *)
LEMMA Zero == 0 \in Byte
BY Sizes DEF Byte

(* What parse_args comes to: the usage text, a refusal, a request, or a     *)
(* message to read or to encode.                                            *)
ParsesTo(p, o, l, n, b) ==
  /\ pc' = [pc EXCEPT ![p] = l] /\ opts' = [opts EXCEPT ![p] = o]
  /\ msglen' = [msglen EXCEPT ![p] = n] /\ buffer' = [buffer EXCEPT ![p] = b]
  /\ \/ l = "done" /\ IsUsage(o)
     \/ l = "failed"
     \/ l = "request" /\ cmd[p].prog # "ws_post"
     \/ /\ l = "stat" /\ cmd[p].prog = "ws_post" /\ n >= 1
        /\ IsSet(o, "file") /\ ArgOf(o, "file") \in DOMAIN Contents
     \/ /\ l = "encode" /\ cmd[p].prog = "ws_post" /\ n >= 1
        /\ ~IsSet(o, "file") /\ Len(b) = n + 1

(* parse_args takes a message that is there, and leaves its bytes and a NUL *)
(* behind it or a file to read them from.                                   *)
LEMMA Parsed ==
  ASSUME TypeInv, NEW p \in Run, parse_args(p)
  PROVE  /\ pc[p] = "start"
         /\ UNCHANGED <<settings, store, disk, cmd, size, block, page, code, poster, saved>>
         /\ \E o, l : \E n \in Nat, b \in Seq(Byte) : ParsesTo(p, o, l, n, b)
<1> DEFINE prog == cmd[p].prog
           o == Scan(cmd[p].argv, Table[prog])
           m == Given(o, "msg", <<>>)
           long == IF IsSet(o, "file") THEN file_size(ArgOf(o, "file")) ELSE Len(m)
<1>1. /\ pc[p] = "start" /\ prog # "curl"
      /\ UNCHANGED <<settings, store, disk, cmd, size, block, page, code, poster, saved>>
      /\ opts' = [opts EXCEPT ![p] = o]
      /\ IF IsUsage(o)
         THEN Goto(p, "done") /\ UNCHANGED <<msglen, buffer>>
         ELSE IF ~Acceptable(prog, o) \/ (prog = "ws_post" /\ long < 1)
         THEN Goto(p, "failed") /\ UNCHANGED <<msglen, buffer>>
         ELSE IF prog # "ws_post"
         THEN Goto(p, "request") /\ UNCHANGED <<msglen, buffer>>
         ELSE /\ msglen' = [msglen EXCEPT ![p] = long]
              /\ IF IsSet(o, "file")
                 THEN Goto(p, "stat") /\ UNCHANGED buffer
                 ELSE Goto(p, "encode") /\ buffer' = [buffer EXCEPT ![p] = Append(m, 0)]
  BY DEF parse_args
<1>2. /\ IsSet(o, "msg") => ArgOf(o, "msg") \in Seq(Byte \ {0})
      /\ IsSet(o, "file") /\ prog = "ws_post" => ArgOf(o, "file") \in DOMAIN Contents
  BY <1>1, ArgumentOf DEF TypeInv
<1>3. /\ msglen[p] \in Nat /\ buffer[p] \in Seq(Byte)
      /\ msglen = [msglen EXCEPT ![p] = msglen[p]] /\ buffer = [buffer EXCEPT ![p] = buffer[p]]
  BY DEF TypeInv
<1> HIDE DEF o
<1>4. m \in Seq(Byte)
  <2>1. ASSUME NEW x \in Seq(Byte \ {0}) PROVE x \in Seq(Byte) OBVIOUS
  <2> QED BY <1>2, <2>1 DEF Given
<1>5. prog = "ws_post" => long \in Nat
  <2>1. CASE IsSet(o, "file") BY <1>2, <2>1 DEF TypeInv, file_size
  <2>2. CASE ~IsSet(o, "file") BY <1>4, <2>2
  <2> QED BY <2>1, <2>2
<1> HIDE DEF m
<1> SUFFICES \E l : \E n \in Nat, b \in Seq(Byte) : ParsesTo(p, o, l, n, b) BY <1>1
<1>6. CASE IsUsage(o)
  <2>1. pc' = [pc EXCEPT ![p] = "done"] /\ UNCHANGED <<msglen, buffer>> BY <1>1, <1>6 DEF Goto
  <2>2. ParsesTo(p, o, "done", msglen[p], buffer[p])
    BY <1>1, <1>3, <1>6, <2>1 DEF ParsesTo
  <2> QED BY <1>3, <2>2
<1>7. CASE ~IsUsage(o) /\ (~Acceptable(prog, o) \/ (prog = "ws_post" /\ long < 1))
  <2>1. pc' = [pc EXCEPT ![p] = "failed"] /\ UNCHANGED <<msglen, buffer>> BY <1>1, <1>7 DEF Goto
  <2>2. ParsesTo(p, o, "failed", msglen[p], buffer[p])
    BY <1>1, <1>3, <2>1 DEF ParsesTo
  <2> QED BY <1>3, <2>2
<1>8. CASE ~IsUsage(o) /\ Acceptable(prog, o) /\ prog # "ws_post"
  <2>1. pc' = [pc EXCEPT ![p] = "request"] /\ UNCHANGED <<msglen, buffer>> BY <1>1, <1>8 DEF Goto
  <2>2. ParsesTo(p, o, "request", msglen[p], buffer[p])
    BY <1>1, <1>3, <1>8, <2>1 DEF ParsesTo
  <2> QED BY <1>3, <2>2
<1>9. CASE ~IsUsage(o) /\ Acceptable(prog, o) /\ prog = "ws_post" /\ ~(long < 1) /\ IsSet(o, "file")
  <2>1. pc' = [pc EXCEPT ![p] = "stat"] /\ msglen' = [msglen EXCEPT ![p] = long] /\ buffer' = buffer
    BY <1>1, <1>9 DEF Goto
  <2>2. long \in Nat /\ long >= 1 BY <1>5, <1>9
  <2> HIDE DEF long
  <2>3. ParsesTo(p, o, "stat", long, buffer[p])
    BY <1>1, <1>2, <1>3, <1>9, <2>1, <2>2 DEF ParsesTo
  <2> QED BY <1>3, <2>2, <2>3
<1>10. CASE ~IsUsage(o) /\ Acceptable(prog, o) /\ prog = "ws_post" /\ ~(long < 1) /\ ~IsSet(o, "file")
  <2> DEFINE b == Append(m, 0)
  <2>1. /\ pc' = [pc EXCEPT ![p] = "encode"] /\ msglen' = [msglen EXCEPT ![p] = long]
        /\ buffer' = [buffer EXCEPT ![p] = b] /\ long = Len(m)
    BY <1>1, <1>10 DEF Goto
  <2>2. b \in Seq(Byte) /\ Len(b) = Len(m) + 1 BY <1>4, Zero
  <2>3. long \in Nat /\ long >= 1 BY <1>5, <1>10
  <2> HIDE DEF long, b
  <2>4. ParsesTo(p, o, "encode", long, b)
    BY <1>1, <1>10, <2>1, <2>2, <2>3 DEF ParsesTo
  <2> QED BY <2>2, <2>3, <2>4
<1> QED BY <1>6, <1>7, <1>8, <1>9, <1>10

(* A piece from the beginning of a sequence.                                *)
LEMMA Beginning ==
  ASSUME NEW S, NEW s \in Seq(S), NEW n \in 0..Len(s)
  PROVE  SubSeq(s, 1, n) \in Seq(S) /\ Len(SubSeq(s, 1, n)) = n
<1>1. Len(s) \in Nat /\ \A i \in 1..Len(s) : s[i] \in S BY LenProperties
<1>2. n \in Nat /\ \A i \in 1..n : s[i] \in S BY <1>1
<1>3. /\ SubSeq(s, 1, n) \in Seq(S)
      /\ Len(SubSeq(s, 1, n)) = IF 1 <= n THEN n - 1 + 1 ELSE 0
  BY <1>2, SubSeqProperties
<1> QED BY <1>2, <1>3

(* What ws_post encodes is bytes, and not nothing.                          *)
LEMMA ContentIs ==
  ASSUME TypeInv, NEW p \in Run, Whole(p)
  PROVE  /\ Message(p) \in Seq(Byte) /\ Message(p) # <<>> /\ Len(Message(p)) = msglen[p]
         /\ Content(p) \in Seq(Byte) /\ Content(p) # <<>>
<1>1. msglen[p] \in 1..Len(buffer[p]) /\ buffer[p] \in Seq(Byte) BY DEF TypeInv, Whole
<1>2. msglen[p] \in 0..Len(buffer[p]) /\ msglen[p] >= 1 BY <1>1
<1>3. Message(p) \in Seq(Byte) /\ Len(Message(p)) = msglen[p] BY <1>1, <1>2, Beginning DEF Message
<1>4. Message(p) # <<>> BY <1>2, <1>3
<1>5. CASE Content(p) = Message(p) BY <1>3, <1>4, <1>5
<1>6. CASE Content(p) # Message(p)
  <2>1. Message(p) \in DOMAIN Squash /\ Content(p) = Squash[Message(p)] BY <1>6 DEF Content
  <2>2. Content(p) \in Seq(Byte) /\ Len(Content(p)) > 6 BY <2>1, ClientAssumption
  <2>3. Content(p) # <<>> BY <2>2
  <2> QED BY <1>3, <1>4, <2>2, <2>3
<1> QED BY <1>5, <1>6

(* printf stops at a NUL, at the latest at the one that ws_get has put      *)
(* behind what it decoded.                                                  *)
LEMMA WrittenIs ==
  ASSUME NEW p \in Run, NEW m \in Seq(Byte)
  PROVE  Written(p, m) \in Seq(Byte)
<1> DEFINE z == Append(m, 0)
           I == {i \in 1..Len(z) : z[i] = 0}
           n == SelectInSeq(z, LAMBDA b : b = 0)
<1>1. Len(m) \in Nat /\ Len(z) = Len(m) + 1 /\ z[Len(m) + 1] = 0 OBVIOUS
<1>2. n = IF I # {} THEN Min(I) ELSE 0 BY DEF SelectInSeq
<1>3. I # {} /\ I \subseteq 1..(Len(m) + 1) BY <1>1
<1> HIDE DEF I
<1>4. \E i \in I : \A j \in I : i <= j
  <2> DEFINE l == Len(m) + 1
  <2>1. l \in Nat /\ I \subseteq 1..l BY <1>1, <1>3
  <2> HIDE DEF l
  <2> QED BY <1>3, <2>1, FirstAndLast
<1>5. Min(I) \in I BY <1>4 DEF Min
<1>6. n \in 1..(Len(m) + 1) BY <1>2, <1>3, <1>5
<1>7. Printed(m) = SubSeq(m, 1, n - 1) BY DEF Printed
<1> HIDE DEF n
<1>8. n - 1 \in 0..Len(m) BY <1>1, <1>6
<1>9. Printed(m) \in Seq(Byte) BY <1>7, <1>8, Beginning
<1> QED BY <1>9 DEF Written

(* What ws_get has of a block that a server holds.                          *)
LEMMA PageIs ==
  ASSUME TypeInv, NEW p \in Run, ReaderInv(p), pc[p] = "page"
  PROVE  /\ page[p] = block[p] /\ page[p] \in Seq(Digit) /\ Len(page[p]) > 1
         /\ cmd[p].prog = "ws_get" /\ code[p] = 200
<1>1. page[p] = block[p] /\ cmd[p].prog = "ws_get" /\ code[p] = 200 BY DEF ReaderInv
<1>2. page[p] \in Seq(Digit) BY DEF TypeInv
<1>3. Len(block[p]) >= MinPost BY <1>1 DEF ReaderInv
<1>4. Len(page[p]) \in Nat BY <1>2
<1> QED BY <1>1, <1>2, <1>3, <1>4, ClientAssumption

(* What handle_page comes to: something written, or the end of the program. *)
HandlesTo(p, l, v) ==
  /\ pc' = [pc EXCEPT ![p] = l] /\ saved' = [saved EXCEPT ![p] = v]
  /\ l = "aborted" => v = saved[p]

(* handle_page writes bytes, and nothing if the decoder's assertions fail.  *)
LEMMA Handled ==
  ASSUME TypeInv, NEW p \in Run, ReaderInv(p), handle_page(p)
  PROVE  /\ pc[p] = "page"
         /\ UNCHANGED <<settings, store, disk, cmd, opts, msglen, size, buffer, block, page, code,
                        poster>>
         /\ \E l \in {"done", "aborted"}, v \in Seq(Byte) : HandlesTo(p, l, v)
<1>1. /\ pc[p] = "page"
      /\ UNCHANGED <<settings, store, disk, cmd, opts, msglen, size, buffer, block, page, code,
                     poster>>
  BY DEF handle_page
<1>2. saved[p] \in Seq(Byte) /\ saved = [saved EXCEPT ![p] = saved[p]] BY DEF TypeInv
<1> DEFINE m == Z85_decode_with_padding(page[p])
<1>3. CASE ~Decodable(page[p])
  <2>1. pc' = [pc EXCEPT ![p] = "aborted"] /\ saved' = saved BY <1>3 DEF handle_page, Goto
  <2>2. HandlesTo(p, "aborted", saved[p]) BY <1>2, <2>1 DEF HandlesTo
  <2> QED BY <1>1, <1>2, <2>2
<1>4. CASE Decodable(page[p])
  <2>1. m \in Seq(Byte) BY <1>1, <1>4, PageIs, DecodeFits
  <2>2. /\ pc' = [pc EXCEPT ![p] = "done"]
        /\ IF ~LooksSquashed(m)
           THEN saved' = [saved EXCEPT ![p] = Written(p, m)]
           ELSE IF Restored(m) = {}
           THEN UNCHANGED saved
           ELSE \E n \in Restored(m) : saved' = [saved EXCEPT ![p] = Written(p, n)]
    BY <1>4 DEF handle_page, Goto
  <2> HIDE DEF m
  <2>3. PICK v \in Seq(Byte) : saved' = [saved EXCEPT ![p] = v]
    <3>1. CASE ~LooksSquashed(m) BY <2>1, <2>2, <3>1, WrittenIs
    <3>2. CASE LooksSquashed(m) /\ Restored(m) = {} BY <1>2, <2>2, <3>2
    <3>3. CASE LooksSquashed(m) /\ Restored(m) # {}
      <4>1. PICK n \in Restored(m) : saved' = [saved EXCEPT ![p] = Written(p, n)]
        BY <2>2, <3>3
      <4>2. n \in Seq(Byte) BY ClientAssumption DEF Restored
      <4> QED BY <4>1, <4>2, WrittenIs
    <3> QED BY <3>1, <3>2, <3>3
  <2>4. HandlesTo(p, "done", v) BY <2>2, <2>3 DEF HandlesTo
  <2> QED BY <1>1, <2>4
<1> QED BY <1>3, <1>4

-----------------------------------------------------------------------------
(* One step of one run.                                                     *)

(* A run that somebody else's step leaves alone.                            *)
Same(q) ==
  /\ pc'[q] = pc[q] /\ opts'[q] = opts[q] /\ msglen'[q] = msglen[q] /\ size'[q] = size[q]
  /\ buffer'[q] = buffer[q] /\ block'[q] = block[q] /\ page'[q] = page[q]
  /\ code'[q] = code[q] /\ poster'[q] = poster[q] /\ saved'[q] = saved[q]

(* What a run asks of the server.                                           *)
SameAsked(q) == opts'[q] = opts[q] /\ msglen'[q] = msglen[q] /\ buffer'[q] = buffer[q]

StaysSettled(q) == Settled(q) => Settled(q)' /\ SameAsked(q)

Step(p) ==
  /\ settings' = settings /\ cmd' = cmd
  /\ \A q \in Run \ {p} : Same(q)
  /\ \A q \in Run : StaysSettled(q)

(* Every step of a run keeps the types, leaves the other runs alone and     *)
(* does not change what was asked of the server.                            *)
LEMMA ParseStep ==
  ASSUME TypeInv, NEW p \in Run, parse_args(p)
  PROVE  TypeInv' /\ Step(p)
<1>1. /\ pc[p] = "start"
      /\ UNCHANGED <<settings, store, disk, cmd, size, block, page, code, poster, saved>>
  BY Parsed
<1>2. PICK o, l : \E n \in Nat, b \in Seq(Byte) : ParsesTo(p, o, l, n, b) BY Parsed
<1>3. PICK n \in Nat, b \in Seq(Byte) : ParsesTo(p, o, l, n, b) BY <1>2
<1>4. /\ pc' = [pc EXCEPT ![p] = l] /\ opts' = [opts EXCEPT ![p] = o] /\ l \in Labels
      /\ msglen' = [msglen EXCEPT ![p] = n] /\ buffer' = [buffer EXCEPT ![p] = b]
  BY <1>3 DEF Labels, Ended, ParsesTo
<1>5. TypeInv'
  <2>1. pc' \in [Run -> Labels] BY <1>4 DEF TypeInv
  <2>2. opts' = [q \in Run |-> opts'[q]] BY <1>4 DEF TypeInv
  <2>3. msglen' \in [Run -> Nat] /\ buffer' \in [Run -> Seq(Byte)] BY <1>4 DEF TypeInv
  <2> QED BY <1>1, <2>1, <2>2, <2>3 DEF TypeInv, StoreType
<1>6. \A q \in Run \ {p} :
        /\ pc'[q] = pc[q] /\ opts'[q] = opts[q]
        /\ msglen'[q] = msglen[q] /\ buffer'[q] = buffer[q]
  BY <1>4 DEF TypeInv
<1>7. \A q \in Run \ {p} : Same(q) BY <1>1, <1>6 DEF Same
<1>8. \A q \in Run : StaysSettled(q)
  <2>1. StaysSettled(p) BY <1>1 DEF StaysSettled, Settled
  <2>2. \A q \in Run \ {p} : StaysSettled(q) BY <1>6 DEF StaysSettled, Settled, SameAsked
  <2> QED BY <2>1, <2>2
<1>9. Step(p) BY <1>1, <1>7, <1>8 DEF Step
<1> QED BY <1>5, <1>9

(* get_file: the second look at the size, and the reading of that many      *)
(* bytes.                                                                   *)
LEMMA FileStep ==
  ASSUME TypeInv, NEW p \in Run, SenderInv(p), StatFile(p) \/ ReadFile(p)
  PROVE  /\ TypeInv' /\ Step(p) /\ pc[p] \in {"stat", "read"}
         /\ pc'[p] = "encode" => Len(buffer'[p]) = size'[p] + 1
<1>1. pc[p] \in {"stat", "read"} /\ ArgOf(opts[p], "file") \in DOMAIN Contents
  BY DEF StatFile, ReadFile, SenderInv
<1> DEFINE f == ArgOf(opts[p], "file")
<1>2. disk[f] \in Seq(Byte) /\ file_size(f) \in Nat BY <1>1 DEF TypeInv, file_size
<1>3. CASE StatFile(p)
  <2>1. PICK n \in Nat, l \in {"failed", "read"} :
          /\ size' = [size EXCEPT ![p] = n] /\ pc' = [pc EXCEPT ![p] = l]
          /\ UNCHANGED <<settings, store, disk, cmd, opts, msglen, buffer, block, page, code, poster,
                         saved>>
    BY <1>2, <1>3 DEF StatFile, Goto
  <2>2. l \in Labels BY DEF Labels, Ended
  <2>3. TypeInv' BY <2>1, <2>2 DEF TypeInv, StoreType
  <2>4. Step(p) BY <1>1, <2>1 DEF TypeInv, Step, Same, SameAsked, StaysSettled, Settled
  <2> QED BY <1>1, <2>1, <2>3, <2>4 DEF TypeInv
<1>4. CASE ReadFile(p)
  <2>1. PICK b \in Seq(Byte), l \in {"failed", "encode"} :
          /\ buffer' = [buffer EXCEPT ![p] = b] /\ pc' = [pc EXCEPT ![p] = l]
          /\ l = "encode" => Len(b) = size[p] + 1
    <3>1. CASE file_size(f) < size[p]
      <4>1. pc' = [pc EXCEPT ![p] = "failed"] /\ buffer' = [buffer EXCEPT ![p] = buffer[p]]
        BY <1>4, <3>1 DEF ReadFile, Goto, TypeInv
      <4>2. buffer[p] \in Seq(Byte) BY DEF TypeInv
      <4> QED BY <4>1, <4>2
    <3>2. CASE ~(file_size(f) < size[p])
      <4> DEFINE s == SubSeq(disk[f], 1, size[p])
      <4>1. pc' = [pc EXCEPT ![p] = "encode"] /\ buffer' = [buffer EXCEPT ![p] = Append(s, 0)]
        BY <1>4, <3>2 DEF ReadFile, Goto
      <4>2. size[p] \in 0..Len(disk[f]) BY <1>2, <3>2 DEF file_size, TypeInv
      <4>3. s \in Seq(Byte) /\ Len(s) = size[p] BY <1>2, <4>2, Beginning
      <4> HIDE DEF s
      <4>4. Append(s, 0) \in Seq(Byte) /\ Len(Append(s, 0)) = size[p] + 1 BY <4>3, Zero
      <4> QED BY <4>1, <4>4
    <3> QED BY <3>1, <3>2
  <2>2. UNCHANGED <<settings, store, disk, cmd, opts, msglen, size, block, page, code, poster, saved>>
    BY <1>4 DEF ReadFile
  <2>3. l \in Labels BY DEF Labels, Ended
  <2>4. TypeInv' BY <2>1, <2>2, <2>3 DEF TypeInv, StoreType
  <2>5. Step(p) BY <1>1, <2>1, <2>2 DEF TypeInv, Step, Same, SameAsked, StaysSettled, Settled
  <2> QED BY <1>1, <2>1, <2>2, <2>4, <2>5 DEF TypeInv
<1> QED BY <1>3, <1>4

(* encode_msg_and_post, a body of curl's own, and create_url.               *)
LEMMA RequestStep ==
  ASSUME TypeInv, NEW p \in Run, SenderInv(p), encode_msg(p) \/ RawPost(p) \/ create_url(p)
  PROVE  /\ TypeInv' /\ Step(p)
         /\ UNCHANGED <<store, opts, msglen, size, buffer, page, code, poster, saved>>
<1>1. CASE encode_msg(p)
  <2>1. PICK b \in Seq(Digit), l \in {"overrun", "request"} :
          block' = [block EXCEPT ![p] = b] /\ pc' = [pc EXCEPT ![p] = l]
    <3>1. CASE msglen[p] > Len(buffer[p])
      <4>1. pc' = [pc EXCEPT ![p] = "overrun"] /\ block' = [block EXCEPT ![p] = block[p]]
        BY <1>1, <3>1 DEF encode_msg, Goto, TypeInv
      <4>2. block[p] \in Seq(Digit) BY DEF TypeInv
      <4> QED BY <4>1, <4>2
    <3>2. CASE ~(msglen[p] > Len(buffer[p]))
      <4> DEFINE b == Z85_encode_with_padding(Content(p))
      <4>1. pc' = [pc EXCEPT ![p] = "request"] /\ block' = [block EXCEPT ![p] = b]
        BY <1>1, <3>2 DEF encode_msg, Goto
      <4>2. msglen[p] \in Nat /\ Len(buffer[p]) \in Nat BY DEF TypeInv
      <4>3. pc[p] = "encode" BY <1>1 DEF encode_msg
      <4>4. Whole(p) BY <3>2, <4>2, <4>3 DEF SenderInv, Whole
      <4>5. b \in Seq(Digit) BY <4>4, ContentIs, Blocks
      <4> QED BY <4>1, <4>5
    <3> QED BY <3>1, <3>2
  <2>2. /\ pc[p] = "encode"
        /\ UNCHANGED <<settings, store, disk, cmd, opts, msglen, size, buffer, page, code, poster, saved>>
    BY <1>1 DEF encode_msg
  <2>3. l \in Labels BY DEF Labels, Ended
  <2>4. TypeInv' BY <2>1, <2>2, <2>3 DEF TypeInv, StoreType
  <2>5. Step(p) BY <2>1, <2>2 DEF TypeInv, Step, Same, SameAsked, StaysSettled, Settled
  <2> QED BY <2>2, <2>4, <2>5
<1>2. CASE RawPost(p)
  <2> DEFINE b == cmd[p].argv[2].text
  <2>1. /\ pc[p] = "start" /\ cmd[p].prog = "curl"
        /\ block' = [block EXCEPT ![p] = b] /\ pc' = [pc EXCEPT ![p] = "request"]
        /\ UNCHANGED <<settings, store, disk, cmd, opts, msglen, size, buffer, page, code, poster, saved>>
    BY <1>2 DEF RawPost, Goto
  <2>2. "curl" \notin DOMAIN Table BY DEF Table
  <2>3. CanRun(cmd[p]) BY ScenarioAssumption DEF TypeInv
  <2>4. b \in Seq(Digit) BY <2>1, <2>2, <2>3 DEF CanRun
  <2> HIDE DEF b
  <2>5. "request" \in Labels BY DEF Labels
  <2>6. TypeInv' BY <2>1, <2>4, <2>5 DEF TypeInv, StoreType
  <2>7. Step(p) BY <2>1 DEF TypeInv, Step, Same, SameAsked, StaysSettled, Settled
  <2> QED BY <2>1, <2>6, <2>7
<1>3. CASE create_url(p)
  <2>1. PICK l \in {"sent", "failed"} : pc' = [pc EXCEPT ![p] = l]
    BY <1>3 DEF create_url, Goto
  <2>2. /\ pc[p] = "request"
        /\ UNCHANGED <<settings, store, disk, cmd, opts, msglen, size, buffer, block, page, code,
                       poster, saved>>
    BY <1>3 DEF create_url
  <2>3. l \in Labels BY DEF Labels, Ended
  <2>4. TypeInv' BY <2>1, <2>2, <2>3 DEF TypeInv, StoreType
  <2>5. Step(p) BY <2>1, <2>2 DEF TypeInv, Step, Same, SameAsked, StaysSettled, Settled
  <2> QED BY <2>2, <2>4, <2>5
<1> QED BY <1>1, <1>2, <1>3

(* The answer comes in, or the connection breaks.                           *)
LEMMA AnswerStep ==
  ASSUME TypeInv, NEW p \in Run, ReaderInv(p),
         save_response(p) \/ PerformFails(p) \/ Answered(p) \/ handle_page(p)
  PROVE  /\ TypeInv' /\ Step(p)
         /\ UNCHANGED <<store, opts, msglen, size, buffer, block, code, poster>>
<1>1. CASE save_response(p)
  <2> DEFINE n == Least(Len(block[p]), Len(page[p]) + PieceSize)
             b == SubSeq(block[p], 1, n)
  <2>1. /\ pc[p] = "answer" /\ page' = [page EXCEPT ![p] = b]
        /\ UNCHANGED <<settings, store, disk, pc, cmd, opts, msglen, size, buffer, block, code,
                       poster, saved>>
    BY <1>1 DEF save_response
  <2>2. block[p] \in Seq(Digit) /\ page[p] \in Seq(Digit) BY DEF TypeInv
  <2>3. n \in 0..Len(block[p]) BY <2>2, ClientAssumption DEF Least
  <2> HIDE DEF n
  <2>4. b \in Seq(Digit) BY <2>2, <2>3, Beginning
  <2> HIDE DEF b
  <2>5. TypeInv' BY <2>1, <2>4 DEF TypeInv, StoreType
  <2>6. Step(p) BY <2>1 DEF TypeInv, Step, Same, SameAsked, StaysSettled, Settled
  <2> QED BY <2>1, <2>5, <2>6
<1>2. CASE PerformFails(p)
  <2>1. /\ pc[p] \in {"sent", "answer"}
        /\ page' = [page EXCEPT ![p] = <<>>] /\ pc' = [pc EXCEPT ![p] = "failed"]
        /\ UNCHANGED <<settings, store, disk, cmd, opts, msglen, size, buffer, block, code, poster,
                       saved>>
    BY <1>2 DEF PerformFails, Goto
  <2>2. "failed" \in Labels /\ <<>> \in Seq(Digit) BY DEF Labels, Ended
  <2>3. TypeInv' BY <2>1, <2>2 DEF TypeInv, StoreType
  <2>4. Step(p) BY <2>1 DEF TypeInv, Step, Same, SameAsked, StaysSettled, Settled
  <2> QED BY <2>1, <2>3, <2>4
<1>3. CASE Answered(p)
  <2>1. PICK l \in {"failed", "page", "done"} : pc' = [pc EXCEPT ![p] = l]
    BY <1>3 DEF Answered, Goto
  <2>2. /\ pc[p] = "answer"
        /\ UNCHANGED <<settings, store, disk, cmd, opts, msglen, size, buffer, block, page, code,
                       poster, saved>>
    BY <1>3 DEF Answered
  <2>3. l \in Labels BY DEF Labels, Ended
  <2>4. TypeInv' BY <2>1, <2>2, <2>3 DEF TypeInv, StoreType
  <2>5. Step(p) BY <2>1, <2>2 DEF TypeInv, Step, Same, SameAsked, StaysSettled, Settled
  <2> QED BY <2>2, <2>4, <2>5
<1>4. CASE handle_page(p)
  <2>1. /\ pc[p] = "page"
        /\ UNCHANGED <<settings, store, disk, cmd, opts, msglen, size, buffer, block, page, code,
                       poster>>
    BY <1>4, Handled
  <2>2. PICK l \in {"done", "aborted"}, v \in Seq(Byte) : HandlesTo(p, l, v) BY <1>4, Handled
  <2>3. l \in Labels BY DEF Labels, Ended
  <2>4. TypeInv' BY <2>1, <2>2, <2>3 DEF TypeInv, StoreType, HandlesTo
  <2>5. Step(p) BY <2>1, <2>2 DEF HandlesTo, TypeInv, Step, Same, SameAsked, StaysSettled, Settled
  <2> QED BY <2>1, <2>4, <2>5
<1> QED BY <1>1, <1>2, <1>3, <1>4

(* What the server does to a run: it answers, or it hangs up.               *)
AnswersWith(p, l, n, b, q) ==
  /\ pc' = [pc EXCEPT ![p] = l] /\ code' = [code EXCEPT ![p] = n]
  /\ block' = [block EXCEPT ![p] = b] /\ poster' = [poster EXCEPT ![p] = q]

(* The server answers with a block that it has taken, or with none.         *)
LEMMA ServerStep ==
  ASSUME TypeInv, NEW p \in Run, Server(p)
  PROVE  /\ TypeInv' /\ Step(p) /\ pc[p] = "sent"
         /\ UNCHANGED <<opts, msglen, size, buffer, page, saved>>
<1> DEFINE t == Token(p)
           Ends == {"failed", "answer"}
           Codes == {0, 200, 304, 400, 404}
           Answers == \E l \in Ends, n \in Codes, b \in Seq(Digit), q \in Run :
                        AnswersWith(p, l, n, b, q)
<1>1. pc[p] = "sent" /\ UNCHANGED <<settings, disk, cmd, opts, msglen, size, buffer, page, saved>>
  BY DEF Server, ServePost, ServeGet, ServeConfig
<1>2. block[p] \in Seq(Digit) /\ StoreType BY DEF TypeInv
<1> HIDE DEF t
<1>3. StoreType' /\ Answers
  <2>1. CASE ServePost(p)
    <3>1. CASE Len(block[p]) > MaxPost
      <4>1. pc' = [pc EXCEPT ![p] = "failed"] /\ UNCHANGED <<store, code, block, poster>>
        BY <2>1, <3>1 DEF ServePost, Goto, t
      <4>2. /\ code' = [code EXCEPT ![p] = code[p]] /\ block' = [block EXCEPT ![p] = block[p]]
            /\ poster' = [poster EXCEPT ![p] = poster[p]]
            /\ code[p] \in {0, 200, 304, 400, 404} /\ poster[p] \in Run
        BY <4>1 DEF TypeInv
      <4>3. AnswersWith(p, "failed", code[p], block[p], poster[p]) BY <4>1, <4>2 DEF AnswersWith
      <4>4. StoreType' BY <1>2, <4>1 DEF StoreType
      <4> QED BY <1>2, <4>2, <4>3, <4>4
    <3>2. CASE Len(block[p]) <= MaxPost /\ UNCHANGED store
      <4>1. PICK n \in {200, 304, 400} : Answer(p, n, block[p], p)
        BY <1>2, <2>1, <3>2, ClientAssumption DEF ServePost, t
      <4>2. AnswersWith(p, "answer", n, block[p], p) BY <4>1 DEF AnswersWith, Answer, Goto
      <4>3. StoreType' BY <1>2, <3>2 DEF StoreType
      <4> QED BY <1>2, <4>2, <4>3
    <3>3. CASE Len(block[p]) <= MaxPost /\ store' # store
      <4>1. /\ Answer(p, 200, block[p], p) /\ ~Refused(t, block[p])
            /\ store' = [e \in DOMAIN store \cup {t} |->
                           IF e = t THEN [block |-> block[p], by |-> p] ELSE store[e]]
        BY <1>2, <2>1, <3>3, ClientAssumption DEF ServePost, t
      <4>2. Len(block[p]) \in MinPost..MaxPost
        BY <1>2, <3>3, <4>1, ClientAssumption DEF Refused
      <4>3. StoreType' BY <1>2, <4>1, <4>2 DEF StoreType
      <4>4. AnswersWith(p, "answer", 200, block[p], p) BY <4>1 DEF AnswersWith, Answer, Goto
      <4> QED BY <1>2, <4>3, <4>4
    <3>4. Len(block[p]) \in Nat BY <1>2
    <3> QED BY <3>1, <3>2, <3>3, <3>4, ClientAssumption
  <2>2. CASE ServeGet(p)
    <3>1. CASE Stored(t)
      <4>1. /\ Answer(p, 200, store[t].block, store[t].by)
            /\ store' = [e \in DOMAIN store \ (IF settings.bar THEN {t} ELSE {}) |-> store[e]]
        BY <2>2, <3>1 DEF ServeGet, t
      <4>2. t \in DOMAIN store BY <3>1 DEF Stored
      <4>3. store[t].block \in Seq(Digit) /\ store[t].by \in Run BY <1>2, <4>2 DEF StoreType
      <4>4. StoreType' BY <1>2, <4>1 DEF StoreType
      <4>5. AnswersWith(p, "answer", 200, store[t].block, store[t].by)
        BY <4>1 DEF AnswersWith, Answer, Goto
      <4> QED BY <4>3, <4>4, <4>5
    <3>2. CASE ~Stored(t)
      <4>1. Answer(p, 404, <<>>, p) /\ UNCHANGED store BY <2>2, <3>2 DEF ServeGet, t
      <4>2. PICK b \in Seq(Digit) : b = <<>> BY EmptySeq
      <4>3. AnswersWith(p, "answer", 404, b, p) BY <4>1, <4>2 DEF AnswersWith, Answer, Goto
      <4>4. StoreType' BY <1>2, <4>1 DEF StoreType
      <4> QED BY <4>3, <4>4
    <3> QED BY <3>1, <3>2
  <2>3. CASE ServeConfig(p)
    <3>1. Answer(p, 200, <<>>, p) /\ UNCHANGED store BY <2>3 DEF ServeConfig
    <3>2. PICK b \in Seq(Digit) : b = <<>> BY EmptySeq
    <3>3. AnswersWith(p, "answer", 200, b, p) BY <3>1, <3>2 DEF AnswersWith, Answer, Goto
    <3>4. StoreType' BY <1>2, <3>1 DEF StoreType
    <3> QED BY <3>3, <3>4
  <2> QED BY <2>1, <2>2, <2>3 DEF Server
<1>4. PICK l \in Ends, n \in Codes, b \in Seq(Digit), q \in Run : AnswersWith(p, l, n, b, q)
  BY <1>3
<1>5. l \in Labels BY DEF Labels, Ended
<1>6. StoreType' BY <1>3
<1>7. TypeInv'
  <2>1. l \in Labels /\ StoreType' BY <1>5, <1>6
  <2> QED BY <1>1, <1>4, <2>1 DEF TypeInv, AnswersWith
<1>8. Step(p) BY <1>1, <1>4 DEF AnswersWith, TypeInv, Step, Same, SameAsked, StaysSettled, Settled
<1> QED BY <1>1, <1>7, <1>8

(* Somebody writes a file.                                                  *)
LEMMA EditStep ==
  ASSUME TypeInv, NEW f \in DOMAIN Contents, Edit(f)
  PROVE  TypeInv' /\ UNCHANGED <<settings, store, runVars>>
<1>1. PICK i \in DOMAIN Contents[f] : disk' = [disk EXCEPT ![f] = Contents[f][i]] BY DEF Edit
<1>2. UNCHANGED <<settings, store, runVars>> BY DEF Edit
<1>3. Contents[f][i] \in Seq(Byte) BY <1>1, ClientAssumption
<1>4. TypeInv' BY <1>1, <1>2, <1>3 DEF TypeInv, StoreType, runVars
<1> QED BY <1>2, <1>4

-----------------------------------------------------------------------------
(* What a step leaves as it is.                                             *)

(* A run's message, content and token are what they were once it has asked. *)
LEMMA Asked ==
  ASSUME NEW q \in Run, cmd' = cmd, StaysSettled(q), Settled(q)
  PROVE  /\ Settled(q)' /\ Message(q)' = Message(q) /\ Content(q)' = Content(q)
         /\ Token(q)' = Token(q) /\ (Whole(q) => Whole(q)')
<1>1. Settled(q)' /\ SameAsked(q) BY DEF StaysSettled
<1>2. Message(q)' = Message(q) /\ (Whole(q) => Whole(q)') BY <1>1 DEF SameAsked, Message, Whole
<1>3. Content(q)' = Content(q) BY <1>1, <1>2 DEF SameAsked, Content
<1>4. Token(q)' = Token(q) BY <1>1, <1>2 DEF SameAsked, Token
<1> QED BY <1>1, <1>2, <1>3, <1>4

(* What is in the store was made by whoever posted it.                      *)
LEMMA StoreStays ==
  ASSUME TypeInv, StoreInv, cmd' = cmd, \A q \in Run : StaysSettled(q), store' = store
  PROVE  StoreInv'
<1> SUFFICES ASSUME NEW t \in DOMAIN store
             PROVE  MadeBy(store[t].block, store[t].by)'
  BY DEF StoreInv
<1> DEFINE q == store[t].by
           b == store[t].block
<1>1. q \in Run /\ q' = q /\ b' = b BY DEF TypeInv, StoreType
<1>2. MadeBy(b, q) BY DEF StoreInv
<1> HIDE DEF q, b
<1>3. MadeBy(b, q)'
  <2> SUFFICES ASSUME cmd[q].prog = "ws_post"
               PROVE  Settled(q)' /\ Whole(q)' /\ b = Z85_encode_with_padding(Content(q)')
    BY <1>1 DEF MadeBy
  <2> QED BY <1>1, <1>2, Asked DEF MadeBy
<1> QED BY <1>3 DEF q, b

(* An answer that ws_get holds stays the block that its poster made.        *)
LEMMA PosterStays ==
  ASSUME TypeInv, cmd' = cmd, \A r \in Run : StaysSettled(r), NEW g \in Run,
         block'[g] = block[g], poster'[g] = poster[g], MadeBy(block[g], poster[g])
  PROVE  MadeBy(block[g], poster[g])'
<1>1. PICK q \in Run : q = poster[g] BY DEF TypeInv
<1>2. PICK b : b = block[g] OBVIOUS
<1>3. MadeBy(b, q) BY <1>1, <1>2
<1>4. cmd[q].prog = "ws_post" => Settled(q)' /\ Whole(q)' /\ b = Z85_encode_with_padding(Content(q)')
  BY <1>3, Asked DEF MadeBy
<1>5. poster'[g] = q /\ block'[g] = b BY <1>1, <1>2
<1> QED BY <1>4, <1>5 DEF MadeBy

(* What ws_get has written stays right.                                     *)
LEMMA RenderedStays ==
  ASSUME TypeInv, cmd' = cmd, \A r \in Run : StaysSettled(r), NEW g \in Run, Same(g),
         ReaderInv(g), GetInv(g), GotPosted(g)
  PROVE  Rendered(g)'
<1>1. PICK q \in Run : q = poster[g] BY DEF TypeInv
<1>2. Settled(q)
  <2>1. code[g] = 200 /\ cmd[g].prog = "ws_get" /\ pc[g] \in {"done", "aborted"}
    BY DEF ReaderInv, GotPosted
  <2>2. MadeBy(block[g], q) /\ cmd[q].prog = "ws_post" BY <1>1, <2>1 DEF GetInv, GotPosted
  <2> QED BY <2>2 DEF MadeBy
<1>3. Message(q)' = Message(q) /\ Content(q)' = Content(q) BY <1>2, Asked
<1>4. poster'[g] = q /\ pc'[g] = pc[g] /\ saved'[g] = saved[g] /\ opts'[g] = opts[g]
  BY <1>1 DEF Same
<1>5. PICK m : m = Message(q) OBVIOUS
<1>6. Written(g, m)' = Written(g, m) BY <1>4 DEF Written
<1>7. Rendered(g) BY DEF GetInv
<1>8. /\ pc[g] = "done"
      /\ \/ saved[g] = Written(g, m)
         \/ Content(q) = m /\ Len(m) > 6 /\ SubSeq(m, 1, 2) = ZlibHeader
         \/ Content(q) # m /\ Len(m) > RestoreFactor * Len(Content(q)) /\ saved[g] = <<>>
  BY <1>1, <1>5, <1>7 DEF Rendered
<1>9. Message(q)' = m BY <1>3, <1>5
<1>10. /\ pc'[g] = "done"
       /\ \/ saved'[g] = Written(g, m)'
          \/ Content(q)' = m /\ Len(m) > 6 /\ SubSeq(m, 1, 2) = ZlibHeader
          \/ Content(q)' # m /\ Len(m) > RestoreFactor * Len(Content(q)') /\ saved'[g] = <<>>
  BY <1>3, <1>4, <1>6, <1>8
<1> QED BY <1>4, <1>9, <1>10 DEF Rendered

(* The other runs' invariants hold as before.                               *)
LEMMA Others ==
  ASSUME IInv, cmd' = cmd, settings' = settings, \A r \in Run : StaysSettled(r),
         NEW q \in Run, Same(q)
  PROVE  SenderInv(q)' /\ ReaderInv(q)' /\ GetInv(q)' /\ (store' = store => KeptInv(q)')
<1>1. TypeInv /\ SenderInv(q) /\ ReaderInv(q) /\ GetInv(q) /\ KeptInv(q) BY DEF IInv
<1>2. SameAsked(q) BY DEF Same, SameAsked
<1>3. ReaderInv(q)' BY <1>1 DEF ReaderInv, Same
<1>4. SenderInv(q)'
  <2>1. CASE pc[q] \in {"request", "sent", "answer"}
    <3>1. Settled(q) BY <2>1 DEF Settled
    <3>2. Content(q)' = Content(q) /\ (Whole(q) => Whole(q)') BY <3>1, Asked
    <3> QED BY <1>1, <2>1, <3>2 DEF SenderInv, Same
  <2>2. CASE pc[q] \notin {"request", "sent", "answer"} BY <1>1, <2>2 DEF SenderInv, Same
  <2> QED BY <2>1, <2>2
<1>5. GetInv(q)'
  <2>1. /\ cmd[q].prog = "ws_get" /\ pc[q] \in {"answer", "page", "done", "aborted"} /\ code[q] = 200
           => MadeBy(block[q], poster[q])'
    BY <1>1, PosterStays DEF GetInv, Same
  <2>2. GotPosted(q) => Rendered(q)' BY <1>1, RenderedStays
  <2>3. GotPosted(q)' = GotPosted(q) BY DEF GotPosted, Same
  <2> QED BY <2>1, <2>2, <2>3 DEF GetInv, Same
<1>6. ASSUME store' = store PROVE KeptInv(q)'
  <2> SUFFICES ASSUME Accepted(q)' PROVE KeptInv(q)' BY DEF KeptInv
  <2>1. Accepted(q) BY DEF Accepted, Same
  <2>2. Settled(q) BY <2>1 DEF Accepted, Settled
  <2>3. Token(q)' = Token(q) BY <2>2, Asked
  <2>4. PICK t : t = Token(q) OBVIOUS
  <2>5. /\ Len(block[q]) <= MaxPost
        /\ settings.immutable /\ ~settings.bar => Stored(t) /\ store[t].by = q
    BY <1>1, <2>1, <2>4 DEF KeptInv
  <2>6. Token(q)' = t BY <2>3, <2>4
  <2> QED BY <1>6, <2>5, <2>6 DEF KeptInv, Stored, Same
<1> QED BY <1>3, <1>4, <1>5, <1>6

-----------------------------------------------------------------------------
(* What a step makes of the invariants of its own run.                      *)

OwnInv(p) == SenderInv(p) /\ ReaderInv(p) /\ GetInv(p) /\ KeptInv(p)

(* Until there is an answer nothing has come, and nothing is accepted.      *)
LEMMA Before ==
  ASSUME NEW p \in Run, ReaderInv(p), ReaderInv(p)',
         pc'[p] \in {"stat", "read", "encode", "request", "sent", "overrun", "failed"}
  PROVE  GetInv(p)' /\ KeptInv(p)'
<1>1. GetInv(p)' BY DEF GetInv, GotPosted
<1>2. ~Accepted(p)' BY DEF Accepted
<1> QED BY <1>1, <1>2 DEF KeptInv

(* A run that has not got as far as an answer has nothing that a later      *)
(* label would have to explain.                                             *)
LEMMA NothingYet ==
  ASSUME NEW p \in Run, ReaderInv(p), cmd' = cmd,
         pc[p] \in {"start", "stat", "read", "encode", "request", "sent"},
         pc'[p] # "answer",  pc'[p] # "page", pc'[p] # "aborted",
         page'[p] = page[p], saved'[p] = saved[p], code'[p] = code[p]
  PROVE  ReaderInv(p)'
<1>1. page[p] = <<>> /\ code[p] = 0 BY DEF ReaderInv
<1>2. saved[p] = <<>> BY <1>1 DEF ReaderInv
<1>3. page'[p] = <<>> /\ code'[p] = 0 /\ saved'[p] = <<>> /\ cmd' = cmd BY <1>1, <1>2
<1> QED BY <1>3 DEF ReaderInv

(* parse_args leaves a run without an answer, and with the message that it  *)
(* announces (g_msglen).                                                    *)
LEMMA ParseOwn ==
  ASSUME IInv, NEW p \in Run, parse_args(p)
  PROVE  OwnInv(p)' /\ store' = store
<1>1. TypeInv /\ SenderInv(p) /\ ReaderInv(p) BY DEF IInv
<1>2. PICK o, l : \E n \in Nat, b \in Seq(Byte) : ParsesTo(p, o, l, n, b) BY <1>1, Parsed
<1>3. PICK n \in Nat, b \in Seq(Byte) : ParsesTo(p, o, l, n, b) BY <1>2
<1>4. /\ pc[p] = "start"
      /\ UNCHANGED <<settings, store, disk, cmd, size, block, page, code, poster, saved>>
  BY <1>1, Parsed
<1>5. pc'[p] = l /\ opts'[p] = o /\ msglen'[p] = n /\ buffer'[p] = b
  BY <1>1, <1>3 DEF ParsesTo, TypeInv
<1>6. /\ l \in {"done", "failed", "request", "stat", "encode"}
      /\ l = "done" => IsUsage(o)
      /\ l = "request" => cmd[p].prog # "ws_post"
      /\ l = "stat" => /\ cmd[p].prog = "ws_post" /\ n >= 1
                       /\ IsSet(o, "file") /\ ArgOf(o, "file") \in DOMAIN Contents
      /\ l = "encode" => /\ cmd[p].prog = "ws_post" /\ n >= 1
                         /\ ~IsSet(o, "file") /\ Len(b) = n + 1
  BY <1>3 DEF ParsesTo
<1>7. SenderInv(p)' BY <1>4, <1>5, <1>6 DEF SenderInv
<1>8. ReaderInv(p)'
  <2>1. pc'[p] # "answer" /\ pc'[p] # "page" /\ pc'[p] # "aborted" BY <1>5, <1>6
  <2> QED BY <1>1, <1>4, <2>1, NothingYet
<1>9. GetInv(p)'
  <2>1. code[p] = 0 /\ page[p] = <<>> BY <1>1, <1>4 DEF ReaderInv
  <2>2. code'[p] = 0 /\ page'[p] = <<>> BY <1>4, <2>1
  <2> QED BY <2>2 DEF GetInv, GotPosted
<1>10. ~Accepted(p)'
  <2>1. code[p] = 0 BY <1>1, <1>4 DEF ReaderInv
  <2> QED BY <1>4, <1>5, <1>6, <2>1 DEF Accepted
<1> QED BY <1>4, <1>7, <1>8, <1>9, <1>10 DEF OwnInv, KeptInv

(* get_file leaves as many bytes as it has found, and a NUL.                *)
LEMMA FileOwn ==
  ASSUME IInv, NEW p \in Run, StatFile(p) \/ ReadFile(p)
  PROVE  OwnInv(p)' /\ store' = store
<1>1. TypeInv /\ SenderInv(p) /\ ReaderInv(p) BY DEF IInv
<1>2. /\ UNCHANGED <<settings, store, disk, cmd, opts, msglen, block, page, code, poster, saved>>
      /\ pc[p] \in {"stat", "read"} /\ pc'[p] \in {"read", "encode", "failed"}
  BY <1>1 DEF StatFile, ReadFile, Goto, TypeInv
<1>3. pc'[p] = "encode" => Len(buffer'[p]) = size'[p] + 1 BY <1>1, FileStep
<1>0. TypeInv' BY <1>1, FileStep
<1>4. size'[p] \in Nat /\ TypeInv' BY <1>0 DEF TypeInv
<1>5. SenderInv(p)' BY <1>1, <1>2, <1>3, <1>4 DEF SenderInv
<1>6. ReaderInv(p)' BY <1>1, <1>2, NothingYet
<1>7. GetInv(p)' /\ KeptInv(p)' BY <1>1, <1>2, <1>6, Before
<1> QED BY <1>2, <1>5, <1>6, <1>7 DEF OwnInv

(* What is posted is the block of what was read (encode_msg_and_post).      *)
LEMMA RequestOwn ==
  ASSUME IInv, NEW p \in Run, encode_msg(p) \/ RawPost(p) \/ create_url(p)
  PROVE  OwnInv(p)' /\ store' = store
<1>1. TypeInv /\ SenderInv(p) /\ ReaderInv(p) BY DEF IInv
<1>2. /\ UNCHANGED <<settings, store, disk, cmd, opts, msglen, size, buffer, page, code, poster, saved>>
      /\ pc[p] \in {"start", "encode", "request"} /\ pc'[p] \in {"overrun", "request", "sent", "failed"}
  BY <1>1 DEF encode_msg, RawPost, create_url, Goto, TypeInv
<1>3. Content(p)' = Content(p) /\ (Whole(p) => Whole(p)')
  BY <1>2 DEF Content, Message, Whole
<1>4. msglen[p] \in Nat /\ Len(buffer[p]) \in Nat /\ msglen'[p] = msglen[p] /\ buffer'[p] = buffer[p]
  BY <1>1, <1>2 DEF TypeInv
<1>5. SenderInv(p)'
  <2>1. CASE encode_msg(p)
    <3>1. CASE msglen[p] > Len(buffer[p])
      <4>1. pc[p] = "encode" /\ pc'[p] = "overrun" BY <1>1, <2>1, <3>1 DEF encode_msg, Goto, TypeInv
      <4> QED BY <1>1, <1>2, <1>4, <3>1, <4>1 DEF SenderInv
    <3>2. CASE ~(msglen[p] > Len(buffer[p]))
      <4>1. /\ pc[p] = "encode" /\ pc'[p] = "request"
            /\ block'[p] = Z85_encode_with_padding(Content(p))
        BY <1>1, <2>1, <3>2 DEF encode_msg, Goto, TypeInv
      <4>2. Whole(p) BY <1>1, <1>4, <3>2, <4>1 DEF SenderInv, Whole
      <4> QED BY <1>2, <1>3, <4>1, <4>2 DEF SenderInv
    <3> QED BY <3>1, <3>2
  <2>2. CASE RawPost(p)
    <3>1. cmd[p].prog = "curl" /\ pc'[p] = "request" BY <1>1, <2>2 DEF RawPost, Goto, TypeInv
    <3> QED BY <1>2, <3>1 DEF SenderInv
  <2>3. CASE create_url(p)
    <3>1. pc[p] = "request" /\ pc'[p] \in {"sent", "failed"} /\ block'[p] = block[p]
      BY <1>1, <2>3 DEF create_url, Goto, TypeInv
    <3> QED BY <1>1, <1>2, <1>3, <3>1 DEF SenderInv
  <2> QED BY <2>1, <2>2, <2>3
<1>6. ReaderInv(p)' BY <1>1, <1>2, NothingYet
<1>7. GetInv(p)' /\ KeptInv(p)' BY <1>1, <1>2, <1>6, Before
<1> QED BY <1>2, <1>5, <1>6, <1>7 DEF OwnInv

(* What stays in the store was made by whoever posted it.                   *)
LEMMA EntryStays ==
  ASSUME TypeInv, StoreInv, cmd' = cmd, \A q \in Run : StaysSettled(q),
         NEW t \in DOMAIN store, t \in DOMAIN store', store'[t] = store[t]
  PROVE  MadeBy(store[t].block, store[t].by)'
<1>1. PICK q \in Run : q = store[t].by BY DEF TypeInv, StoreType
<1>2. PICK b : b = store[t].block OBVIOUS
<1>3. MadeBy(b, q) BY <1>1, <1>2 DEF StoreInv
<1>4. cmd[q].prog = "ws_post" => Settled(q)' /\ Whole(q)' /\ b = Z85_encode_with_padding(Content(q)')
  BY <1>3, Asked DEF MadeBy
<1>5. store'[t].by = q /\ store'[t].block = b BY <1>1, <1>2
<1> QED BY <1>4, <1>5 DEF MadeBy

(* The server takes, refuses or cuts off a body.  It overwrites no message  *)
(* that may not change, and what it stores is what was sent.                *)
LEMMA PostOwn ==
  ASSUME IInv, NEW p \in Run, ServePost(p)
  PROVE  OwnInv(p)' /\ StoreInv' /\ \A q \in Run \ {p} : KeptInv(q)'
<1>1. TypeInv /\ StoreInv /\ SenderInv(p) /\ ReaderInv(p) BY DEF IInv
<1>2. Step(p) BY <1>1, ServerStep DEF Server
<1>3. cmd' = cmd /\ settings' = settings /\ \A q \in Run : StaysSettled(q) BY <1>2 DEF Step
<1>4. /\ pc[p] = "sent" /\ cmd[p].prog # "ws_get"
      /\ UNCHANGED <<opts, msglen, size, buffer, page, saved>>
  BY DEF ServePost
<1>5. Settled(p) BY <1>4 DEF Settled
<1>6. /\ Content(p)' = Content(p) /\ Token(p)' = Token(p) /\ Settled(p)' /\ (Whole(p) => Whole(p)')
  BY <1>3, <1>5, Asked
<1>7. PICK t : t = Token(p) OBVIOUS
<1>8. Len(block[p]) \in Nat /\ MaxPost \in Nat BY <1>1, ClientAssumption DEF TypeInv
<1>9. /\ block'[p] = block[p]
      /\ \/ pc'[p] = "failed" /\ code'[p] = 0 /\ store' = store
         \/ pc'[p] = "answer" /\ code'[p] \in {304, 400} /\ store' = store
         \/ /\ pc'[p] = "answer" /\ code'[p] = 200 /\ Len(block[p]) <= MaxPost
            /\ ~(settings.immutable /\ Stored(t))
            /\ store' = [e \in DOMAIN store \cup {t} |->
                           IF e = t THEN [block |-> block[p], by |-> p] ELSE store[e]]
  <2>1. CASE Len(block[p]) > MaxPost
    <3>1. pc' = [pc EXCEPT ![p] = "failed"] /\ UNCHANGED <<store, code, block, poster>>
      BY <2>1 DEF ServePost, Goto
    <3>2. code[p] = 0 BY <1>1, <1>4 DEF ReaderInv
    <3> QED BY <1>1, <3>1, <3>2 DEF TypeInv
  <2>2. CASE ~(Len(block[p]) > MaxPost) /\ Refused(t, block[p])
    <3>1. Answer(p, 400, block[p], p) /\ UNCHANGED store BY <1>7, <2>2 DEF ServePost
    <3> QED BY <1>1, <3>1 DEF TypeInv, Answer, Goto
  <2>3. CASE ~(Len(block[p]) > MaxPost) /\ ~Refused(t, block[p]) /\ settings.immutable /\ Stored(t)
    <3>1. Answer(p, 304, block[p], p) /\ UNCHANGED store BY <1>7, <2>3 DEF ServePost
    <3> QED BY <1>1, <3>1 DEF TypeInv, Answer, Goto
  <2>4. CASE ~(Len(block[p]) > MaxPost) /\ ~Refused(t, block[p]) /\ ~(settings.immutable /\ Stored(t))
    <3>1. /\ Answer(p, 200, block[p], p)
          /\ store' = [e \in DOMAIN store \cup {t} |->
                         IF e = t THEN [block |-> block[p], by |-> p] ELSE store[e]]
      BY <1>7, <2>4 DEF ServePost
    <3>2. pc'[p] = "answer" /\ code'[p] = 200 /\ block'[p] = block[p]
      BY <1>1, <3>1 DEF TypeInv, Answer, Goto
    <3> QED BY <1>8, <2>4, <3>1, <3>2
  <2> QED BY <2>1, <2>2, <2>3, <2>4
<1>10. SenderInv(p)' BY <1>1, <1>3, <1>4, <1>6, <1>9 DEF SenderInv
<1>11. ReaderInv(p)'
  <2>1. page[p] = <<>> /\ cmd[p].prog # "ws_get" BY <1>1, <1>4 DEF ReaderInv
  <2>2. saved[p] = <<>> BY <1>1, <2>1 DEF ReaderInv
  <2>3. /\ page'[p] = <<>> /\ saved'[p] = <<>> /\ cmd'[p].prog # "ws_get"
        /\ pc'[p] \in {"failed", "answer"}
    BY <1>3, <1>4, <1>9, <2>1, <2>2
  <2>4. SubSeq(block'[p], 1, 0) = <<>>
    <3>1. block'[p] \in Seq(Digit) BY <1>1, <1>9 DEF TypeInv
    <3> QED BY <3>1, SubSeqEmpty
  <2>5. Len(page'[p]) = 0 BY <2>3
  <2> QED BY <2>3, <2>4, <2>5 DEF ReaderInv
<1>12. GetInv(p)' BY <1>3, <1>4 DEF GetInv, GotPosted
<1>13. KeptInv(p)'
  <2>1. CASE pc'[p] = "answer" /\ code'[p] = 200
    <3>1. /\ Len(block[p]) <= MaxPost /\ t \in DOMAIN store' /\ store'[t].by = p BY <1>9, <2>1
    <3>2. Token(p)' = t BY <1>6, <1>7
    <3> QED BY <1>9, <3>1, <3>2 DEF KeptInv, Stored
  <2>2. CASE ~(pc'[p] = "answer" /\ code'[p] = 200)
    <3>1. ~Accepted(p)' BY <1>9, <2>2 DEF Accepted
    <3> QED BY <3>1 DEF KeptInv
  <2> QED BY <2>1, <2>2
<1>14. StoreInv'
  <2>1. CASE store' = store BY <1>1, <1>3, <2>1, StoreStays
  <2>2. CASE store' # store
    <3> SUFFICES ASSUME NEW e \in DOMAIN store'
                 PROVE  MadeBy(store[e].block, store[e].by)'
      BY DEF StoreInv
    <3>1. CASE e = t
      <4>1. store'[e].block = block[p] /\ store'[e].by = p BY <1>9, <2>2, <3>1
      <4>2. cmd[p].prog = "ws_post" => Whole(p) /\ block[p] = Z85_encode_with_padding(Content(p))
        BY <1>1, <1>4 DEF SenderInv
      <4> QED BY <1>3, <1>6, <4>1, <4>2 DEF MadeBy
    <3>2. CASE e # t
      <4>1. e \in DOMAIN store /\ store'[e] = store[e] BY <1>9, <2>2, <3>2
      <4> QED BY <1>1, <1>3, <4>1, EntryStays
    <3> QED BY <3>1, <3>2
  <2> QED BY <2>1, <2>2
<1>15. ASSUME NEW q \in Run \ {p} PROVE KeptInv(q)'
  <2>1. Same(q) /\ KeptInv(q) BY <1>2 DEF Step, IInv
  <2>2. CASE store' = store BY <1>3, <2>1, <2>2, Others
  <2>3. CASE store' # store
    <3> SUFFICES ASSUME Accepted(q)' PROVE KeptInv(q)' BY DEF KeptInv
    <3>1. Accepted(q) BY <1>3, <2>1 DEF Accepted, Same
    <3>2. Settled(q) BY <3>1 DEF Accepted, Settled
    <3>3. Token(q)' = Token(q) BY <1>3, <3>2, Asked
    <3>4. PICK u : u = Token(q) OBVIOUS
    <3>5. /\ Len(block[q]) <= MaxPost
          /\ settings.immutable /\ ~settings.bar => Stored(u) /\ store[u].by = q
      BY <2>1, <3>1, <3>4 DEF KeptInv
    <3>6. ASSUME settings.immutable, ~settings.bar PROVE u \in DOMAIN store' /\ store'[u].by = q
      <4>1. u # t BY <1>9, <2>3, <3>5, <3>6
      <4> QED BY <1>9, <2>3, <3>5, <3>6, <4>1 DEF Stored
    <3>7. Token(q)' = u /\ block'[q] = block[q] BY <2>1, <3>3, <3>4 DEF Same
    <3> QED BY <1>3, <3>5, <3>6, <3>7 DEF KeptInv, Stored
  <2> QED BY <2>2, <2>3
<1> QED BY <1>10, <1>11, <1>12, <1>13, <1>14, <1>15 DEF OwnInv

(* The server hands out a message, which is gone then if it burns what was  *)
(* read, or it knows of none.                                               *)
LEMMA GetOwn ==
  ASSUME IInv, NEW p \in Run, ServeGet(p)
  PROVE  OwnInv(p)' /\ StoreInv' /\ \A q \in Run \ {p} : KeptInv(q)'
<1>1. TypeInv /\ StoreInv /\ SenderInv(p) /\ ReaderInv(p) BY DEF IInv
<1>2. Step(p) BY <1>1, ServerStep DEF Server
<1>3. cmd' = cmd /\ settings' = settings /\ \A q \in Run : StaysSettled(q) BY <1>2 DEF Step
<1>4. /\ pc[p] = "sent" /\ cmd[p].prog = "ws_get"
      /\ UNCHANGED <<opts, msglen, size, buffer, page, saved>>
  BY DEF ServeGet
<1>5. PICK t : t = Token(p) OBVIOUS
<1>6. page'[p] = <<>> /\ saved'[p] = <<>>
  <2>1. page[p] = <<>> BY <1>1, <1>4 DEF ReaderInv
  <2>2. saved[p] = <<>> BY <1>1, <2>1 DEF ReaderInv
  <2> QED BY <1>4, <2>1, <2>2
<1>7. /\ pc'[p] = "answer"
      /\ \/ /\ t \in DOMAIN store /\ code'[p] = 200
            /\ block'[p] = store[t].block /\ poster'[p] = store[t].by
            /\ store' = [e \in DOMAIN store \ (IF settings.bar THEN {t} ELSE {}) |-> store[e]]
         \/ code'[p] = 404 /\ block'[p] = <<>> /\ store' = store
  <2>1. CASE Stored(t)
    <3>1. /\ Answer(p, 200, store[t].block, store[t].by)
          /\ store' = [e \in DOMAIN store \ (IF settings.bar THEN {t} ELSE {}) |-> store[e]]
      BY <1>5, <2>1 DEF ServeGet
    <3> QED BY <1>1, <2>1, <3>1 DEF TypeInv, Answer, Goto, Stored
  <2>2. CASE ~Stored(t)
    <3>1. Answer(p, 404, <<>>, p) /\ UNCHANGED store BY <1>5, <2>2 DEF ServeGet
    <3> QED BY <1>1, <3>1 DEF TypeInv, Answer, Goto
  <2> QED BY <2>1, <2>2
<1>8. SenderInv(p)' BY <1>3, <1>4, <1>7 DEF SenderInv
<1>9. ReaderInv(p)'
  <2>1. SubSeq(block'[p], 1, 0) = <<>>
    <3>1. block'[p] \in Seq(Digit)
      <4>1. TypeInv' BY <1>1, ServerStep DEF Server
      <4> QED BY <4>1 DEF TypeInv
    <3> QED BY <3>1, SubSeqEmpty
  <2>2. Len(page'[p]) = 0 BY <1>6
  <2>3. code'[p] = 200 => Len(block'[p]) >= MinPost
    <3>1. ASSUME t \in DOMAIN store PROVE Len(store[t].block) >= MinPost
      <4>1. Len(store[t].block) \in MinPost..MaxPost BY <1>1, <3>1 DEF TypeInv, StoreType
      <4> QED BY <4>1
    <3> QED BY <1>7, <3>1
  <2> QED BY <1>6, <1>7, <2>1, <2>2, <2>3 DEF ReaderInv
<1>10. GetInv(p)'
  <2>1. ASSUME code'[p] = 200 PROVE MadeBy(block[p], poster[p])'
    <3>1. t \in DOMAIN store /\ block'[p] = store[t].block /\ poster'[p] = store[t].by
      BY <1>7, <2>1
    <3>2. PICK q \in Run : q = store[t].by BY <1>1, <3>1 DEF TypeInv, StoreType
    <3>3. PICK b : b = store[t].block OBVIOUS
    <3>4. MadeBy(b, q) BY <1>1, <3>1, <3>2, <3>3 DEF StoreInv
    <3>5. cmd[q].prog = "ws_post" =>
             Settled(q)' /\ Whole(q)' /\ b = Z85_encode_with_padding(Content(q)')
      BY <1>3, <3>4, Asked DEF MadeBy
    <3>6. poster'[p] = q /\ block'[p] = b BY <3>1, <3>2, <3>3
    <3> QED BY <1>3, <3>5, <3>6 DEF MadeBy
  <2> QED BY <1>7, <2>1 DEF GetInv, GotPosted
<1>11. KeptInv(p)'
  <2>1. ~Accepted(p)' BY <1>3, <1>4 DEF Accepted
  <2> QED BY <2>1 DEF KeptInv
<1>12. StoreInv'
  <2> SUFFICES ASSUME NEW e \in DOMAIN store'
               PROVE  MadeBy(store[e].block, store[e].by)'
    BY DEF StoreInv
  <2>1. e \in DOMAIN store /\ store'[e] = store[e] BY <1>7
  <2> QED BY <1>1, <1>3, <2>1, EntryStays
<1>13. ASSUME NEW q \in Run \ {p} PROVE KeptInv(q)'
  <2>1. Same(q) /\ KeptInv(q) BY <1>2 DEF Step, IInv
  <2> SUFFICES ASSUME Accepted(q)' PROVE KeptInv(q)' BY DEF KeptInv
  <2>2. Accepted(q) BY <1>3, <2>1 DEF Accepted, Same
  <2>3. Settled(q) BY <2>2 DEF Accepted, Settled
  <2>4. Token(q)' = Token(q) BY <1>3, <2>3, Asked
  <2>5. PICK u : u = Token(q) OBVIOUS
  <2>6. /\ Len(block[q]) <= MaxPost
        /\ settings.immutable /\ ~settings.bar => Stored(u) /\ store[u].by = q
    BY <2>1, <2>2, <2>5 DEF KeptInv
  <2>7. ASSUME settings.immutable, ~settings.bar PROVE u \in DOMAIN store' /\ store'[u].by = q
    BY <1>7, <2>6, <2>7 DEF Stored
  <2>8. Token(q)' = u /\ block'[q] = block[q] BY <2>1, <2>4, <2>5 DEF Same
  <2> QED BY <1>3, <2>6, <2>7, <2>8 DEF KeptInv, Stored
<1> QED BY <1>8, <1>9, <1>10, <1>11, <1>12, <1>13 DEF OwnInv

(* ws_cfg's page is nobody's message.                                       *)
LEMMA ConfigOwn ==
  ASSUME IInv, NEW p \in Run, ServeConfig(p)
  PROVE  OwnInv(p)' /\ store' = store
<1>1. TypeInv /\ ReaderInv(p) BY DEF IInv
<1>2. /\ pc[p] = "sent" /\ cmd[p].prog = "ws_cfg" /\ cmd' = cmd
      /\ UNCHANGED <<store, opts, msglen, size, buffer, page, saved>>
      /\ pc'[p] = "answer" /\ code'[p] = 200 /\ block'[p] = <<>>
  BY <1>1 DEF ServeConfig, Answer, Goto, TypeInv
<1>3. page'[p] = <<>> /\ saved'[p] = <<>>
  <2>1. page[p] = <<>> BY <1>1, <1>2 DEF ReaderInv
  <2>2. saved[p] = <<>> BY <1>1, <2>1 DEF ReaderInv
  <2> QED BY <1>2, <2>1, <2>2
<1>4. SenderInv(p)' BY <1>2 DEF SenderInv
<1>5. ReaderInv(p)'
  <2>1. SubSeq(block'[p], 1, 0) = <<>>
    <3>1. block'[p] \in Seq(Digit)
      <4>1. TypeInv' BY <1>1, ServerStep DEF Server
      <4> QED BY <4>1 DEF TypeInv
    <3> QED BY <3>1, SubSeqEmpty
  <2>2. Len(page'[p]) = 0 BY <1>3
  <2> QED BY <1>2, <1>3, <2>1, <2>2 DEF ReaderInv
<1>6. GetInv(p)' BY <1>2 DEF GetInv, GotPosted
<1>7. ~Accepted(p)' BY <1>2 DEF Accepted
<1> QED BY <1>2, <1>4, <1>5, <1>6, <1>7 DEF OwnInv, KeptInv

(* What was accepted stays accepted while a run has its answer.             *)
LEMMA KeptStays ==
  ASSUME NEW p \in Run, KeptInv(p), cmd' = cmd, settings' = settings, store' = store,
         StaysSettled(p), block'[p] = block[p], Accepted(p)' => Accepted(p)
  PROVE  KeptInv(p)'
<1> SUFFICES ASSUME Accepted(p)' PROVE KeptInv(p)' BY DEF KeptInv
<1>1. Settled(p) BY DEF Accepted, Settled
<1>2. Token(p)' = Token(p) BY <1>1, Asked
<1>3. PICK t : t = Token(p) OBVIOUS
<1>4. /\ Len(block[p]) <= MaxPost
      /\ settings.immutable /\ ~settings.bar => Stored(t) /\ store[t].by = p
  BY <1>3 DEF KeptInv
<1>5. Token(p)' = t BY <1>2, <1>3
<1> QED BY <1>4, <1>5 DEF KeptInv, Stored

(* A piece of the answer comes, all of it has come, or the connection       *)
(* breaks.                                                                  *)
LEMMA AnswerOwn ==
  ASSUME IInv, NEW p \in Run, save_response(p) \/ PerformFails(p) \/ Answered(p)
  PROVE  OwnInv(p)' /\ store' = store
<1>1. TypeInv /\ SenderInv(p) /\ ReaderInv(p) /\ GetInv(p) /\ KeptInv(p) BY DEF IInv
<1>2. /\ UNCHANGED <<store, opts, msglen, size, buffer, block, code, poster>> /\ Step(p)
  BY <1>1, AnswerStep
<1>3. cmd' = cmd /\ settings' = settings /\ \A q \in Run : StaysSettled(q) BY <1>2 DEF Step
<1>4. Content(p)' = Content(p) /\ (Whole(p) => Whole(p)')
  BY <1>2, <1>3 DEF Content, Message, Whole
<1>5. ASSUME cmd[p].prog = "ws_get", code[p] = 200, pc[p] = "answer"
      PROVE  MadeBy(block[p], poster[p])'
  BY <1>1, <1>2, <1>3, <1>5, PosterStays DEF GetInv
<1>6. CASE save_response(p)
  <2> DEFINE n == Least(Len(block[p]), Len(page[p]) + PieceSize)
  <2>0. /\ pc[p] = "answer" /\ pc' = pc /\ cmd[p].prog = "ws_get" /\ saved' = saved
        /\ page' = [page EXCEPT ![p] = SubSeq(block[p], 1, n)]
    BY <1>6 DEF save_response
  <2> HIDE DEF n
  <2>1. /\ pc[p] = "answer" /\ pc'[p] = "answer" /\ cmd[p].prog = "ws_get" /\ saved' = saved
        /\ page'[p] = SubSeq(block[p], 1, n)
    <3>1. DOMAIN page = Run BY <1>1 DEF TypeInv
    <3> QED BY <2>0, <3>1
  <2>2. block[p] \in Seq(Digit) /\ page[p] \in Seq(Digit) BY <1>1 DEF TypeInv
  <2>3. n \in 0..Len(block[p]) BY <2>2, ClientAssumption DEF Least, n
  <2>4. Len(page'[p]) = n BY <2>1, <2>2, <2>3, Beginning
  <2>5. SenderInv(p)' BY <1>3, <2>1 DEF SenderInv
  <2>6. saved[p] = <<>> BY <1>1, <2>1 DEF ReaderInv
  <2>7. ReaderInv(p)' BY <1>1, <1>2, <1>3, <2>1, <2>4, <2>6 DEF ReaderInv
  <2>8. GetInv(p)' BY <1>2, <1>3, <1>5, <2>1 DEF GetInv, GotPosted
  <2>9. ~Accepted(p)' BY <1>3, <2>1 DEF Accepted
  <2> QED BY <1>2, <2>5, <2>7, <2>8, <2>9 DEF OwnInv, KeptInv
<1>7. CASE PerformFails(p)
  <2>1. pc[p] \in {"sent", "answer"} /\ pc'[p] = "failed" /\ page'[p] = <<>> /\ saved' = saved
    BY <1>1, <1>7 DEF PerformFails, Goto, TypeInv
  <2>2. SenderInv(p)' BY <2>1 DEF SenderInv
  <2>3. saved[p] = <<>> BY <1>1, <2>1 DEF ReaderInv
  <2>4. ReaderInv(p)' BY <2>1, <2>3 DEF ReaderInv
  <2>5. GetInv(p)' /\ KeptInv(p)' BY <1>1, <2>1, <2>4, Before
  <2> QED BY <1>2, <2>2, <2>4, <2>5 DEF OwnInv
<1>8. CASE Answered(p)
  <2>1. /\ pc[p] = "answer" /\ page' = page /\ saved' = saved
        /\ cmd[p].prog = "ws_get" => page[p] = block[p]
        /\ pc'[p] = IF code[p] # 200 THEN "failed"
                    ELSE IF cmd[p].prog = "ws_get" THEN "page" ELSE "done"
    BY <1>1, <1>8 DEF Answered, Goto, TypeInv
  <2>2. SenderInv(p)' BY <2>1 DEF SenderInv
  <2>3. saved[p] = <<>> BY <1>1, <2>1 DEF ReaderInv
  <2>4. cmd[p].prog # "ws_get" \/ code[p] # 200 => page[p] = <<>> BY <1>1, <2>1 DEF ReaderInv
  <2>5. ReaderInv(p)' BY <1>1, <1>2, <1>3, <2>1, <2>3, <2>4 DEF ReaderInv
  <2>6. GetInv(p)' BY <1>2, <1>3, <1>5, <2>1 DEF GetInv, GotPosted
  <2>7. Accepted(p)' => Accepted(p) BY <1>2, <1>3, <2>1 DEF Accepted
  <2>8. block'[p] = block[p] /\ store' = store BY <1>2
  <2>9. KeptInv(p)' BY <1>1, <1>3, <2>7, <2>8, KeptStays
  <2> QED BY <1>2, <2>2, <2>5, <2>6, <2>9 DEF OwnInv
<1> QED BY <1>6, <1>7, <1>8

(* What ws_get decodes is what its poster encoded, and what it makes of it  *)
(* is the message, but for the two known losses (handle_page, mza_restore). *)
LEMMA MessageComesOut ==
  ASSUME TypeInv, NEW p \in Run, ReaderInv(p), GetInv(p), handle_page(p), NEW q \in Run,
         q = poster[p], cmd[q].prog = "ws_post"
  PROVE  /\ pc'[p] = "done" /\ Settled(q)
         /\ \/ saved'[p] = Written(p, Message(q))
            \/ /\ Content(q) = Message(q) /\ Len(Message(q)) > 6
               /\ SubSeq(Message(q), 1, 2) = ZlibHeader
            \/ /\ Content(q) # Message(q) /\ saved'[p] = <<>>
               /\ Len(Message(q)) > RestoreFactor * Len(Content(q))
<1> DEFINE msg == Message(q)
           m == Content(q)
<1>1. pc[p] = "page" /\ page[p] = block[p] /\ cmd[p].prog = "ws_get" /\ code[p] = 200
  BY PageIs DEF handle_page
<1>2. Settled(q) /\ Whole(q) /\ block[p] = Z85_encode_with_padding(m)
  BY <1>1 DEF GetInv, MadeBy
<1>3. m \in Seq(Byte) /\ m # <<>> /\ msg \in Seq(Byte) BY <1>2, ContentIs
<1>4. m # msg => msg \in DOMAIN Squash /\ m = Squash[msg] BY DEF Content
<1> HIDE DEF m, msg
<1>5. Decodable(page[p]) /\ Z85_decode_with_padding(page[p]) = m BY <1>1, <1>2, <1>3, RoundTrip
<1>6. saved[p] = <<>> BY <1>1 DEF ReaderInv
<1>7. /\ pc' = [pc EXCEPT ![p] = "done"]
      /\ IF ~LooksSquashed(m)
         THEN saved' = [saved EXCEPT ![p] = Written(p, m)]
         ELSE IF Restored(m) = {}
         THEN UNCHANGED saved
         ELSE \E n \in Restored(m) : saved' = [saved EXCEPT ![p] = Written(p, n)]
  BY <1>5 DEF handle_page, Goto
<1>8. pc'[p] = "done" BY <1>7 DEF TypeInv
<1>9. m # msg => LooksSquashed(m) BY <1>4, ClientAssumption DEF LooksSquashed
<1>10. CASE ~LooksSquashed(m)
  <2>1. m = msg BY <1>9, <1>10
  <2>2. saved'[p] = Written(p, m) BY <1>7, <1>10 DEF TypeInv
  <2> QED BY <1>2, <1>8, <2>1, <2>2 DEF m, msg
<1>11. CASE LooksSquashed(m) /\ m = msg BY <1>2, <1>8, <1>11 DEF LooksSquashed, m, msg
<1>12. CASE LooksSquashed(m) /\ m # msg
  <2>1. msg \in DOMAIN Squash /\ m = Squash[msg] BY <1>4, <1>12
  <2>2. \A n \in Restored(m) : n = msg BY <2>1, ClientAssumption DEF Restored
  <2>3. CASE Restored(m) = {}
    <3>1. saved'[p] = <<>> BY <1>6, <1>7, <1>12, <2>3
    <3>2. ~(Len(msg) <= RestoreFactor * Len(m)) BY <2>1, <2>3 DEF Restored
    <3>3. Len(msg) \in Nat /\ RestoreFactor * Len(m) \in Nat
      <4>1. Len(msg) \in Nat /\ Len(m) \in Nat /\ RestoreFactor \in Nat BY <1>3, ClientAssumption
      <4>2. \A x, y \in Nat : x * y \in Nat BY SMT
      <4> QED BY <4>1, <4>2
    <3>4. Len(msg) > RestoreFactor * Len(m) BY <3>2, <3>3
    <3> QED BY <1>2, <1>8, <1>12, <3>1, <3>4 DEF m, msg
  <2>4. CASE Restored(m) # {}
    <3>1. PICK n \in Restored(m) : saved' = [saved EXCEPT ![p] = Written(p, n)]
      BY <1>7, <1>12, <2>4
    <3>2. saved'[p] = Written(p, msg) BY <2>2, <3>1 DEF TypeInv
    <3> QED BY <1>2, <1>8, <3>2 DEF m, msg
  <2> QED BY <2>3, <2>4
<1> QED BY <1>10, <1>11, <1>12

(* handle_page writes what its poster had read, or it is one of the known   *)
(* losses.                                                                  *)
LEMMA HandleOwn ==
  ASSUME IInv, NEW p \in Run, handle_page(p)
  PROVE  OwnInv(p)' /\ store' = store
<1>1. TypeInv /\ SenderInv(p) /\ ReaderInv(p) /\ GetInv(p) /\ KeptInv(p) BY DEF IInv
<1>2. /\ UNCHANGED <<store, opts, msglen, size, buffer, block, code, poster, page>> /\ Step(p)
  BY <1>1, AnswerStep DEF handle_page
<1>3. cmd' = cmd /\ settings' = settings /\ \A q \in Run : StaysSettled(q) BY <1>2 DEF Step
<1>4. PICK l \in {"done", "aborted"}, v \in Seq(Byte) : HandlesTo(p, l, v) BY <1>1, Handled
<1>5. pc'[p] = l /\ saved'[p] = v /\ (l = "aborted" => v = saved[p])
  BY <1>1, <1>4 DEF HandlesTo, TypeInv
<1>6. pc[p] = "page" /\ page[p] = block[p] /\ cmd[p].prog = "ws_get" /\ code[p] = 200
  BY <1>1, PageIs DEF handle_page
<1>7. SenderInv(p)' BY <1>5 DEF SenderInv
<1>8. ReaderInv(p)'
  <2>1. page[p] # <<>> BY <1>1, <1>6, PageIs
  <2>2. saved[p] = <<>> BY <1>1, <1>6 DEF ReaderInv
  <2>3. Len(block[p]) >= MinPost BY <1>1, <1>6 DEF ReaderInv
  <2> QED BY <1>2, <1>3, <1>5, <1>6, <2>1, <2>2, <2>3 DEF ReaderInv
<1>9. GetInv(p)'
  <2>1. MadeBy(block[p], poster[p])'
    <3>1. MadeBy(block[p], poster[p]) BY <1>1, <1>6 DEF GetInv
    <3> QED BY <1>1, <1>2, <1>3, <3>1, PosterStays
  <2>2. ASSUME GotPosted(p)' PROVE Rendered(p)'
    <3>1. PICK q \in Run : q = poster[p] BY <1>1 DEF TypeInv
    <3>2. cmd[q].prog = "ws_post" BY <1>2, <1>3, <2>2, <3>1 DEF GotPosted
    <3>3. /\ pc'[p] = "done" /\ Settled(q)
          /\ \/ saved'[p] = Written(p, Message(q))
             \/ /\ Content(q) = Message(q) /\ Len(Message(q)) > 6
                /\ SubSeq(Message(q), 1, 2) = ZlibHeader
             \/ /\ Content(q) # Message(q) /\ saved'[p] = <<>>
                /\ Len(Message(q)) > RestoreFactor * Len(Content(q))
      BY <1>1, <3>1, <3>2, MessageComesOut
    <3>4. Message(q)' = Message(q) /\ Content(q)' = Content(q) BY <1>3, <3>3, Asked
    <3>5. PICK m : m = Message(q) OBVIOUS
    <3>6. PICK c : c = Content(q) OBVIOUS
    <3>7. Written(p, m)' = Written(p, m) BY <1>2 DEF Written
    <3>8. Message(q)' = m /\ Content(q)' = c /\ poster'[p] = q BY <1>2, <3>1, <3>4, <3>5, <3>6
    <3>9. /\ pc'[p] = "done"
          /\ \/ saved'[p] = Written(p, m)'
             \/ c = m /\ Len(m) > 6 /\ SubSeq(m, 1, 2) = ZlibHeader
             \/ c # m /\ saved'[p] = <<>> /\ Len(m) > RestoreFactor * Len(c)
      BY <3>3, <3>5, <3>6, <3>7
    <3> QED BY <3>8, <3>9 DEF Rendered
  <2> QED BY <2>1, <2>2 DEF GetInv
<1>10. ~Accepted(p)' BY <1>3, <1>6 DEF Accepted
<1> QED BY <1>2, <1>7, <1>8, <1>9, <1>10 DEF OwnInv, KeptInv

-----------------------------------------------------------------------------
(* Every step keeps the invariant of every run and of the store.            *)
LEMMA StepKeeps ==
  ASSUME IInv, TypeInv', NEW p \in Run, Step(p), OwnInv(p)', StoreInv',
         \A q \in Run \ {p} : KeptInv(q)'
  PROVE  IInv'
<1>1. ASSUME NEW q \in Run PROVE SenderInv(q)' /\ ReaderInv(q)' /\ GetInv(q)' /\ KeptInv(q)'
  <2>1. CASE q = p BY <2>1 DEF OwnInv
  <2>2. CASE q # p
    <3>1. cmd' = cmd /\ settings' = settings /\ Same(q) /\ \A r \in Run : StaysSettled(r)
      BY <2>2 DEF Step
    <3> QED BY <2>2, <3>1, Others
  <2> QED BY <2>1, <2>2
<1> QED BY <1>1 DEF IInv

(* A step that leaves the store alone.                                      *)
LEMMA StoreAlone ==
  ASSUME IInv, NEW p \in Run, Step(p), store' = store
  PROVE  StoreInv' /\ \A q \in Run \ {p} : KeptInv(q)'
<1>1. cmd' = cmd /\ settings' = settings /\ \A r \in Run : StaysSettled(r) BY DEF Step
<1>2. StoreInv'
  <2>1. TypeInv /\ StoreInv BY DEF IInv
  <2> QED BY <1>1, <2>1, StoreStays
<1>3. ASSUME NEW q \in Run \ {p} PROVE KeptInv(q)'
  <2>1. Same(q) BY DEF Step
  <2> QED BY <1>1, <2>1, Others
<1> QED BY <1>2, <1>3

(* One step of ws_post, ws_get, ws_cfg or curl.                             *)
LEMMA ClientKeeps ==
  ASSUME IInv, NEW p \in Run, Client(p)
  PROVE  IInv'
<1>1. TypeInv /\ SenderInv(p) /\ ReaderInv(p) BY DEF IInv
<1>2. TypeInv' /\ Step(p)
  BY <1>1, ParseStep, FileStep, RequestStep, AnswerStep DEF Client
<1>3. OwnInv(p)' /\ store' = store
  BY ParseOwn, FileOwn, RequestOwn, AnswerOwn, HandleOwn DEF Client
<1>4. StoreInv' /\ \A q \in Run \ {p} : KeptInv(q)' BY <1>2, <1>3, StoreAlone
<1> QED BY <1>2, <1>3, <1>4, StepKeeps

(* One answer of the server.                                                *)
LEMMA ServerKeeps ==
  ASSUME IInv, NEW p \in Run, Server(p)
  PROVE  IInv'
<1>1. TypeInv BY DEF IInv
<1>2. TypeInv' /\ Step(p) BY <1>1, ServerStep
<1>3. OwnInv(p)' /\ StoreInv' /\ \A q \in Run \ {p} : KeptInv(q)'
  <2>1. CASE ServePost(p) BY <2>1, PostOwn
  <2>2. CASE ServeGet(p) BY <2>2, GetOwn
  <2>3. CASE ServeConfig(p)
    <3>1. OwnInv(p)' /\ store' = store BY <2>3, ConfigOwn
    <3> QED BY <1>2, <3>1, StoreAlone
  <2> QED BY <2>1, <2>2, <2>3 DEF Server
<1> QED BY <1>2, <1>3, StepKeeps

(* An edited file is nothing that has been read.                            *)
LEMMA RunsKeep ==
  ASSUME IInv, TypeInv', UNCHANGED <<settings, store, runVars>>
  PROVE  IInv'
<1>1. cmd' = cmd /\ settings' = settings /\ store' = store BY DEF runVars
<1>2. \A q \in Run : Same(q) BY DEF runVars, Same
<1>3. \A q \in Run : StaysSettled(q) BY DEF runVars, StaysSettled, Settled, SameAsked
<1>4. StoreInv'
  <2>1. TypeInv /\ StoreInv BY DEF IInv
  <2> QED BY <1>1, <1>3, <2>1, StoreStays
<1>5. ASSUME NEW q \in Run PROVE SenderInv(q)' /\ ReaderInv(q)' /\ GetInv(q)' /\ KeptInv(q)'
  BY <1>1, <1>2, <1>3, Others
<1> QED BY <1>4, <1>5 DEF IInv

(* Every step keeps the invariant.                                          *)
LEMMA NextKeeps == IInv /\ [Next]_vars => IInv'
<1> SUFFICES ASSUME IInv, [Next]_vars PROVE IInv' OBVIOUS
<1>1. CASE \E p \in Run : Client(p) \/ Server(p) BY <1>1, ClientKeeps, ServerKeeps
<1>2. CASE \E f \in DOMAIN Contents : Edit(f)
  <2>1. TypeInv BY DEF IInv
  <2>2. TypeInv' /\ UNCHANGED <<settings, store, runVars>> BY <1>2, <2>1, EditStep
  <2> QED BY <2>2, RunsKeep
<1>3. CASE UNCHANGED vars
  <2>1. UNCHANGED <<settings, store, runVars>> /\ disk' = disk BY <1>3 DEF vars
  <2>2. TypeInv' BY <2>1 DEF TypeInv, StoreType, runVars, IInv
  <2> QED BY <2>1, <2>2, RunsKeep
<1> QED BY <1>1, <1>2, <1>3 DEF Next

(* Before anything has run.                                                 *)
LEMMA Starts == Init => IInv
<1> SUFFICES ASSUME Init PROVE IInv OBVIOUS
<1>1. TypeInv
  <2>1. \A f \in DOMAIN Contents : Contents[f][1] \in Seq(Byte) /\ 1 \in DOMAIN Contents[f]
    BY ClientAssumption
  <2>2. StoreType BY DEF Init, StoreType
  <2>3. "start" \in Labels BY DEF Labels
  <2> QED BY <2>1, <2>2, <2>3 DEF Init, TypeInv
<1>2. StoreInv BY DEF Init, StoreInv
<1>3. ASSUME NEW p \in Run PROVE SenderInv(p) /\ ReaderInv(p) /\ GetInv(p) /\ KeptInv(p)
  <2>1. pc[p] = "start" /\ page[p] = <<>> /\ saved[p] = <<>> /\ code[p] = 0 BY DEF Init
  <2> QED BY <2>1 DEF SenderInv, ReaderInv, GetInv, GotPosted, KeptInv, Accepted
<1> QED BY <1>1, <1>2, <1>3 DEF IInv

(* However the runs, the server and whoever edits the files are             *)
(* interleaved, and wherever a connection breaks.                           *)
THEOREM Invariant == Spec => []IInv
BY Starts, NextKeeps, PTL DEF Spec

(* Every variable keeps its type, and what has come of an answer is the     *)
(* beginning of it (save_response).                                         *)
THEOREM TypeCorrect == Spec => []TypeOK
<1>1. ASSUME IInv PROVE TypeOK
  <2>1. TypeInv BY <1>1 DEF IInv
  <2>2. ASSUME NEW p \in Run PROVE page[p] = SubSeq(block[p], 1, Len(page[p]))
    <3>1. ReaderInv(p) BY <1>1 DEF IInv
    <3>2. block[p] \in Seq(Digit) /\ page[p] \in Seq(Digit) BY <2>1 DEF TypeInv
    <3>3. page[p] = <<>> \/ pc[p] = "answer" \/ page[p] = block[p] BY <3>1 DEF ReaderInv
    <3>4. CASE page[p] = <<>>
      <4>1. SubSeq(block[p], 1, 0) = <<>> BY <3>2, SubSeqEmpty
      <4>2. Len(page[p]) = 0 BY <3>4
      <4> QED BY <3>4, <4>1, <4>2
    <3>5. CASE page[p] = block[p] BY <3>2, <3>5, SubSeqFull
    <3>6. CASE pc[p] = "answer" BY <3>1, <3>6 DEF ReaderInv
    <3> QED BY <3>3, <3>4, <3>5, <3>6
  <2>3. \A t \in DOMAIN store : Len(store[t].block) \in MinPost..MaxPost /\ store[t].by \in Run
    BY <2>1 DEF TypeInv, StoreType
  <2>4. ASSUME NEW p \in Run
        PROVE  /\ pc[p] \in Ended \cup {"start", "stat", "read", "encode", "request", "sent", "answer",
                                        "page"}
               /\ msglen[p] \in Nat /\ size[p] \in Nat /\ Len(buffer[p]) \in Nat
               /\ \A i \in DOMAIN block[p] : block[p][i] \in Digit
               /\ code[p] \in {0, 200, 304, 400, 404} /\ poster[p] \in Run
               /\ \A i \in DOMAIN saved[p] : saved[p][i] \in Byte
    <3>1. pc[p] \in Labels BY <2>1 DEF TypeInv
    <3>2. block[p] \in Seq(Digit) /\ saved[p] \in Seq(Byte) /\ buffer[p] \in Seq(Byte)
      BY <2>1 DEF TypeInv
    <3>3. \A i \in DOMAIN block[p] : block[p][i] \in Digit BY <3>2
    <3>4. \A i \in DOMAIN saved[p] : saved[p][i] \in Byte BY <3>2
    <3>5. Len(buffer[p]) \in Nat BY <3>2
    <3> QED BY <2>1, <3>1, <3>3, <3>4, <3>5 DEF TypeInv, Labels
  <2>5. /\ settings \in Settings /\ cmd \in Scenarios
        /\ \A f \in DOMAIN Contents : \E i \in DOMAIN Contents[f] : disk[f] = Contents[f][i]
    BY <2>1 DEF TypeInv
  <2> QED BY <2>2, <2>3, <2>4, <2>5 DEF TypeOK
<1> QED BY <1>1, Invariant, PTL

(* ws_post reads past its message only if the file got shorter between its  *)
(* two looks at it; a block fits the bound that it was allocated with, and  *)
(* so does whatever ws_get decodes, which has a group to decode.            *)
THEOREM NothingOverflows == Spec => []BuffersHold
<1>1. ASSUME IInv PROVE BuffersHold
  <2> SUFFICES ASSUME NEW p \in Run
               PROVE  /\ pc[p] = "overrun" => IsSet(opts[p], "file") /\ size[p] < msglen[p]
                      /\ pc[p] = "request" /\ cmd[p].prog = "ws_post" =>
                           Len(block[p]) <= Z85_encode_with_padding_bound(Len(Content(p)))
                      /\ pc[p] = "page" /\ Decodable(page[p]) =>
                           /\ Len(page[p]) > 5
                           /\ Len(Z85_decode_with_padding(page[p]))
                                <= Z85_decode_with_padding_bound(page[p])
    BY DEF BuffersHold
  <2>1. TypeInv /\ SenderInv(p) /\ ReaderInv(p) BY <1>1 DEF IInv
  <2>2. ASSUME pc[p] = "overrun" PROVE IsSet(opts[p], "file") /\ size[p] < msglen[p]
    <3>1. /\ msglen[p] \in Nat /\ size[p] \in Nat /\ msglen[p] > Len(buffer[p])
          /\ Len(buffer[p]) = 1 + (IF IsSet(opts[p], "file") THEN size[p] ELSE msglen[p])
      BY <2>1, <2>2 DEF SenderInv, TypeInv
    <3> QED BY <3>1
  <2>3. ASSUME pc[p] = "request", cmd[p].prog = "ws_post"
        PROVE  Len(block[p]) <= Z85_encode_with_padding_bound(Len(Content(p)))
    <3>1. Whole(p) /\ block[p] = Z85_encode_with_padding(Content(p)) BY <2>1, <2>3 DEF SenderInv
    <3>2. Content(p) \in Seq(Byte) /\ Content(p) # <<>> BY <2>1, <3>1, ContentIs
    <3>3. Len(block[p]) = Z85_encode_with_padding_bound(Len(Content(p))) BY <3>1, <3>2, BoundsExact
    <3>4. Len(block[p]) \in Nat BY <2>1 DEF TypeInv
    <3> QED BY <3>3, <3>4
  <2>4. ASSUME pc[p] = "page", Decodable(page[p])
        PROVE  /\ Len(page[p]) > 5
               /\ Len(Z85_decode_with_padding(page[p])) <= Z85_decode_with_padding_bound(page[p])
    <3>1. page[p] \in Seq(Digit) /\ Len(page[p]) > 1 BY <2>1, <2>4, PageIs
    <3> DEFINE m == Z85_decode_with_padding(page[p])
    <3>2. Len(page[p]) > 5 /\ m \in Seq(Byte) /\ Len(m) = Z85_decode_with_padding_bound(page[p])
      BY <2>4, <3>1, DecodeFits
    <3> HIDE DEF m
    <3>3. Len(m) \in Nat BY <3>2
    <3>4. Len(m) <= Z85_decode_with_padding_bound(page[p]) BY <3>2, <3>3
    <3> QED BY <3>2, <3>4 DEF m
  <2> QED BY <2>2, <2>3, <2>4
<1> QED BY <1>1, Invariant, PTL

(* ws_get writes what ws_post read, with the two known exceptions, and      *)
(* never trips over an assertion of the decoder on what ws_post encoded.    *)
THEOREM LossesAreKnown == Spec => []OnlyKnownLosses
<1>1. IInv => OnlyKnownLosses BY DEF IInv, GetInv, OnlyKnownLosses
<1> QED BY <1>1, Invariant, PTL

(* The server has the message under the token that ws_post printed, and     *)
(* keeps it if messages are immutable and not burnt.                        *)
THEOREM PrintedTokens == Spec => []TokenIsStored
<1>1. IInv => TokenIsStored BY DEF IInv, KeptInv, Accepted, TokenIsStored
<1> QED BY <1>1, Invariant, PTL

(* ws_get decodes whole answers only: what it has of one that broke off is  *)
(* never written.                                                           *)
THEOREM WholeAnswers == Spec => []ServedWhole
<1>1. ASSUME IInv PROVE ServedWhole
  <2> SUFFICES ASSUME NEW g \in Run, pc[g] = "aborted" \/ saved[g] # <<>>
               PROVE  page[g] = block[g] /\ code[g] = 200
    BY DEF ServedWhole
  <2>1. ReaderInv(g) BY <1>1 DEF IInv
  <2> QED BY <2>1 DEF ReaderInv
<1> QED BY <1>1, Invariant, PTL
=============================================================================
