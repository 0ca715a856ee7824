------------------------------ MODULE WsClient ------------------------------
(***************************************************************************)
(* The programs at the other end of a webstore server: ws_post, ws_get,    *)
(* ws_cfg, and a curl that posts a body of its own making.  Each run is a  *)
(* process: it reads its command line, its file, talks to the server and   *)
(* ends.  Files may be edited while they are read, requests and answers    *)
(* may be lost, and an answer arrives in pieces.  The server is what       *)
(* MessageStore promises, one request at a time.                           *)
(***************************************************************************)
EXTENDS Z85, Options, FiniteSets

CONSTANTS
  Run,            \* the processes
  Scenarios,      \* what the runs may be started with: functions from Run
  Contents,       \* what a file may hold, a sequence for each name: it begins
                  \* with the first
  HashLen,        \* HashLen[alg]: the length of a token
  Squash,         \* mz_compress, on the messages for which it finds the memory
  ZlibHeader,     \* <<0x78, 0x01>>, with which every pack begins
  RestoreFactor,  \* 10: mza_restore's guess at the size of the message
  PieceSize,      \* how much of an answer curl hands over at a time
  MinPost,        \* 5, the shortest body that the server takes
  MaxPost,        \* the longest: --dsize
  Settings        \* the [immutable, bar] with which the server may run

ASSUME ClientAssumption ==
  /\ \A f \in DOMAIN Contents : Contents[f] \in Seq(Seq(Byte)) /\ Contents[f] # <<>>
  /\ \A m \in DOMAIN Squash :
       /\ m \in Seq(Byte) /\ Squash[m] \in Seq(Byte)
       /\ Len(Squash[m]) > 6 /\ SubSeq(Squash[m], 1, 2) = ZlibHeader
  /\ \A m, n \in DOMAIN Squash : Squash[m] = Squash[n] => m = n
  /\ RestoreFactor \in Nat /\ PieceSize \in Nat \ {0}
  /\ MinPost \in Nat /\ MaxPost \in Nat /\ MinPost > 1 /\ MaxPost >= MinPost

VARIABLES
  settings, store,  \* the server: its flags and its messages
  disk,             \* the files
  pc,               \* where each run is: its exit is "done" (0) or "failed" (1)
  cmd,              \* its program and command line
  opts,             \* what getopts made of it
  msglen,           \* g_msglen
  size,             \* get_file's own size
  buffer,           \* g_message, with its terminating NUL
  block,            \* z85block, or the block the server answers with
  page,             \* the answer received so far
  code,             \* the answer's status
  poster,           \* history: who had posted what ws_get is given
  saved             \* what ws_get wrote or printed

runVars == <<pc, cmd, opts, msglen, size, buffer, block, page, code, poster, saved>>
vars    == <<settings, store, disk, runVars>>

Ended == {"done", "failed", "aborted", "overrun"}

Init ==
  /\ settings \in Settings
  /\ store = <<>>
  /\ disk = [f \in DOMAIN Contents |-> Contents[f][1]]
  /\ pc = [p \in Run |-> "start"]
  /\ cmd \in Scenarios
  /\ opts = [p \in Run |-> <<>>]
  /\ msglen = [p \in Run |-> 0]
  /\ size = [p \in Run |-> 0]
  /\ buffer = [p \in Run |-> <<>>]
  /\ block = [p \in Run |-> <<>>]
  /\ page = [p \in Run |-> <<>>]
  /\ code = [p \in Run |-> 0]
  /\ poster = [p \in Run |-> p]
  /\ saved = [p \in Run |-> <<>>]

Goto(p, l) == pc' = [pc EXCEPT ![p] = l]

-----------------------------------------------------------------------------
(* parse_args                                                               *)

Option(name, shortName, args) == [name |-> name, shortName |-> shortName, args |-> args]

Table ==
  [ws_post |-> <<Option("host", "H", TRUE), Option("port", "P", TRUE), Option("alg", "a", TRUE),
                 Option("file", "f", TRUE), Option("msg", "m", TRUE), Option("token", "t", TRUE),
                 Option("https", "s", FALSE), Option("comp", "c", FALSE),
                 Option("quiet", "q", FALSE), Option("verbose", "v", FALSE)>>,
   ws_get  |-> <<Option("host", "H", TRUE), Option("port", "P", TRUE),
                 Option("token", "t", TRUE), Option("file", "f", TRUE),
                 Option("https", "s", FALSE)>>,
   ws_cfg  |-> <<Option("host", "H", TRUE), Option("port", "P", TRUE),
                 Option("https", "s", FALSE)>>]

(* A message on the command line has no NUL in it.  A file that cannot be   *)
(* read is one that is empty.                                               *)
ArgumentHolds(prog, r) ==
  /\ r.ret = "msg" => r.arg \in Seq(Byte \ {0})
  /\ r.ret = "file" /\ prog = "ws_post" => r.arg \in DOMAIN Contents

CanRun(c) ==
  \/ c.prog = "curl" /\ c.argv[2].text \in Seq(Digit)
  \/ /\ c.prog \in DOMAIN Table
     /\ Len(c.argv) \in Nat /\ c.argv = [i \in 1..Len(c.argv) |-> c.argv[i]]
     /\ \A k \in 1..Len(c.argv) : ArgumentHolds(c.prog, getopts(c.argv, k, Table[c.prog]))

ASSUME ScenarioAssumption == \A s \in Scenarios : DOMAIN s = Run /\ \A p \in Run : CanRun(s[p])

HashLens == {HashLen[a] : a \in DOMAIN HashLen}

valid_token(t) == t.len \in HashLens

(* What the three programs ask of their options.                            *)
Addressed(o) == IsSet(o, "host") /\ Given(o, "port", 0) # 0

Acceptable(prog, o) ==
  /\ Addressed(o)
  /\ prog = "ws_get" => IsSet(o, "token")
  /\ prog = "ws_post" =>
       /\ IF IsSet(o, "token")
          THEN valid_token(ArgOf(o, "token")) /\ Given(o, "alg", 0) = 0
          ELSE Given(o, "alg", 0) \in DOMAIN HashLen
       /\ IsSet(o, "file") # IsSet(o, "msg")

(* A file that is not there has a negative size, and is taken for an empty  *)
(* one: both are refused in the same places.                                *)
file_size(f) == Len(disk[f])

parse_args(p) ==
  /\ pc[p] = "start"
  /\ cmd[p].prog # "curl"
  /\ LET prog == cmd[p].prog
         o    == Scan(cmd[p].argv, Table[prog])
         m    == Given(o, "msg", <<>>)
         long == IF IsSet(o, "file") THEN file_size(ArgOf(o, "file")) ELSE Len(m)
     IN  /\ opts' = [opts EXCEPT ![p] = o]
         /\ IF IsUsage(o)
            THEN Goto(p, "done") /\ UNCHANGED <<msglen, buffer>>
            ELSE IF ~Acceptable(prog, o) \/ (prog = "ws_post" /\ long < 1)
            THEN Goto(p, "failed") /\ UNCHANGED <<msglen, buffer>>
            ELSE IF prog # "ws_post"
            THEN Goto(p, "request") /\ UNCHANGED <<msglen, buffer>>
            ELSE /\ msglen' = [msglen EXCEPT ![p] = long]
                 /\ IF IsSet(o, "file")
                    THEN Goto(p, "stat") /\ UNCHANGED buffer
                    ELSE Goto(p, "encode") /\ buffer' = [buffer EXCEPT ![p] = Append(m, 0)]
  /\ UNCHANGED <<settings, store, disk, cmd, size, block, page, code, poster, saved>>

-----------------------------------------------------------------------------
(* get_file: it asks for the size again.                                    *)

StatFile(p) ==
  /\ pc[p] = "stat"
  /\ LET n == file_size(ArgOf(opts[p], "file"))
     IN  /\ size' = [size EXCEPT ![p] = n]
         /\ Goto(p, IF n = 0 THEN "failed" ELSE "read")
  /\ UNCHANGED <<settings, store, disk, cmd, opts, msglen, buffer, block, page, code, poster, saved>>

ReadFile(p) ==
  /\ pc[p] = "read"
  /\ LET f == ArgOf(opts[p], "file")
     IN  IF file_size(f) < size[p]
         THEN Goto(p, "failed") /\ UNCHANGED buffer
         ELSE /\ buffer' = [buffer EXCEPT ![p] = Append(SubSeq(disk[f], 1, size[p]), 0)]
              /\ Goto(p, "encode")
  /\ UNCHANGED <<settings, store, disk, cmd, opts, msglen, size, block, page, code, poster, saved>>

(* Somebody else writes the file, whenever.                                 *)
Edit(f) ==
  /\ \E p \in Run : pc[p] \in {"stat", "read"}
  /\ \E i \in DOMAIN Contents[f] : disk' = [disk EXCEPT ![f] = Contents[f][i]]
  /\ UNCHANGED <<settings, store, runVars>>

-----------------------------------------------------------------------------
(* encode_msg_and_post                                                      *)

Message(p) == SubSeq(buffer[p], 1, msglen[p])

(* mza_squash, if it succeeds and makes it smaller.                         *)
Content(p) ==
  LET m == Message(p)
  IN  IF IsSet(opts[p], "comp") /\ m \in DOMAIN Squash /\ Len(Squash[m]) < Len(m)
      THEN Squash[m]
      ELSE m

(* A digest is as good as the message.                                      *)
create_token(alg, m) == [len |-> HashLen[alg], hex |-> TRUE, of |-> m]

Token(p) ==
  IF cmd[p].prog = "curl" THEN cmd[p].argv[1].text
  ELSE IF IsSet(opts[p], "token") THEN ArgOf(opts[p], "token")
  ELSE create_token(ArgOf(opts[p], "alg"), Message(p))

(* The bytes are read as msglen says, and the buffer is as long as the      *)
(* second look at the file said.                                            *)
encode_msg(p) ==
  /\ pc[p] = "encode"
  /\ IF msglen[p] > Len(buffer[p])
     THEN Goto(p, "overrun") /\ UNCHANGED block
     ELSE /\ block' = [block EXCEPT ![p] = Z85_encode_with_padding(Content(p))]
          /\ Goto(p, "request")
  /\ UNCHANGED <<settings, store, disk, cmd, opts, msglen, size, buffer, page, code, poster, saved>>

(* curl posts what it is told to.                                           *)
RawPost(p) ==
  /\ pc[p] = "start"
  /\ cmd[p].prog = "curl"
  /\ block' = [block EXCEPT ![p] = cmd[p].argv[2].text]
  /\ Goto(p, "request")
  /\ UNCHANGED <<settings, store, disk, cmd, opts, msglen, size, buffer, page, code, poster, saved>>

(* create_url finds the node by the length of the token, or fails.          *)
create_url(p) ==
  /\ pc[p] = "request"
  /\ Goto(p, IF cmd[p].prog = "ws_cfg" \/ valid_token(Token(p)) THEN "sent" ELSE "failed")
  /\ UNCHANGED <<settings, store, disk, cmd, opts, msglen, size, buffer, block, page, code, poster, saved>>

-----------------------------------------------------------------------------
(* The server.                                                              *)

Answer(p, status, body, by) ==
  /\ code' = [code EXCEPT ![p] = status]
  /\ block' = [block EXCEPT ![p] = body]
  /\ poster' = [poster EXCEPT ![p] = by]
  /\ Goto(p, "answer")

Stored(t) == \E e \in DOMAIN store : e = t

(* Variant, to see BuffersHold fail: the node takes any body.               *)
Refused_NoMinimum(t, body) == ~t.hex

Refused(t, body) == Len(body) < MinPost \/ ~t.hex

(* The connection is closed on an upload that is too long.                  *)
ServePost(p) ==
  /\ pc[p] = "sent"
  /\ cmd[p].prog \in {"ws_post", "curl"}
  /\ LET t == Token(p)
     IN  IF Len(block[p]) > MaxPost
         THEN Goto(p, "failed") /\ UNCHANGED <<store, code, block, poster>>
         ELSE IF Refused(t, block[p])
         THEN Answer(p, 400, block[p], p) /\ UNCHANGED store
         ELSE IF settings.immutable /\ Stored(t)
         THEN Answer(p, 304, block[p], p) /\ UNCHANGED store
         ELSE /\ Answer(p, 200, block[p], p)
              /\ store' = [e \in DOMAIN store \cup {t} |->
                             IF e = t THEN [block |-> block[p], by |-> p] ELSE store[e]]
  /\ UNCHANGED <<settings, disk, cmd, opts, msglen, size, buffer, page, saved>>

ServeGet(p) ==
  /\ pc[p] = "sent"
  /\ cmd[p].prog = "ws_get"
  /\ LET t == Token(p)
     IN  IF Stored(t)
         THEN /\ Answer(p, 200, store[t].block, store[t].by)
              /\ store' = [e \in DOMAIN store \ (IF settings.bar THEN {t} ELSE {}) |-> store[e]]
         ELSE Answer(p, 404, <<>>, p) /\ UNCHANGED store
  /\ UNCHANGED <<settings, disk, cmd, opts, msglen, size, buffer, page, saved>>

(* Its text is not modelled.                                                *)
ServeConfig(p) ==
  /\ pc[p] = "sent"
  /\ cmd[p].prog = "ws_cfg"
  /\ Answer(p, 200, <<>>, p)
  /\ UNCHANGED <<settings, store, disk, cmd, opts, msglen, size, buffer, page, saved>>

-----------------------------------------------------------------------------
(* curl_ops.c                                                               *)

Least(a, b) == IF a < b THEN a ELSE b

(* ws_get is handed its block piece by piece.                               *)
save_response(p) ==
  /\ pc[p] = "answer"
  /\ cmd[p].prog = "ws_get"
  /\ Len(page[p]) < Len(block[p])
  /\ page' = [page EXCEPT ![p] = SubSeq(block[p], 1, Least(Len(block[p]), Len(page[p]) + PieceSize))]
  /\ UNCHANGED <<settings, store, disk, pc, cmd, opts, msglen, size, buffer, block, code, poster, saved>>

(* Variant, to see ServedWhole fail: what has come is looked at all the     *)
(* same.                                                                    *)
PerformFails_KeepsPage(p) ==
  /\ pc[p] \in {"sent", "answer"}
  /\ Goto(p, IF page[p] # <<>> THEN "page" ELSE "failed")
  /\ UNCHANGED <<settings, store, disk, cmd, opts, msglen, size, buffer, block, page, code, poster, saved>>

(* The connection breaks, before or after the request reached the server.   *)
PerformFails(p) ==
  /\ pc[p] \in {"sent", "answer"}
  /\ page' = [page EXCEPT ![p] = <<>>]
  /\ Goto(p, "failed")
  /\ UNCHANGED <<settings, store, disk, cmd, opts, msglen, size, buffer, block, code, poster, saved>>

(* Variant, to see TokenIsStored fail: any answer is a success.             *)
Answered_AnyCode(p) ==
  /\ pc[p] = "answer"
  /\ cmd[p].prog = "ws_get" => page[p] = block[p]
  /\ Goto(p, IF cmd[p].prog = "ws_get" /\ code[p] = 200 THEN "page" ELSE "done")
  /\ UNCHANGED <<settings, store, disk, cmd, opts, msglen, size, buffer, block, page, code, poster, saved>>

(* ws_post prints its token if it is "done".                                *)
Answered(p) ==
  /\ pc[p] = "answer"
  /\ cmd[p].prog = "ws_get" => page[p] = block[p]
  /\ Goto(p, IF code[p] # 200 THEN "failed"
             ELSE IF cmd[p].prog = "ws_get" THEN "page" ELSE "done")
  /\ UNCHANGED <<settings, store, disk, cmd, opts, msglen, size, buffer, block, page, code, poster, saved>>

-----------------------------------------------------------------------------
(* handle_page                                                              *)

LooksSquashed(m) == Len(m) > 6 /\ SubSeq(m, 1, 2) = ZlibHeader

(* mza_restore: only a pack can be inflated, into a buffer of ten times its *)
(* size.                                                                    *)
Restored(pack) ==
  {m \in DOMAIN Squash : Squash[m] = pack /\ Len(m) <= RestoreFactor * Len(pack)}

(* printf("%s") ends at the first NUL.                                      *)
Printed(m) == SubSeq(m, 1, SelectInSeq(Append(m, 0), LAMBDA b : b = 0) - 1)

Written(p, m) == IF IsSet(opts[p], "file") THEN m ELSE Printed(m)

(* A failure here is reported and the exit is 0 all the same; the           *)
(* assertions of the decoder end the program.                               *)
handle_page(p) ==
  /\ pc[p] = "page"
  /\ IF ~Decodable(page[p])
     THEN Goto(p, "aborted") /\ UNCHANGED saved
     ELSE LET m == Z85_decode_with_padding(page[p])
          IN  /\ Goto(p, "done")
              /\ IF ~LooksSquashed(m)
                 THEN saved' = [saved EXCEPT ![p] = Written(p, m)]
                 ELSE IF Restored(m) = {}
                 THEN UNCHANGED saved
                 ELSE \E n \in Restored(m) : saved' = [saved EXCEPT ![p] = Written(p, n)]
  /\ UNCHANGED <<settings, store, disk, cmd, opts, msglen, size, buffer, block, page, code, poster>>

-----------------------------------------------------------------------------
Client(p) ==
  \/ parse_args(p) \/ StatFile(p) \/ ReadFile(p) \/ encode_msg(p) \/ RawPost(p) \/ create_url(p)
  \/ save_response(p) \/ PerformFails(p) \/ Answered(p) \/ handle_page(p)

Server(p) == ServePost(p) \/ ServeGet(p) \/ ServeConfig(p)

Next ==
  \/ \E p \in Run : Client(p) \/ Server(p)
  \/ \E f \in DOMAIN Contents : Edit(f)

Spec == Init /\ [][Next]_vars

-----------------------------------------------------------------------------
(* A run of ws_get that was given, to the end, what a run of ws_post had    *)
(* posted.                                                                  *)
GotPosted(g) ==
  /\ cmd[g].prog = "ws_get"
  /\ pc[g] \in {"done", "aborted"}
  /\ page[g] # <<>>
  /\ cmd[poster[g]].prog = "ws_post"

(* What becomes of the message that it was given: with two exceptions it is *)
(* what ws_post read.  A message that looks like a pack and was posted as   *)
(* it is is inflated, or lost if it cannot be; one that was squashed to     *)
(* less than a tenth is lost.                                               *)
Rendered(g) ==
  LET m    == Message(poster[g])
      sent == Content(poster[g])
  IN  /\ pc[g] = "done"
      /\ \/ saved[g] = Written(g, m)
         \/ sent = m /\ Len(m) > 6 /\ SubSeq(m, 1, 2) = ZlibHeader
         \/ sent # m /\ Len(m) > RestoreFactor * Len(sent) /\ saved[g] = <<>>

-----------------------------------------------------------------------------
(* Why the properties below hold: the inductive invariant.                  *)

Labels == Ended \cup {"start", "stat", "read", "encode", "request", "sent", "answer", "page"}

StoreType ==
  /\ store = [t \in DOMAIN store |-> store[t]]
  /\ \A t \in DOMAIN store :
       /\ store[t] \in [block : Seq(Digit), by : Run]
       /\ Len(store[t].block) \in MinPost..MaxPost

TypeInv ==
  /\ settings \in Settings /\ cmd \in Scenarios
  /\ StoreType
  /\ disk \in [DOMAIN Contents -> Seq(Byte)]
  /\ \A f \in DOMAIN Contents : \E i \in DOMAIN Contents[f] : disk[f] = Contents[f][i]
  /\ pc \in [Run -> Labels]
  /\ opts = [p \in Run |-> opts[p]]
  /\ msglen \in [Run -> Nat] /\ size \in [Run -> Nat]
  /\ buffer \in [Run -> Seq(Byte)] /\ saved \in [Run -> Seq(Byte)]
  /\ block \in [Run -> Seq(Digit)] /\ page \in [Run -> Seq(Digit)]
  /\ code \in [Run -> {0, 200, 304, 400, 404}]
  /\ poster \in [Run -> Run]

(* What a run has asked of the server does not change any more.             *)
Settled(p) == pc[p] \notin {"start", "stat", "read", "encode"}

(* The buffer holds what msglen says.                                       *)
Whole(p) == msglen[p] \in 1..Len(buffer[p])

(* The buffer that ws_post fills, and the block that it makes of it.        *)
SenderInv(p) ==
  /\ pc[p] \in {"stat", "read", "encode", "overrun"} =>
       cmd[p].prog = "ws_post" /\ msglen[p] >= 1
  /\ pc[p] \in {"stat", "read"} =>
       IsSet(opts[p], "file") /\ ArgOf(opts[p], "file") \in DOMAIN Contents
  /\ pc[p] \in {"encode", "overrun"} =>
       Len(buffer[p]) = 1 + (IF IsSet(opts[p], "file") THEN size[p] ELSE msglen[p])
  /\ pc[p] = "overrun" => msglen[p] > Len(buffer[p])
  /\ pc[p] \in {"request", "sent", "answer"} /\ cmd[p].prog = "ws_post" =>
       Whole(p) /\ block[p] = Z85_encode_with_padding(Content(p))

(* The answer that ws_get has come to hold.                                 *)
ReaderInv(g) ==
  /\ pc[g] \notin {"answer", "page", "done", "aborted"} \/ cmd[g].prog # "ws_get" => page[g] = <<>>
  /\ pc[g] \notin {"answer", "page", "done", "aborted", "failed"} => code[g] = 0
  /\ pc[g] = "answer" => page[g] = SubSeq(block[g], 1, Len(page[g]))
  /\ pc[g] = "answer" /\ cmd[g].prog = "ws_get" /\ code[g] # 200 => block[g] = <<>>
  /\ pc[g] \in {"page", "aborted"} \/ (pc[g] = "done" /\ page[g] # <<>>) =>
       cmd[g].prog = "ws_get" /\ page[g] = block[g] /\ code[g] = 200
  /\ pc[g] # "done" \/ page[g] = <<>> => saved[g] = <<>>
  /\ pc[g] \in {"answer", "page", "done", "aborted"} /\ cmd[g].prog = "ws_get" /\ code[g] = 200 =>
       Len(block[g]) >= MinPost

(* A block that ws_post made of what it read.                               *)
MadeBy(b, p) ==
  cmd[p].prog = "ws_post" =>
    Settled(p) /\ Whole(p) /\ b = Z85_encode_with_padding(Content(p))

StoreInv == \A t \in DOMAIN store : MadeBy(store[t].block, store[t].by)

(* What ws_get holds was made by whoever posted it, and what it makes of it *)
(* is the message, but for the known losses.                                *)
GetInv(g) ==
  /\ cmd[g].prog = "ws_get" /\ pc[g] \in {"answer", "page", "done", "aborted"} /\ code[g] = 200 =>
       MadeBy(block[g], poster[g])
  /\ GotPosted(g) => Rendered(g)

(* An answer of 200 means that the message is there, and that it stays if   *)
(* nobody may change it.                                                    *)
Accepted(p) ==
  /\ cmd[p].prog = "ws_post"
  /\ (pc[p] = "answer" /\ code[p] = 200) \/ (pc[p] = "done" /\ ~IsUsage(opts[p]))

KeptInv(p) ==
  Accepted(p) =>
    /\ Len(block[p]) <= MaxPost
    /\ settings.immutable /\ ~settings.bar =>
         Stored(Token(p)) /\ store[Token(p)].by = p

IInv ==
  /\ TypeInv /\ StoreInv
  /\ \A p \in Run : SenderInv(p) /\ ReaderInv(p) /\ GetInv(p) /\ KeptInv(p)

-----------------------------------------------------------------------------
(* Every variable keeps its type.                                           *)
TypeOK ==
  /\ settings \in Settings
  /\ \A t \in DOMAIN store : Len(store[t].block) \in MinPost..MaxPost /\ store[t].by \in Run
  /\ \A f \in DOMAIN Contents : \E i \in DOMAIN Contents[f] : disk[f] = Contents[f][i]
  /\ cmd \in Scenarios
  /\ \A p \in Run :
       /\ pc[p] \in Ended \cup {"start", "stat", "read", "encode", "request", "sent", "answer", "page"}
       /\ msglen[p] \in Nat /\ size[p] \in Nat
       /\ Len(buffer[p]) \in Nat
       /\ \A i \in DOMAIN block[p] : block[p][i] \in Digit
       /\ page[p] = SubSeq(block[p], 1, Len(page[p]))
       /\ code[p] \in {0, 200, 304, 400, 404}
       /\ poster[p] \in Run
       /\ \A i \in DOMAIN saved[p] : saved[p][i] \in Byte

(* The buffers that ws_post and ws_get allocate hold what is written to     *)
(* them: ws_post reads past its message only if the file got shorter        *)
(* between its two looks at it, a block fits what                           *)
(* Z85_encode_with_padding_bound said, and what ws_get decodes has a group  *)
(* to decode and fits what Z85_decode_with_padding_bound said.              *)
BuffersHold ==
  \A p \in Run :
    /\ pc[p] = "overrun" => IsSet(opts[p], "file") /\ size[p] < msglen[p]
    /\ pc[p] = "request" /\ cmd[p].prog = "ws_post" =>
         Len(block[p]) <= Z85_encode_with_padding_bound(Len(Content(p)))
    /\ pc[p] = "page" /\ Decodable(page[p]) =>
         /\ Len(page[p]) > 5
         /\ Len(Z85_decode_with_padding(page[p])) <= Z85_decode_with_padding_bound(page[p])

(* ws_get writes what ws_post read, with two exceptions: a message that     *)
(* looks like a pack and was posted as it is (it is inflated, or lost if it *)
(* cannot be), and one that was squashed to less than a tenth (it is lost). *)
(* It never trips over the assertions of the decoder.                       *)
OnlyKnownLosses == \A g \in Run : GotPosted(g) => Rendered(g)

(* What ws_get's comment says: it takes the decoded response and saves it   *)
(* to the file or prints it.                                                *)
ReadBack ==
  \A g \in Run : GotPosted(g) => saved[g] = Written(g, Message(poster[g]))

(* A token that ws_post printed is one under which the server has its       *)
(* message, and keeps it if messages are immutable and not burnt, whoever   *)
(* else posts to that token.                                                *)
TokenIsStored ==
  \A p \in Run :
    (cmd[p].prog = "ws_post" /\ pc[p] = "done" /\ ~IsUsage(opts[p])) =>
      /\ Len(block[p]) <= MaxPost
      /\ settings.immutable /\ ~settings.bar =>
           Stored(Token(p)) /\ store[Token(p)].by = p

(* ws_get decodes whole answers only, however they arrive and whenever the  *)
(* connection breaks: what it has of a block that broke off is never        *)
(* written.                                                                 *)
ServedWhole ==
  \A g \in Run :
    pc[g] = "aborted" \/ saved[g] # <<>> => page[g] = block[g] /\ code[g] = 200
=============================================================================
