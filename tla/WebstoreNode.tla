---------------------------- MODULE WebstoreNode ----------------------------
(***************************************************************************)
(* The store: the node handlers of src/src/webstore_node.c (GET and POST   *)
(* under /store/128/ ... /store/512/), run by the threads of               *)
(* libmicrohttpd over the shared redis context of rai.c, and the life of   *)
(* the process around them: the error path of handle_redis_error, the main *)
(* loop, webstore_stop, a crash at any point and a restart.                *)
(*                                                                         *)
(* One HTTP connection has one thread when the server is multithreaded.    *)
(* Otherwise all handlers run on one thread, one after the other.          *)
(***************************************************************************)
EXTENDS Rai

CONSTANTS
  Nodes,       \* the six store nodes, or some of them
  HashLen,     \* HASHLEN128 ... HASHLEN512, by node
  Urls,        \* what follows the node's prefix in a request
  UrlLen,      \* the length of each
  ConvertHash, \* its lower-case hash, or NotHex: convert_hash
  NotHex,
  Bodies,      \* what a POST uploads; a body that is stored is a redis string
  DataLen,     \* the length of each
  IsZ85,       \* the bodies made of Z85 digits: Z85_validate
  NoReq,       \* a handler that does not talk to redis
  Settings,    \* the values of g_rt the process may be configured with
  MayFail      \* the failures of the run: a subset of
               \* {"break", "refuse", "crash"}

ASSUME NodeAssumption ==
  /\ HashLen \in [Nodes -> Nat]
  /\ UrlLen \in [Urls -> Nat]
  /\ ConvertHash \in [Urls -> Keys \cup {NotHex}]
  /\ NotHex \notin Keys
  /\ DataLen \in [Bodies -> Nat]
  /\ IsZ85 \in [Bodies -> BOOLEAN]
  /\ {b \in Bodies : DataLen[b] >= 5 /\ IsZ85[b]} \subseteq Vals
  /\ Settings \subseteq [multithreaded: BOOLEAN, immutable: BOOLEAN,
                         bar: BOOLEAN, expiration: Nat]

(* wsreq_t of a request that passed the checks.                             *)
Request == [kind: {"GET", "POST"}, key: Keys, val: Vals \cup {NoVal}]

ASSUME NoReqAssumption == NoReq \notin Request

VARIABLES
  rt,        \* g_rt, as configured; a restart keeps the configuration
  shutdown,  \* g_shutdown (g_redis_error is only ever set together with it)
  mainpc,    \* the main thread: "run", "stopping" (in MHD_stop_daemon),
             \* "joined" (the daemon has stopped), "exited"
  pc,        \* where the handler of each connection is
  req,       \* its request
  res,       \* its status code and the page it has read
  served     \* history: what GETs have been handed of the message now or
             \* last stored under each key, whatever processes came and went

handlerVars == <<pc, req, res>>
vars == <<raiVars, rt, shutdown, mainpc, handlerVars, served>>

(* A message is "unread", then "read".  It is "spared" when it was read and *)
(* its DEL may have come to nothing: redis refused the DEL, the process     *)
(* that had read it crashed, or it ended without its connection.  A GET     *)
(* that is handed a spared message makes it "reread"; one that is handed a  *)
(* message that was not spared since it was last read makes it "twice".     *)
History == {"unread", "read", "spared", "reread", "twice"}
Handed  == {"read", "reread"}

Status(code) == [code |-> code, page |-> NoVal]
NoResult     == Status(0)
Codes    == {0, 200, 304, 400, 404, 405, 417, 500, 503}

(* Inside redisCommand, and between the checks and the answer.              *)
Calling  == {"reply", "delreply"}
Busy     == {"cmd", "reply", "del", "delreply", "unlock"}
InHandler == Busy \cup {"lock"}

(* Every variable keeps its type: a request that reaches redis has a key    *)
(* and a message of the model.                                              *)
TypeOK ==
  /\ RaiTypeOK
  /\ rt \in Settings
  /\ shutdown \in BOOLEAN
  /\ mainpc \in {"run", "stopping", "joined", "exited"}
  /\ pc \in [Threads -> InHandler \cup {"idle", "respond", "closed"}]
  /\ req \in [Threads -> Request \cup {NoReq}]
  /\ res \in [Threads -> [code: Codes, page: Vals \cup {NoVal}]]
  /\ served \in [Keys -> History]

Init ==
  /\ RaiInit
  /\ rt \in Settings
  /\ shutdown = FALSE
  /\ mainpc = "run"
  /\ pc = [t \in Threads |-> "idle"]
  /\ req = [t \in Threads |-> NoReq]
  /\ res = [t \in Threads |-> NoResult]
  /\ served = [k \in Keys |-> "unread"]

-----------------------------------------------------------------------------
(* The checks of get() and post() before they call redis.                   *)

GoodUrl(n, u) == UrlLen[u] = HashLen[n] /\ ConvertHash[u] # NotHex

GoodBody(b) == DataLen[b] >= 5 /\ IsZ85[b]

(* The handler answers without a call to redis.                             *)
Finish(t, code) ==
  /\ pc' = [pc EXCEPT ![t] = "respond"]
  /\ res' = [res EXCEPT ![t] = Status(code)]
  /\ UNCHANGED req

Accept(t, r) ==
  /\ pc' = [pc EXCEPT ![t] = "lock"]
  /\ req' = [req EXCEPT ![t] = r]
  /\ UNCHANGED res

(* Variant, to see TypeOK fail: the token is the url as it was received.    *)
get_UrlAsToken(t, n, u) ==
  IF GoodUrl(n, u)
  THEN Accept(t, [kind |-> "GET", key |-> u, val |-> NoVal])
  ELSE Finish(t, 400)

get(t, n, u) ==
  IF GoodUrl(n, u)
  THEN Accept(t, [kind |-> "GET", key |-> ConvertHash[u], val |-> NoVal])
  ELSE Finish(t, 400)

post(t, n, u, b) ==
  IF GoodUrl(n, u) /\ GoodBody(b)
  THEN Accept(t, [kind |-> "POST", key |-> ConvertHash[u], val |-> b])
  ELSE Finish(t, 400)

(* A connection's thread may run a handler; without threads only one does. *)
MayRun(t) ==
  /\ pc[t] = "idle"
  /\ rt.multithreaded \/ \A u \in Threads : pc[u] \notin InHandler
  /\ mainpc \in {"run", "stopping"}

(* node128 ... node512                                                      *)
EnterNode(t) ==
  /\ MayRun(t)
  /\ \/ shutdown /\ Finish(t, 503)
     \/ /\ ~shutdown
        /\ \E n \in Nodes, u \in Urls :
             \/ get(t, n, u)
             \/ \E b \in Bodies : post(t, n, u, b)
             \/ Finish(t, 405)
  /\ UNCHANGED <<raiVars, rt, shutdown, mainpc, served>>

(* nodecfg shows the configuration (200), or says that there is no such     *)
(* option (404), or that it has only GET (405).                             *)
nodecfg(t) ==
  /\ MayRun(t)
  /\ \E code \in {200, 404, 405} : Finish(t, IF shutdown THEN 503 ELSE code)
  /\ UNCHANGED <<raiVars, rt, shutdown, mainpc, served>>

-----------------------------------------------------------------------------
(* The critical section of get() and do_redis_post().                       *)

(* Variant, to see OwnReply fail: no mutex around redisCommand.             *)
LockRai_NoMutex(t) ==
  /\ pc[t] = "lock"
  /\ pc' = [pc EXCEPT ![t] = "cmd"]
  /\ UNCHANGED <<raiVars, rt, shutdown, mainpc, req, res, served>>

LockRai(t) ==
  /\ pc[t] = "lock"
  /\ IF rt.multithreaded THEN rai_lock(t) ELSE UNCHANGED owner
  /\ pc' = [pc EXCEPT ![t] = "cmd"]
  /\ UNCHANGED <<db, ctx, link, wire, orphans, rt, shutdown, mainpc, req, res, served>>

(* Variant, to see ImmutableStable and ImplementsStore fail: NX is left out *)
(* when there is an expiration too.                                         *)
CommandOf_NXOrEX(r) ==
  IF r.kind = "GET" THEN Get(r.key)
  ELSE Set(r.key, r.val, rt.expiration, rt.immutable /\ rt.expiration = 0)

CommandOf(r) ==
  IF r.kind = "GET" THEN Get(r.key)
                    ELSE Set(r.key, r.val, rt.expiration, rt.immutable)

SendCmd(t) ==
  /\ pc[t] = "cmd"
  /\ Send(t, CommandOf(req[t]))
  /\ pc' = [pc EXCEPT ![t] = "reply"]
  /\ UNCHANGED <<db, owner, ctx, link, orphans, rt, shutdown, mainpc, req, res, served>>

GetResult(r) ==
  IF r.type = "STRING" THEN [code |-> 200, page |-> r.val]
                       ELSE Status(404)

(* Variant, to see ImplementsStore fail: an error reply is not looked at.   *)
PostResult_NoErrors(r) ==
  Status(IF r.type = "NIL" THEN 304 ELSE 200)

PostResult(r) ==
  Status(CASE r.type = "ERROR"  -> 417
           [] r.type = "NIL"    -> 304
           [] r.type = "STATUS" -> 200
           [] OTHER             -> 500)

ResultOf(q, r) == IF q.kind = "GET" THEN GetResult(r) ELSE PostResult(r)

HandedOut(k) ==
  [served EXCEPT ![k] = CASE @ = "unread" -> "read"
                          [] @ = "spared" -> "reread"
                          [] OTHER        -> "twice"]

Spared(ks) ==
  [k \in Keys |-> IF k \in ks /\ served[k] \in Handed THEN "spared" ELSE served[k]]

(* Variant, to see RereadOnlyIfSpared fail: the mutex is released before    *)
(* the message is deleted.                                                  *)
TakeReply_Unlocks(t) ==
  /\ pc[t] = "reply"
  /\ Receive
  /\ LET result == ResultOf(req[t], Head(wire).reply)
         read   == result.page # NoVal
     IN  /\ res' = [res EXCEPT ![t] = result]
         /\ pc' = [pc EXCEPT ![t] = IF read /\ rt.bar THEN "del" ELSE "unlock"]
         /\ served' = IF read THEN HandedOut(req[t].key) ELSE served
         /\ owner' = IF read /\ rt.bar THEN NoOwner ELSE owner
  /\ UNCHANGED <<db, ctx, link, orphans, rt, shutdown, mainpc, req>>

(* get() deletes the message only if it has a page in its hands.            *)
TakeReply(t) ==
  /\ pc[t] = "reply"
  /\ Receive
  /\ LET result == ResultOf(req[t], Head(wire).reply)
         read   == result.page # NoVal
     IN  /\ res' = [res EXCEPT ![t] = result]
         /\ pc' = [pc EXCEPT ![t] = IF read /\ rt.bar THEN "del" ELSE "unlock"]
         /\ served' = IF read THEN HandedOut(req[t].key) ELSE served
  /\ UNCHANGED <<db, owner, ctx, link, orphans, rt, shutdown, mainpc, req>>

(* The reply is NULL: handle_redis_error, then 503.                         *)
ReplyLost(t) ==
  /\ pc[t] = "reply"
  /\ ReceiveNull
  /\ shutdown' = TRUE
  /\ res' = [res EXCEPT ![t] = Status(503)]
  /\ pc' = [pc EXCEPT ![t] = "unlock"]
  /\ UNCHANGED <<db, owner, link, wire, orphans, rt, mainpc, req, served>>

(* do_redis_del looks at neither a NULL reply nor an error reply.           *)
SendDel(t) ==
  /\ pc[t] = "del"
  /\ Send(t, Del(req[t].key))
  /\ pc' = [pc EXCEPT ![t] = "delreply"]
  /\ UNCHANGED <<db, owner, ctx, link, orphans, rt, shutdown, mainpc, req, res, served>>

DelReply(t) ==
  /\ pc[t] = "delreply"
  /\ Receive
  /\ pc' = [pc EXCEPT ![t] = "unlock"]
  /\ served' = IF Head(wire).reply.type = "ERROR" THEN Spared({req[t].key}) ELSE served
  /\ UNCHANGED <<db, owner, ctx, link, orphans, rt, shutdown, mainpc, req, res>>

(* Variant, to see RereadOnlyIfSpared fail: the context reconnects and the  *)
(* lost DEL is not sent again.                                              *)
DelLost_Reconnects(t) ==
  /\ pc[t] = "delreply"
  /\ ~Alive
  /\ ctx' = "ok"
  /\ link' = "up"
  /\ pc' = [pc EXCEPT ![t] = "unlock"]
  /\ UNCHANGED <<db, owner, wire, orphans, rt, shutdown, mainpc, req, res, served>>

DelLost(t) ==
  /\ pc[t] = "delreply"
  /\ ReceiveNull
  /\ pc' = [pc EXCEPT ![t] = "unlock"]
  /\ UNCHANGED <<db, owner, link, wire, orphans, rt, shutdown, mainpc, req, res, served>>

UnlockRai(t) ==
  /\ pc[t] = "unlock"
  /\ IF rt.multithreaded THEN rai_unlock(t) ELSE UNCHANGED owner
  /\ pc' = [pc EXCEPT ![t] = "respond"]
  /\ UNCHANGED <<db, ctx, link, wire, orphans, rt, shutdown, mainpc, req, res, served>>

(* libmicrohttpd sends the response and keeps the connection for the next  *)
(* request, unless the daemon is being stopped.                             *)
Respond(t) ==
  /\ pc[t] = "respond"
  /\ pc' = [pc EXCEPT ![t] = IF mainpc = "stopping" THEN "closed" ELSE "idle"]
  /\ req' = [req EXCEPT ![t] = NoReq]
  /\ res' = [res EXCEPT ![t] = NoResult]
  /\ UNCHANGED <<raiVars, rt, shutdown, mainpc, served>>

CloseIdle(t) ==
  /\ mainpc = "stopping"
  /\ pc[t] = "idle"
  /\ pc' = [pc EXCEPT ![t] = "closed"]
  /\ UNCHANGED <<raiVars, rt, shutdown, mainpc, req, res, served>>

Step(t) ==
  \/ LockRai(t)
  \/ SendCmd(t)
  \/ TakeReply(t)
  \/ ReplyLost(t)
  \/ SendDel(t)
  \/ DelReply(t)
  \/ DelLost(t)
  \/ UnlockRai(t)
  \/ Respond(t)
  \/ CloseIdle(t)

-----------------------------------------------------------------------------
(* redis and the network.                                                   *)

(* A SET that takes effect stores a message nobody has read.                *)
Fresh(c) == IF SetApplies(db, c) THEN [served EXCEPT ![c.key] = "unread"] ELSE served

processVars == <<rt, shutdown, mainpc, handlerVars>>

Execute ==
  \E i \in 1..Len(wire) :
    /\ RedisExecutes(i)
    /\ served' = Fresh(wire[i].cmd)
    /\ UNCHANGED processVars

Refuse ==
  /\ "refuse" \in MayFail
  /\ \E i \in 1..Len(wire) : RedisRefuses(i)
  /\ UNCHANGED <<processVars, served>>

Break ==
  /\ "break" \in MayFail
  /\ ConnectionBreaks
  /\ UNCHANGED <<processVars, served>>

OrphanRuns ==
  \E c \in orphans :
    /\ \/ OrphanExecutes(c) /\ served' = Fresh(c)
       \/ OrphanIsLost(c) /\ UNCHANGED served
    /\ UNCHANGED processVars

Expire ==
  /\ \E k \in Keys : KeyExpires(k)
  /\ UNCHANGED <<processVars, served>>

-----------------------------------------------------------------------------
(* The main thread.                                                         *)

(* SIGINT, SIGTERM, SIGQUIT or SIGHUP: sig_handler.                         *)
Signal ==
  /\ mainpc = "run"
  /\ ~shutdown
  /\ shutdown' = TRUE
  /\ UNCHANGED <<raiVars, rt, mainpc, handlerVars, served>>

(* The wait loop ends and webstore_stop calls searest_stop.                 *)
LeaveMainLoop ==
  /\ mainpc = "run"
  /\ shutdown
  /\ mainpc' = "stopping"
  /\ UNCHANGED <<raiVars, rt, shutdown, handlerVars, served>>

(* MHD_stop_daemon returns when it has joined every thread.                 *)
DaemonStopped ==
  /\ mainpc = "stopping"
  /\ \A t \in Threads : pc[t] = "closed"
  /\ mainpc' = "joined"
  /\ UNCHANGED <<raiVars, rt, shutdown, handlerVars, served>>

(* The rest of webstore_stop, and main returns.                             *)
Disconnect ==
  /\ mainpc = "joined"
  /\ rai_disconnect
  /\ mainpc' = "exited"
  /\ served' = IF ctx = "err" THEN Spared(Keys) ELSE served
  /\ UNCHANGED <<rt, shutdown, handlerVars>>

MainStep == LeaveMainLoop \/ DaemonStopped \/ Disconnect

Crash ==
  /\ "crash" \in MayFail
  /\ mainpc # "exited"
  /\ RaiCrash
  /\ shutdown' = TRUE
  /\ mainpc' = "exited"
  /\ pc' = [t \in Threads |-> "closed"]
  /\ req' = [t \in Threads |-> NoReq]
  /\ res' = [t \in Threads |-> NoResult]
  /\ served' = Spared(Keys)
  /\ UNCHANGED rt

(* The accepting thread, which calls redis on the same context (allow_ip),  *)
(* finds the connection gone: handle_redis_error.                           *)
LossFoundElsewhere ==
  /\ mainpc \in {"run", "stopping"}
  /\ ReceiveNull
  /\ shutdown' = TRUE
  /\ UNCHANGED <<db, owner, link, wire, orphans, rt, mainpc, handlerVars, served>>

(* webstore_start in a new process.                                         *)
Restart ==
  /\ mainpc = "exited"
  /\ rai_connect
  /\ shutdown' = FALSE
  /\ mainpc' = "run"
  /\ pc' = [t \in Threads |-> "idle"]
  /\ UNCHANGED <<rt, req, res, served>>

Environment ==
  \/ Execute \/ Refuse \/ Break \/ OrphanRuns \/ Expire
  \/ Signal \/ LossFoundElsewhere \/ Crash \/ Restart

Next ==
  \/ \E t \in Threads : EnterNode(t) \/ nodecfg(t) \/ Step(t)
  \/ MainStep
  \/ Environment

Spec == Init /\ [][Next]_vars

-----------------------------------------------------------------------------
(* Safety.                                                                  *)

(* Every thread that waits inside redisCommand is the one whose command is  *)
(* at the head of the shared connection: no handler ever answers a request  *)
(* with the reply to somebody else's (the mutex around redisCommand in      *)
(* get() and do_redis_post(), and the single thread without it).            *)
OwnReply ==
  \A t \in Threads : pc[t] \in Calling /\ wire # <<>> => Head(wire).by = t

(* Once MHD_stop_daemon has returned no handler is left inside the critical *)
(* section, nobody holds the mutex that rai_disconnect takes, and           *)
(* nothing is waiting for a reply; and no handler ever uses the context     *)
(* after rai_disconnect has freed it.                                       *)
QuietAtDisconnect ==
  /\ mainpc \in {"joined", "exited"} =>
       owner = NoOwner /\ wire = <<>> /\ \A t \in Threads : pc[t] = "closed"
  /\ ctx = "none" => \A t \in Threads : pc[t] \notin InHandler

(* IMMUTABLE: a stored message is never replaced by another one, whatever   *)
(* handlers interleave, and also not by a write of a process that is gone;  *)
(* it can only disappear (do_redis_post with NX).                           *)
ImmutableStable ==
  [][rt.immutable =>
       \A k \in Keys : Exists(db, k) /\ Exists(db', k) => db'[k] = db[k]]_vars

(* BAR, as the README has it ("a flag that will allow only 1 GET per        *)
(* message", README.md:86): no message is ever handed to two GETs.          *)
OneGetPerMessage ==
  rt.bar => \A k \in Keys : served[k] \notin {"reread", "twice"}

(* BAR, as it is: of several hand-outs of one message, each but the first   *)
(* has a failure of its own before it, after the hand-out before: a DEL     *)
(* that redis refused, or the end of the process that had read it, by a     *)
(* crash or over a lost connection.  Racing GETs never both get it, and nor *)
(* does the server that lost the DEL hand it out again: its context stays   *)
(* in error, so that no later GET is answered (get(), do_redis_del).        *)
RereadOnlyIfSpared ==
  rt.bar => \A k \in Keys : served[k] # "twice"

-----------------------------------------------------------------------------
(* Why they hold: the inductive invariant.                                  *)

(* A handler past its checks has a request, and a POST a message.           *)
RequestInv ==
  \A t \in Threads :
    /\ pc[t] \in InHandler =>
         req[t] \in Request /\ (req[t].kind = "POST" => req[t].val \in Vals)
    /\ pc[t] \in {"del", "delreply"} => req[t].kind = "GET"

(* With threads the mutex keeps the critical sections apart; without, there *)
(* is one handler at a time.                                                *)
MutexInv ==
  /\ rt.multithreaded =>
       /\ \A t \in Threads : pc[t] \in Busy => owner = t
       /\ owner # NoOwner => pc[owner] \in Busy
  /\ ~rt.multithreaded =>
       /\ \A t, u \in Threads : pc[t] \in InHandler /\ pc[u] \in InHandler => t = u
       /\ owner = NoOwner

(* What a thread inside redisCommand has sent.                              *)
Issued(t) == IF pc[t] = "reply" THEN CommandOf(req[t]) ELSE Del(req[t].key)

(* At most one command is on the wire: that of a thread waiting for it.     *)
WireInv ==
  \/ wire = <<>>
  \/ /\ Len(wire) = 1
     /\ Alive
     /\ pc[wire[1].by] \in Calling
     /\ wire[1].cmd = Issued(wire[1].by)

(* The writes in redis' input are ones the handlers send.                   *)
OrphanInv ==
  \A c \in orphans :
    c.op \in {"SET", "DEL"} /\ (c.op = "SET" => c.val \in Vals /\ c.nx = rt.immutable)

(* The threads end before the context does.                                 *)
StopInv ==
  /\ mainpc \in {"joined", "exited"} => \A t \in Threads : pc[t] = "closed"
  /\ ctx = "none" <=> mainpc = "exited"

IInv == TypeOK /\ RequestInv /\ MutexInv /\ WireInv /\ OrphanInv /\ StopInv

(* The DEL for k is still to be sent, or on the wire and not executed, or   *)
(* lost together with the connection; or its refusal is yet to be read.     *)
Undone == Answered => Head(wire).reply.type = "ERROR"

DelOutstanding(k) ==
  \E t \in Threads :
    /\ \/ pc[t] = "del"
       \/ pc[t] = "delreply" /\ (Alive => wire # <<>> /\ Undone)
    /\ req[t].key = k

(* A message that was read and is still there, and was not spared: its DEL  *)
(* is outstanding, or the context is in error and no later GET is answered. *)
(* A message with which redis has answered a GET is unread or was spared.   *)
BurnInv ==
  rt.bar => \A k \in Keys :
    /\ served[k] # "twice"
    /\ served[k] \in Handed /\ Exists(db, k) => ctx = "err" \/ DelOutstanding(k)
    /\ Answered /\ Head(wire).cmd = Get(k) /\ Head(wire).reply.type = "STRING" =>
         served[k] \notin Handed

-----------------------------------------------------------------------------
(* The store the handlers implement.  A request is open until redis has     *)
(* executed its command and is answered from then on.  When nothing fails a *)
(* GET that burns is answered at the moment its message is gone.            *)

Faulty == MayFail # {}

Replied(t) == pc[t] = "reply" /\ Alive /\ Answered

ReplyNow(t) == ResultOf(req[t], Head(wire).reply)

Burning(t) ==
  rt.bar /\ \/ Replied(t) /\ ReplyNow(t).page # NoVal
            \/ pc[t] = "del"
            \/ pc[t] = "delreply" /\ Alive /\ ~Answered

NotYet(t) ==
  \/ pc[t] \in {"lock", "cmd"}
  \/ pc[t] = "reply" /\ Alive /\ ~Answered
  \/ ~Faulty /\ Burning(t) /\ Exists(db, req[t].key)

AnswerOf(t) ==
  IF Replied(t) THEN ReplyNow(t)
  ELSE IF pc[t] = "reply" THEN Status(503)
  ELSE res[t]

OpOf(t) ==
  IF req[t] = NoReq
  THEN [st |-> "idle", req |-> NoReq, code |-> 0, page |-> NoVal]
  ELSE IF NotYet(t)
  THEN [st |-> "open", req |-> req[t], code |-> 0, page |-> NoVal]
  ELSE [st |-> "done", req |-> req[t], code |-> AnswerOf(t).code, page |-> AnswerOf(t).page]

LimboOf ==
  IF ~Faulty THEN {} ELSE
    {[key |-> c.key,
      entry |-> IF c.op = "DEL" THEN NoEntry ELSE [val |-> c.val, ttl |-> c.ttl]]
       : c \in orphans}
    \cup {[key |-> req[t].key, entry |-> NoEntry] : t \in {u \in Threads : Burning(u)}}

Store == INSTANCE MessageStore WITH
           Clients <- Threads, store <- db, limbo <- LimboOf,
           op <- [t \in Threads |-> OpOf(t)]

(* Every behaviour of the handlers is one of the store: each POST and GET   *)
(* takes effect once, between its request and its answer, and answers what  *)
(* the store held then (get(), do_redis_post() and do_redis_del together).  *)
ImplementsStore == Store!Spec

(* Why it does.  A connection at rest has no request, and only a server that *)
(* burns sends a DEL; without failures the server has its connection to     *)
(* redis and nothing is left in redis' input; and the page of a GET that    *)
(* burns is the message that is still there.                                *)
RestInv ==
  \A t \in Threads :
    /\ pc[t] \in {"idle", "closed"} => req[t] = NoReq
    /\ pc[t] \in {"del", "delreply"} => rt.bar

ReliableInv == ~Faulty => orphans = {} /\ (mainpc # "exited" => Alive)

PageInv ==
  ~Faulty => \A t \in Threads : Burning(t) /\ Exists(db, req[t].key) =>
    AnswerOf(t) = [code |-> 200, page |-> db[req[t].key].val]

StoreInv == RestInv /\ ReliableInv /\ PageInv
=============================================================================
