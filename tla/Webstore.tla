------------------------------ MODULE Webstore ------------------------------
(***************************************************************************)
(* The whole server: the node handlers (WebstoreNode) and the thread that  *)
(* accepts connections (AllowIp) over ONE redis context, one mutex and one *)
(* g_shutdown.  The listener takes the mutex like every handler,           *)
(* runs on the handlers' thread when the server has only one, is joined by *)
(* MHD_stop_daemon with the others, and ends the server when it is the one *)
(* that finds redis gone.  Tokens and the limiter's IPS: keys live in one  *)
(* database, under one clock.                                              *)
(***************************************************************************)
EXTENDS Integers, Sequences, FiniteSets

CONSTANTS
  Handlers,    \* the threads of the connections
  Listener,    \* the accepting thread
  Tokens, Messages, Addresses, Localhost,
  ReqPeriod, ReqCount,
  NoVal, NoEntry, NoOwner, Pending, NoReq, NotHex,
  Nodes, HashLen, Urls, UrlLen, ConvertHash, Bodies, DataLen, IsZ85,
  Settings,
  MayFail

ASSUME WebstoreAssumption ==
  /\ Listener \notin Handlers
  /\ NoOwner \notin Handlers \cup {Listener}
  /\ Tokens \cap Addresses = {}     \* a token is hexadecimal, IPS: is not
  /\ Localhost \in Addresses
  /\ ReqPeriod \in Nat
  /\ ConvertHash \in [Urls -> Tokens \cup {NotHex}]
  /\ NotHex \notin Tokens
  /\ {b \in Bodies : DataLen[b] >= 5 /\ IsZ85[b]} \subseteq Messages
  /\ Settings \subseteq [multithreaded: BOOLEAN, immutable: BOOLEAN,
                         bar: BOOLEAN, expiration: Nat]

Keys == Tokens \cup Addresses
Vals == Messages \cup 1..ReqCount

VARIABLES
  db, owner, ctx, link, wire, orphans,       \* Rai
  rt, shutdown, mainpc, pc, req, res, served, \* WebstoreNode
  lpc, ip, retval, found                     \* AllowIp

listenerVars == <<lpc, ip, retval, found>>
handlerVars  == <<rt, mainpc, pc, req, res, served>>
vars == <<db, owner, ctx, link, wire, orphans, shutdown, handlerVars, listenerVars>>

Node == INSTANCE WebstoreNode WITH Threads <- Handlers
Conn == INSTANCE AllowIp WITH Threads <- {Listener}, pc <- lpc,
                              multithreaded <- rt.multithreaded

Init == Node!Init /\ lpc = "idle" /\ Conn!NoDecision

-----------------------------------------------------------------------------
(* Without threads MHD selects: it accepts, or runs a handler to its end.   *)

Enter(t) ==
  /\ rt.multithreaded \/ lpc = "idle"
  /\ Node!EnterNode(t) \/ Node!nodecfg(t)
  /\ UNCHANGED listenerVars

HandlerStep(t) == Node!Step(t) /\ UNCHANGED listenerVars

(* uhd_client_connect                                                       *)
Accept(c) ==
  /\ mainpc = "run"
  /\ rt.multithreaded \/ \A t \in Handlers : pc[t] \notin Node!InHandler
  /\ UNCHANGED handlerVars
  /\ Conn!ws_addr_check(c)

ListenerStep == UNCHANGED handlerVars /\ (Conn!allow_ip \/ Conn!Answer)

-----------------------------------------------------------------------------
Execute == Node!Execute /\ UNCHANGED listenerVars

NetworkStep ==
  /\ Node!Refuse \/ Node!Break \/ Node!OrphanRuns
  /\ UNCHANGED listenerVars

(* The counters of the limiter age by the clock of AllowIp; a message that  *)
(* has a time to live ends at any time.                                     *)
Tick ==
  /\ db' = [k \in Keys |-> IF k \in Addresses THEN Conn!Aged(db[k]) ELSE db[k]]
  /\ UNCHANGED <<owner, ctx, link, wire, orphans, shutdown, handlerVars, listenerVars>>

Expire ==
  /\ \E k \in Tokens : Node!KeyExpires(k)
  /\ UNCHANGED <<shutdown, handlerVars, listenerVars>>

Signal == Node!Signal /\ UNCHANGED listenerVars

(* Variant, to see QuietAtDisconnect fail: the accepting thread is not      *)
(* waited for.                                                              *)
MainStep_NoListenerJoin == Node!MainStep /\ UNCHANGED listenerVars

(* MHD_stop_daemon joins the accepting thread too.                          *)
MainStep ==
  /\ Node!MainStep
  /\ mainpc = "stopping" => lpc = "idle"
  /\ UNCHANGED listenerVars

Crash ==
  /\ Node!Crash
  /\ lpc' = "idle"
  /\ Conn!ForgetDecision

Restart == Node!Restart /\ UNCHANGED listenerVars

Next ==
  \/ \E t \in Handlers : Enter(t) \/ HandlerStep(t)
  \/ \E c \in Addresses \ {Localhost} : Accept(c)
  \/ ListenerStep
  \/ Execute \/ NetworkStep \/ Tick \/ Expire
  \/ Signal \/ MainStep \/ Crash \/ Restart

Spec == Init /\ [][Next]_vars

(* Every thread runs, and redis answers or the connection breaks.  Nobody   *)
(* has to connect, send a request or a signal, and no time has to pass.     *)
FairSpec ==
  /\ Spec
  /\ \A t \in Handlers : WF_vars(HandlerStep(t))
  /\ WF_vars(ListenerStep)
  /\ WF_vars(Execute)
  /\ WF_vars(MainStep)

-----------------------------------------------------------------------------
(* The threads inside redisCommand, and inside the critical section.        *)
Calling ==
  {t \in Handlers : pc[t] \in Node!Calling}
    \cup (IF lpc \in {"getreply", "savereply"} THEN {Listener} ELSE {})

Critical ==
  {t \in Handlers : pc[t] \in Node!Busy}
    \cup (IF lpc \in {"get", "getreply", "save", "savereply", "unlock"}
          THEN {Listener} ELSE {})

(* No two of the handlers and the accepting thread are in the middle of     *)
(* their commands at once, and whoever waits for a reply is the one whose   *)
(* command the reply at the head of the connection belongs to: a handler    *)
(* never takes the count of an address for a message, and allow_ip never    *)
(* decides on a handler's reply (the mutex of get(), do_redis_post() and    *)
(* allow_ip, or the one thread there is).                                   *)
OwnReply ==
  /\ Cardinality(Critical) <= 1
  /\ \A t \in Calling : wire # <<>> => Head(wire).by = t

(* When MHD_stop_daemon has returned, neither a handler nor the accepting   *)
(* thread is in its critical section, or can still enter it, the mutex is   *)
(* free for rai_disconnect and nothing is on the wire; nobody uses the      *)
(* context after it is freed (webstore_stop).                               *)
QuietAtDisconnect ==
  /\ Node!QuietAtDisconnect
  /\ mainpc \in {"joined", "exited"} => lpc = "idle"
  /\ ctx = "none" => Critical = {}

(* BAR, with the limiter on the same connection: a message that was handed  *)
(* out is handed out again only after a failure of its own, a refused DEL   *)
(* or the end of the process in a crash or without its connection; also     *)
(* when the accepting thread's commands come between a lost DEL and the     *)
(* next GET (get(), do_redis_del, allow_ip).                                *)
RereadOnlyIfSpared == Node!RereadOnlyIfSpared

-----------------------------------------------------------------------------
(* Why they hold: the inductive invariant.                                  *)

(* What the threads send: handlers write messages under tokens, allow_ip    *)
(* writes counts under addresses.                                           *)
Reads  == {Node!Get(k) : k \in Keys}
Writes ==
  {Node!Set(k, v, rt.expiration, rt.immutable) : k \in Tokens, v \in Messages}
    \cup {Node!Del(k) : k \in Tokens}
    \cup {Conn!Set(c, 1, ReqPeriod, FALSE) : c \in Addresses}
    \cup {Conn!Incr(c) : c \in Addresses}

Issued(t) ==
  IF t # Listener THEN Node!Issued(t)
  ELSE IF lpc = "getreply" THEN Conn!Get(ip)
  ELSE Conn!CountCommand

(* Tokens hold messages and addresses hold counts.                          *)
DbInv ==
  /\ db \in [Keys -> [val: Messages \cup Nat, ttl: Nat] \cup {NoEntry}]
  /\ \A k \in Tokens : db[k] # NoEntry => db[k].val \in Messages
  /\ \A c \in Addresses : db[c] # NoEntry => db[c].val \in Nat

TypeInv ==
  /\ rt \in Settings
  /\ pc \in [Handlers -> Node!InHandler \cup {"idle", "respond", "closed"}]
  /\ req \in [Handlers -> Node!Request \cup {NoReq}]
  /\ lpc \in {"idle", "lock", "get", "getreply", "save", "savereply", "unlock", "decide"}
  /\ ip \in Addresses
  /\ served \in [Keys -> Node!History]
  /\ \A c \in Addresses : served[c] = "unread"

(* A handler past its checks has a token, and a POST a message.             *)
RequestInv ==
  \A t \in Handlers :
    /\ pc[t] \in Node!InHandler =>
         req[t] \in Node!Request /\ req[t].key \in Tokens
           /\ (req[t].kind = "POST" => req[t].val \in Messages)
    /\ pc[t] \in {"del", "delreply"} => req[t].kind = "GET"

(* The mutex, or the one thread there is, keeps all critical sections apart. *)
MutexInv ==
  /\ rt.multithreaded =>
       /\ \A t \in Critical : owner = t
       /\ owner # NoOwner => owner \in Critical
  /\ ~rt.multithreaded =>
       /\ owner = NoOwner
       /\ \A t, u \in Handlers :
            pc[t] \in Node!InHandler /\ pc[u] \in Node!InHandler => t = u
       /\ lpc # "idle" => \A t \in Handlers : pc[t] \notin Node!InHandler

(* At most one command is on the wire: that of a thread waiting for it.     *)
WireInv ==
  wire # <<>> =>
    /\ wire = <<[by |-> wire[1].by, cmd |-> Issued(wire[1].by), reply |-> wire[1].reply]>>
    /\ wire[1].by \in Calling
    /\ Node!Alive

(* The threads end before the context does.                                 *)
StopInv ==
  /\ mainpc \in {"joined", "exited"} => lpc = "idle" /\ \A t \in Handlers : pc[t] = "closed"
  /\ mainpc \in {"run", "stopping", "joined", "exited"}
  /\ ctx = "none" <=> mainpc = "exited"

IInv ==
  /\ DbInv /\ TypeInv /\ RequestInv /\ MutexInv /\ WireInv /\ StopInv
  /\ orphans \subseteq Writes

-----------------------------------------------------------------------------
(* What the handlers are aware of, the accepting thread left out: its       *)
(* commands, its counters and its hold of the mutex.  It is all that        *)
(* WebstoreNode specifies, so that a token's message is what the handlers   *)
(* make of it, whatever the limiter does on the same connection and in the  *)
(* same database.                                                           *)
TokenDb       == [k \in Tokens |-> db[k]]
TokenServed   == [k \in Tokens |-> served[k]]
TokenOrphans  == {c \in orphans : c.key \in Tokens}
HandlerOwner  == IF owner = Listener THEN NoOwner ELSE owner
HandlerWire   == IF wire # <<>> /\ Head(wire).by = Listener THEN <<>> ELSE wire

Alone == INSTANCE WebstoreNode WITH
           Threads <- Handlers, Keys <- Tokens, Vals <- Messages,
           db <- TokenDb, served <- TokenServed, orphans <- TokenOrphans,
           owner <- HandlerOwner, wire <- HandlerWire

(* What the handlers compare is told apart: a NULL reply from a reply, no   *)
(* message from a message, a key that is not there from one that is.        *)
ASSUME HandlerAssumption ==
  /\ HashLen \in [Nodes -> Nat]
  /\ UrlLen \in [Urls -> Nat]
  /\ DataLen \in [Bodies -> Nat]
  /\ IsZ85 \in [Bodies -> BOOLEAN]
  /\ NoVal \notin Messages
  /\ NoEntry \notin [val: Messages, ttl: Nat]
  /\ Pending \notin Alone!Reply
  /\ NoReq \notin Alone!Request

(* The handlers are not disturbed: the server is, to them, a server without *)
(* a limiter (allow_ip, and the keys that it uses).                         *)
HandlersUndisturbed == Alone!Spec

(* The store the clients see is that of MessageStore.                       *)
ImplementsStore == Alone!ImplementsStore

(* A signal, or a redis loss that a handler or the accepting thread finds,  *)
(* ends the process: the main loop leaves, every thread comes to its end    *)
(* (those past the shutting_down() check too) and the mutex is free to      *)
(* disconnect.                                                              *)
ShutdownCompletes == shutdown ~> mainpc = "exited"

(* A thread that finds its first or its limiter's command unanswered, the   *)
(* connection being gone, takes the whole server down (handle_redis_error): *)
(* a GET or POST from the moment it is past its checks, waiting for the     *)
(* mutex included, and the accepting thread, which then denies the          *)
(* connection.  Only a DEL does not: do_redis_del frees what it gets unseen *)
(* (webstore_node.c:87-92), and a server whose last call was a lost DEL     *)
(* stays up, with a dead connection, until somebody comes again.            *)
RedisLossStops ==
  /\ \A t \in Handlers :
       (pc[t] \in {"lock", "cmd", "reply"} /\ ~Node!Alive) ~> mainpc = "exited"
  /\ (lpc \in {"lock", "get", "getreply", "save", "savereply"} /\ ~Node!Alive)
       ~> mainpc = "exited"
=============================================================================
