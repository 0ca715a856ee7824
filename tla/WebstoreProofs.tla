--------------------------- MODULE WebstoreProofs ---------------------------
(***************************************************************************)
(* Proofs about Webstore: handlers and the accepting thread over one redis *)
(* context, for any number of connections, tokens and addresses, every     *)
(* configuration, and failures at any point.                               *)
(***************************************************************************)
EXTENDS Webstore, FiniteSetTheorems, TLAPS

-----------------------------------------------------------------------------
(* The steps of a handler and of the accepting thread, by name.             *)

HandlerAt(t) ==
  \/ Node!LockRai(t) \/ Node!SendCmd(t) \/ Node!TakeReply(t) \/ Node!ReplyLost(t)
  \/ Node!SendDel(t) \/ Node!DelReply(t) \/ Node!DelLost(t) \/ Node!UnlockRai(t)
  \/ Node!Respond(t) \/ Node!CloseIdle(t)

(* The inductive invariant holds when the server has started.               *)
LEMMA InitIInv == Init => IInv
<1> SUFFICES ASSUME Init PROVE IInv OBVIOUS
<1> USE WebstoreAssumption DEF Init, Node!Init, Node!RaiInit, Conn!NoDecision
<1>1. DbInv BY DEF DbInv, Node!EmptyDb, Keys
<1>2. TypeInv BY DEF TypeInv, Keys, Node!History
<1>3. RequestInv BY DEF RequestInv, Node!InHandler, Node!Busy
<1>4. MutexInv BY DEF MutexInv, Critical, Node!InHandler, Node!Busy
<1>5. WireInv BY DEF WireInv
<1>6. StopInv BY DEF StopInv
<1>7. orphans \subseteq Writes OBVIOUS
<1> QED BY <1>1, <1>2, <1>3, <1>4, <1>5, <1>6, <1>7 DEF IInv

(* Every step is one of these.                                              *)
LEMMA Steps ==
  ASSUME [Next]_vars
  PROVE  \/ \E t \in Handlers : Enter(t)
         \/ \E t \in Handlers : HandlerAt(t) /\ UNCHANGED listenerVars
         \/ \E c \in Addresses \ {Localhost} : Accept(c)
         \/ ListenerStep \/ Execute \/ NetworkStep \/ Tick \/ Expire \/ Signal \/ MainStep
         \/ Crash \/ Restart \/ UNCHANGED vars
BY DEF Next, HandlerStep, Node!Step, HandlerAt

(* With threads the mutex keeps the handlers and the accepting thread apart; *)
(* without, MHD's select loop does (get(), do_redis_post(), allow_ip).      *)
LEMMA MutexStep == IInv /\ [Next]_vars => MutexInv'
<1> SUFFICES ASSUME IInv, [Next]_vars PROVE MutexInv' OBVIOUS
<1> USE WebstoreAssumption DEF Node!InHandler, Node!Busy, listenerVars, Critical
<1>0. /\ MutexInv
      /\ pc \in [Handlers -> Node!InHandler \cup {"idle", "respond", "closed"}]
  BY DEF IInv, TypeInv
<1>1. ASSUME NEW t \in Handlers, Enter(t) PROVE MutexInv'
  <2>1. /\ pc[t] = "idle"
        /\ rt.multithreaded \/ lpc = "idle"
        /\ rt.multithreaded \/ \A u \in Handlers : pc[u] \notin Node!InHandler
        /\ pc' = [pc EXCEPT ![t] = "respond"] \/ pc' = [pc EXCEPT ![t] = "lock"]
        /\ UNCHANGED <<owner, rt, lpc>>
    BY <1>1 DEF Enter, Node!EnterNode, Node!nodecfg, Node!MayRun, Node!get, Node!post,
                Node!Finish, Node!Accept, Node!raiVars
  <2> QED BY <1>0, <2>1 DEF MutexInv
<1>2. ASSUME NEW t \in Handlers, Node!LockRai(t), UNCHANGED listenerVars PROVE MutexInv'
  BY <1>0, <1>2 DEF Node!LockRai, Node!rai_lock, MutexInv

<1>3. ASSUME NEW t \in Handlers, UNCHANGED listenerVars,
             \/ Node!SendCmd(t) \/ Node!TakeReply(t) \/ Node!ReplyLost(t)
             \/ Node!SendDel(t) \/ Node!DelReply(t) \/ Node!DelLost(t)
      PROVE  MutexInv'
  <2>1. /\ pc[t] \in Node!Busy
        /\ \E l \in Node!Busy : pc' = [pc EXCEPT ![t] = l]
        /\ UNCHANGED <<owner, rt, lpc>>
    BY <1>3 DEF Node!SendCmd, Node!TakeReply, Node!ReplyLost, Node!SendDel, Node!DelReply,
                Node!DelLost
  <2> QED BY <1>0, <2>1 DEF MutexInv
<1>4. ASSUME NEW t \in Handlers, Node!UnlockRai(t), UNCHANGED listenerVars PROVE MutexInv'
  BY <1>0, <1>4 DEF Node!UnlockRai, Node!rai_unlock, MutexInv
<1>5. ASSUME NEW t \in Handlers, Node!Respond(t) \/ Node!CloseIdle(t), UNCHANGED listenerVars
      PROVE  MutexInv'
  BY <1>0, <1>5 DEF Node!Respond, Node!CloseIdle, Node!raiVars, MutexInv
<1>6. ASSUME NEW c \in Addresses, Accept(c) PROVE MutexInv'
  BY <1>0, <1>6 DEF Accept, Conn!ws_addr_check, Conn!raiVars, handlerVars, MutexInv
<1>7. CASE ListenerStep
  <2>1. CASE Conn!LockRai \/ Conn!UnlockRai
    BY <1>0, <1>7, <2>1 DEF ListenerStep, Conn!LockRai, Conn!UnlockRai, Conn!rai_lock,
                            Conn!rai_unlock, handlerVars, MutexInv
  <2>2. CASE ~(Conn!LockRai \/ Conn!UnlockRai)
    <3>1. /\ UNCHANGED <<owner, pc, rt>>
          /\ \/ lpc \in {"get", "getreply", "save", "savereply"}
                /\ lpc' \in {"getreply", "save", "savereply", "unlock"}
             \/ lpc = "decide" /\ lpc' = "idle"
      BY <1>7, <2>2 DEF ListenerStep, Conn!allow_ip, Conn!SendGet, Conn!CheckCount,
                        Conn!CheckLost, Conn!SendCount, Conn!CountReply, Conn!CountLost,
                        Conn!Answer, Conn!raiVars, handlerVars
    <3> QED BY <1>0, <3>1 DEF MutexInv
  <2> QED BY <2>1, <2>2
<1>8. CASE Execute \/ NetworkStep \/ Tick \/ Expire \/ Signal \/ UNCHANGED vars
  <2>1. UNCHANGED <<owner, rt, pc, lpc>>
    BY <1>8 DEF Execute, Node!Execute, Node!RedisExecutes, NetworkStep, Node!Refuse,
                Node!RedisRefuses, Node!Break, Node!ConnectionBreaks, Node!OrphanRuns,
                Node!OrphanExecutes, Node!OrphanIsLost, Tick, Expire, Node!KeyExpires, Signal, Node!Signal,
                Node!raiVars, Node!processVars, Node!handlerVars, handlerVars, vars
  <2> QED BY <1>0, <2>1 DEF MutexInv
<1>9. CASE MainStep
  <2>1. UNCHANGED <<owner, rt, pc, lpc>>
    BY <1>9 DEF MainStep, Node!MainStep, Node!LeaveMainLoop, Node!DaemonStopped,
                Node!Disconnect, Node!rai_disconnect, Node!raiVars, Node!handlerVars
  <2> QED BY <1>0, <2>1 DEF MutexInv
<1>10. CASE Crash \/ Restart
  BY <1>0, <1>10 DEF Crash, Node!Crash, Node!RaiCrash, Restart, Node!Restart, Node!rai_connect,
                     IInv, StopInv, MutexInv
<1> QED
  BY <1>1, <1>2, <1>3, <1>4, <1>5, <1>6, <1>7, <1>8, <1>9, <1>10, Steps DEF HandlerAt

(* Mutual exclusion: one thread at a time is in the middle of its commands,  *)
(* handler or listener, whichever way the server is configured.             *)
LEMMA OneCritical ==
  ASSUME IInv, NEW t \in Critical, NEW u \in Critical
  PROVE  t = u
BY DEF IInv, MutexInv, Critical, Node!InHandler

(* Who waits for redis is in its critical section.                          *)
LEMMA CallingIsCritical == Calling \subseteq Critical
BY DEF Calling, Critical, Node!Calling, Node!Busy

(* The command on the wire, and the thread that waits for its reply.        *)
LEMMA WireOwner ==
  ASSUME IInv, wire # <<>>
  PROVE  /\ Len(wire) = 1 /\ Head(wire) = wire[1] /\ Tail(wire) = <<>>
         /\ wire[1].by \in Calling /\ wire[1].by \in Critical
         /\ wire[1].cmd = Issued(wire[1].by)
         /\ wire = <<[by |-> wire[1].by, cmd |-> wire[1].cmd, reply |-> wire[1].reply]>>
         /\ Node!Alive
<1>1. /\ wire[1].by \in Calling /\ Node!Alive
      /\ wire = <<[by |-> wire[1].by, cmd |-> Issued(wire[1].by), reply |-> wire[1].reply]>>
  BY DEF IInv, WireInv
<1> DEFINE it == [by |-> wire[1].by, cmd |-> Issued(wire[1].by), reply |-> wire[1].reply]
<1>2. wire = <<it>> BY <1>1
<1>3. wire[1] = it /\ Len(wire) = 1 /\ Head(wire) = it /\ Tail(wire) = <<>>
  <2> HIDE DEF it
  <2> QED BY <1>2
<1>4. wire[1].cmd = Issued(wire[1].by)
  <2>1. it.cmd = Issued(wire[1].by) OBVIOUS
  <2> HIDE DEF it
  <2> QED BY <1>3, <2>1
<1> QED BY <1>1, <1>3, <1>4, CallingIsCritical

(* A thread of the critical section that does not wait finds the wire empty. *)
LEMMA WireFree ==
  ASSUME IInv, NEW t \in Critical, t \notin Calling
  PROVE  wire = <<>>
BY WireOwner, OneCritical

(* A command that redis has not executed is the only one on the wire.       *)
LEMMA FirstIsOnly ==
  ASSUME IInv, NEW i \in 1..Len(wire)
  PROVE  i = 1 /\ wire # <<>>
<1>1. wire # <<>> OBVIOUS
<1> QED BY <1>1, WireOwner

(* Sending over an empty wire.                                              *)
LEMMA SendOne ==
  ASSUME NEW t, NEW c, wire = <<>>,
         wire' = IF Node!Alive THEN Append(wire, [by |-> t, cmd |-> c, reply |-> Pending])
                               ELSE wire
  PROVE  \/ wire' = <<>>
         \/ /\ Node!Alive
            /\ wire' = <<[by |-> t, cmd |-> c, reply |-> Pending]>>
            /\ wire'[1].by = t /\ wire'[1].cmd = c /\ wire'[1].reply = Pending
            /\ Head(wire') = wire'[1]
OBVIOUS

(* redis answers the command on the wire.                                   *)
LEMMA Answering ==
  ASSUME IInv, NEW i \in 1..Len(wire), NEW r, wire' = [wire EXCEPT ![i].reply = r]
  PROVE  /\ wire' = <<[by |-> wire[1].by, cmd |-> wire[1].cmd, reply |-> r]>>
         /\ wire'[1].by = wire[1].by /\ wire'[1].cmd = wire[1].cmd /\ wire'[1].reply = r
         /\ Head(wire') = wire'[1] /\ wire' # <<>>
<1>1. i = 1 /\ wire # <<>> BY FirstIsOnly
<1>2. wire = <<[by |-> wire[1].by, cmd |-> wire[1].cmd, reply |-> wire[1].reply]>>
  BY <1>1, WireOwner
<1> DEFINE b == wire[1].by
           c == wire[1].cmd
           it == [by |-> b, cmd |-> c, reply |-> wire[1].reply]
           new == [by |-> b, cmd |-> c, reply |-> r]
<1>3. wire = <<it>> BY <1>2
<1>4. [it EXCEPT !.reply = r] = new OBVIOUS
<1>5. wire' = [<<it>> EXCEPT ![1] = [it EXCEPT !.reply = r]]
  <2>1. it = wire[1] BY <1>3
  <2> HIDE DEF it
  <2> QED BY <1>1, <1>3, <2>1
<1>6. wire' = <<new>>
  <2> HIDE DEF it, new
  <2> QED BY <1>4, <1>5
<1>7. wire'[1] = new /\ Head(wire') = new /\ wire' # <<>>
  <2> HIDE DEF new
  <2> QED BY <1>6
<1> QED BY <1>6, <1>7

(* What the threads may have sent.                                          *)
LEMMA AreWrites ==
  /\ \A k \in Tokens, v \in Messages :
       Node!Set(k, v, rt.expiration, rt.immutable) \in Writes
  /\ \A k \in Tokens : Node!Del(k) \in Writes
  /\ \A c \in Addresses : Conn!Set(c, 1, ReqPeriod, FALSE) \in Writes
  /\ \A c \in Addresses : Conn!Incr(c) \in Writes
<1> DEFINE A == {Node!Set(k, v, rt.expiration, rt.immutable) : k \in Tokens, v \in Messages}
           B == {Node!Del(k) : k \in Tokens}
           C == {Conn!Set(c, 1, ReqPeriod, FALSE) : c \in Addresses}
           D == {Conn!Incr(c) : c \in Addresses}
<1>0. Writes = A \cup B \cup C \cup D BY DEF Writes
<1>1. \A k \in Tokens, v \in Messages : Node!Set(k, v, rt.expiration, rt.immutable) \in A
  BY DEF Node!Set
<1>2. \A k \in Tokens : Node!Del(k) \in B BY DEF Node!Del
<1>3. \A c \in Addresses : Conn!Set(c, 1, ReqPeriod, FALSE) \in C BY DEF Conn!Set
<1>4. \A c \in Addresses : Conn!Incr(c) \in D BY DEF Conn!Incr
<1> HIDE DEF A, B, C, D
<1> QED BY <1>0, <1>1, <1>2, <1>3, <1>4

(* What waits on the wire is a read, or a write of a message under a token  *)
(* or of a count under an address.                                          *)
LEMMA IssuedTyped ==
  ASSUME IInv, NEW t \in Calling
  PROVE  Issued(t) \in Reads \cup Writes
<1> USE WebstoreAssumption
<1>1. CASE t = Listener
  <2>1. ip \in Addresses BY DEF IInv, TypeInv
  <2>2. CASE lpc = "getreply"
    BY <1>1, <2>1, <2>2 DEF Issued, Reads, Conn!Get, Node!Get, Keys
  <2>3. CASE lpc # "getreply" /\ found
    BY <1>1, <2>1, <2>3, AreWrites DEF Issued, Conn!CountCommand
  <2>4. CASE lpc # "getreply" /\ ~found
    BY <1>1, <2>1, <2>4, AreWrites DEF Issued, Conn!CountCommand
  <2> QED BY <2>2, <2>3, <2>4
<1>2. CASE t # Listener
  <2>1. /\ t \in Handlers /\ req[t] \in Node!Request /\ req[t].key \in Tokens
        /\ req[t].kind = "POST" => req[t].val \in Messages
        /\ Issued(t) = Node!Issued(t)
    BY <1>2 DEF Calling, Node!Calling, IInv, RequestInv, Node!InHandler, Node!Busy, Issued
  <2>2. Node!Del(req[t].key) \in Writes BY <2>1, AreWrites
  <2>3. Node!CommandOf(req[t]) \in Reads \cup Writes
    <3>1. CASE req[t].kind = "GET"
      BY <2>1, <3>1 DEF Node!CommandOf, Reads, Keys, Node!Get
    <3>2. CASE req[t].kind # "GET"
      <4>1. req[t].kind = "POST" BY <2>1, <3>2 DEF Node!Request
      <4> QED BY <2>1, <3>2, <4>1, AreWrites DEF Node!CommandOf
    <3> QED BY <3>1, <3>2
  <2> QED BY <2>1, <2>2, <2>3 DEF Node!Issued
<1> QED BY <1>1, <1>2

(* A write names a key of its kind, and has a string of that kind.          *)
LEMMA WriteForm ==
  ASSUME rt \in Settings, NEW c \in Writes
  PROVE  /\ c.op \in {"SET", "DEL", "INCR"} /\ c.key \in Keys
         /\ c.op = "SET" =>
              /\ c.ttl \in Nat
              /\ \/ c.key \in Tokens /\ c.val \in Messages
                 \/ c.key \in Addresses /\ c.val \in Nat
         /\ c.op = "DEL" => c.key \in Tokens
         /\ c.op = "INCR" => c.key \in Addresses
<1> USE WebstoreAssumption DEF Keys
<1>0. rt.expiration \in Nat OBVIOUS
<1>1. CASE \E k \in Tokens, v \in Messages : c = Node!Set(k, v, rt.expiration, rt.immutable)
  BY <1>0, <1>1 DEF Node!Set
<1>2. CASE \E k \in Tokens : c = Node!Del(k) BY <1>2 DEF Node!Del
<1>3. CASE \E a \in Addresses : c = Conn!Set(a, 1, ReqPeriod, FALSE) BY <1>3 DEF Conn!Set
<1>4. CASE \E a \in Addresses : c = Conn!Incr(a) BY <1>4 DEF Conn!Incr
<1> QED
  BY <1>1, <1>2, <1>3, <1>4 DEF Writes, Node!Set, Node!Del, Conn!Set, Conn!Incr

(* redis keeps messages under tokens and counts under addresses.            *)
LEMMA EffectTyped ==
  ASSUME DbInv, rt \in Settings, NEW c \in Reads \cup Writes
  PROVE  /\ Node!Effect(db, c) \in [Keys -> [val: Messages \cup Nat, ttl: Nat] \cup {NoEntry}]
         /\ \A k \in Tokens : Node!Effect(db, c)[k] # NoEntry =>
                                Node!Effect(db, c)[k].val \in Messages
         /\ \A a \in Addresses : Node!Effect(db, c)[a] # NoEntry =>
                                   Node!Effect(db, c)[a].val \in Nat
<1> USE WebstoreAssumption DEF Keys
<1> DEFINE e == Node!Effect(db, c)
<1>0. db \in [Keys -> [val: Messages \cup Nat, ttl: Nat] \cup {NoEntry}] BY DEF DbInv
<1>1. CASE c \in Reads
  <2>1. c.op = "GET" BY <1>1 DEF Reads, Node!Get
  <2>2. e = db BY <2>1 DEF Node!Effect, Node!SetApplies
  <2> QED BY <2>2 DEF DbInv
<1>2. CASE c \in Writes /\ c.op = "SET"
  <2>1. e = db \/ e = [db EXCEPT ![c.key] = [val |-> c.val, ttl |-> c.ttl]]
    BY <1>2 DEF Node!Effect, Node!SetApplies
  <2>2. CASE e = db BY <2>2 DEF DbInv
  <2>3. CASE e = [db EXCEPT ![c.key] = [val |-> c.val, ttl |-> c.ttl]]
    BY <1>0, <1>2, <2>3, WriteForm DEF DbInv
  <2> QED BY <2>1, <2>2, <2>3
<1>3. CASE c \in Writes /\ c.op = "DEL"
  <2>1. e = [db EXCEPT ![c.key] = NoEntry] BY <1>3 DEF Node!Effect, Node!SetApplies
  <2> QED BY <1>0, <1>3, <2>1, WriteForm DEF DbInv
<1>4. CASE c \in Writes /\ c.op = "INCR"
  <2> DEFINE new == Node!Incremented(db[c.key])
  <2>1. e = [db EXCEPT ![c.key] = new] BY <1>4 DEF Node!Effect, Node!SetApplies
  <2>2. c.key \in Addresses BY <1>4, WriteForm
  <2>3. new \in [val: Nat, ttl: Nat]
    <3>1. CASE db[c.key] = NoEntry BY <3>1 DEF Node!Incremented
    <3>2. CASE db[c.key] # NoEntry
      <4>1. db[c.key] \in [val: Messages \cup Nat, ttl: Nat] /\ db[c.key].val \in Nat
        BY <1>0, <2>2, <3>2 DEF DbInv
      <4>2. new = [db[c.key] EXCEPT !.val = @ + 1] BY <3>2 DEF Node!Incremented
      <4> QED BY <4>1, <4>2
    <3> QED BY <3>1, <3>2
  <2> HIDE DEF new
  <2>4. new.val \in Nat /\ new \in [val: Messages \cup Nat, ttl: Nat] BY <2>3
  <2> QED BY <1>0, <2>1, <2>2, <2>4 DEF DbInv
<1> QED BY <1>1, <1>2, <1>3, <1>4, WriteForm

(* A configuration is for the life of the process and its restarts.         *)
LEMMA ConfigStays == [Next]_vars => UNCHANGED rt
<1> SUFFICES ASSUME [Next]_vars PROVE rt' = rt OBVIOUS
<1>1. ASSUME NEW t \in Handlers, Enter(t) \/ HandlerAt(t) PROVE rt' = rt
  BY <1>1 DEF Enter, Node!EnterNode, Node!nodecfg, HandlerAt, Node!LockRai, Node!SendCmd,
       Node!TakeReply, Node!ReplyLost, Node!SendDel, Node!DelReply, Node!DelLost,
       Node!UnlockRai, Node!Respond, Node!CloseIdle
<1>2. CASE ListenerStep \/ \E c \in Addresses : Accept(c)
  BY <1>2 DEF ListenerStep, Accept, handlerVars
<1>3. CASE Execute \/ NetworkStep \/ Tick \/ Expire \/ Signal \/ UNCHANGED vars
  BY <1>3 DEF Execute, Node!Execute, NetworkStep, Node!Refuse, Node!Break, Node!OrphanRuns,
       Tick, Expire, Signal, Node!Signal, Node!processVars, handlerVars, vars
<1>4. CASE MainStep \/ Crash \/ Restart
  BY <1>4 DEF MainStep, Node!MainStep, Node!LeaveMainLoop, Node!DaemonStopped,
       Node!Disconnect, Crash, Node!Crash, Restart, Node!Restart
<1> QED BY <1>1, <1>2, <1>3, <1>4, Steps

(* Only redis changes its database, by executing a command that was sent or *)
(* by letting keys expire.                                                  *)
LEMMA DbStep == IInv /\ [Next]_vars => DbInv'
<1> SUFFICES ASSUME IInv, [Next]_vars PROVE DbInv' OBVIOUS
<1> USE DEF Node!raiVars, Conn!raiVars
<1>0. DbInv /\ rt \in Settings BY DEF IInv, TypeInv
<1>1. ASSUME NEW c \in Reads \cup Writes, db' = Node!Effect(db, c) PROVE DbInv'
  BY <1>0, <1>1, EffectTyped DEF DbInv
<1>2. CASE UNCHANGED db BY <1>0, <1>2 DEF DbInv
<1>3. CASE Execute
  <2>1. PICK i \in 1..Len(wire) : db' = Node!Effect(db, wire[i].cmd)
    BY <1>3 DEF Execute, Node!Execute, Node!RedisExecutes
  <2> QED BY <1>1, <2>1, FirstIsOnly, WireOwner, IssuedTyped
<1>4. CASE NetworkStep
  <2>1. CASE Node!OrphanRuns
    <3>1. PICK c \in orphans : Node!OrphanExecutes(c) \/ Node!OrphanIsLost(c)
      BY <2>1 DEF Node!OrphanRuns
    <3> QED BY <1>1, <1>2, <3>1 DEF IInv, Node!OrphanExecutes, Node!OrphanIsLost
  <2>2. CASE Node!Refuse \/ Node!Break
    BY <1>2, <2>2 DEF Node!Refuse, Node!RedisRefuses, Node!Break, Node!ConnectionBreaks
  <2> QED BY <1>4, <2>1, <2>2 DEF NetworkStep
<1>5. CASE Tick
  <2>1. db' = [k \in Keys |-> IF k \in Addresses THEN Conn!Aged(db[k]) ELSE db[k]]
    BY <1>5 DEF Tick
  <2>2. ASSUME NEW e \in [val: Messages \cup Nat, ttl: Nat]
        PROVE  Conn!Aged(e) = NoEntry \/ (Conn!Aged(e) \in [val: Messages \cup Nat, ttl: Nat]
                                          /\ Conn!Aged(e).val = e.val)
    BY <2>2 DEF Conn!Aged
  <2>3. Conn!Aged(NoEntry) = NoEntry BY DEF Conn!Aged
  <2> QED BY <1>0, <2>1, <2>2, <2>3 DEF DbInv, Keys
<1>6. ASSUME NEW t \in Handlers, Enter(t) \/ HandlerAt(t) PROVE UNCHANGED db
  BY <1>6 DEF Enter, Node!EnterNode, Node!nodecfg, HandlerAt, Node!LockRai, Node!SendCmd,
       Node!TakeReply, Node!ReplyLost, Node!SendDel, Node!DelReply, Node!DelLost,
       Node!UnlockRai, Node!Respond, Node!CloseIdle
<1>7. CASE ListenerStep \/ \E c \in Addresses : Accept(c)
  BY <1>2, <1>7 DEF ListenerStep, Accept, Conn!ws_addr_check, Conn!allow_ip, Conn!LockRai,
       Conn!SendGet, Conn!CheckCount, Conn!CheckLost, Conn!SendCount, Conn!CountReply,
       Conn!CountLost, Conn!UnlockRai, Conn!Answer
<1>8. CASE MainStep \/ Crash \/ Restart \/ Signal \/ UNCHANGED vars
  BY <1>2, <1>8 DEF MainStep, Node!MainStep, Node!LeaveMainLoop, Node!DaemonStopped,
       Node!Disconnect, Node!rai_disconnect, Crash, Node!Crash, Node!RaiCrash, Restart,
       Node!Restart, Node!rai_connect, Signal, Node!Signal, vars
<1>9. CASE Expire
  <2>1. PICK k \in Tokens : db' = [db EXCEPT ![k] = NoEntry]
    BY <1>9 DEF Expire, Node!KeyExpires, Node!Expired
  <2> QED BY <1>0, <2>1 DEF DbInv, Keys
<1> QED BY <1>2, <1>3, <1>4, <1>5, <1>6, <1>7, <1>8, <1>9, Steps

(* A handler that passed its checks keeps its token and its message to the  *)
(* end; convert_hash gives it no other key than a token.                    *)
LEMMA Entering ==
  ASSUME TypeInv, NEW t \in Handlers, Enter(t)
  PROVE  /\ pc[t] = "idle" /\ UNCHANGED listenerVars
         /\ UNCHANGED <<db, owner, ctx, link, wire, orphans, rt, shutdown, mainpc, served>>
         /\ \/ pc' = [pc EXCEPT ![t] = "respond"] /\ UNCHANGED req
            \/ /\ pc' = [pc EXCEPT ![t] = "lock"]
               /\ \E r \in Node!Request :
                    /\ req' = [req EXCEPT ![t] = r]
                    /\ r.key \in Tokens
                    /\ r.kind = "POST" => r.val \in Messages
         /\ mainpc \in {"run", "stopping"}
<1> USE WebstoreAssumption DEF Node!raiVars, listenerVars
<1>0. /\ UNCHANGED listenerVars
      /\ Node!EnterNode(t) \/ Node!nodecfg(t)
  BY DEF Enter
<1>1. /\ pc[t] = "idle" /\ mainpc \in {"run", "stopping"}
      /\ UNCHANGED <<db, owner, ctx, link, wire, orphans, rt, shutdown, mainpc, served>>
  BY <1>0 DEF Node!EnterNode, Node!nodecfg, Node!MayRun
<1> DEFINE Goal ==
      \/ pc' = [pc EXCEPT ![t] = "respond"] /\ UNCHANGED req
      \/ /\ pc' = [pc EXCEPT ![t] = "lock"]
         /\ \E r \in Node!Request :
              /\ req' = [req EXCEPT ![t] = r]
              /\ r.key \in Tokens
              /\ r.kind = "POST" => r.val \in Messages
<1>2. ASSUME NEW code, Node!Finish(t, code) PROVE Goal BY <1>2 DEF Node!Finish
<1>3. ASSUME NEW n \in Nodes, NEW u \in Urls, Node!get(t, n, u) PROVE Goal
  <2>1. CASE Node!GoodUrl(n, u)
    <3> DEFINE r == [kind |-> "GET", key |-> ConvertHash[u], val |-> NoVal]
    <3>1. ConvertHash[u] \in Tokens BY <2>1 DEF Node!GoodUrl
    <3>2. r \in Node!Request /\ r.key \in Tokens /\ r.kind # "POST"
      BY <3>1 DEF Node!Request, Keys
    <3>3. Node!Accept(t, r) BY <1>3, <2>1 DEF Node!get
    <3> QED BY <3>2, <3>3 DEF Node!Accept
  <2>2. CASE ~Node!GoodUrl(n, u) BY <1>2, <1>3, <2>2 DEF Node!get
  <2> QED BY <2>1, <2>2
<1>4. ASSUME NEW n \in Nodes, NEW u \in Urls, NEW b \in Bodies, Node!post(t, n, u, b) PROVE Goal
  <2>1. CASE Node!GoodUrl(n, u) /\ Node!GoodBody(b)
    <3> DEFINE r == [kind |-> "POST", key |-> ConvertHash[u], val |-> b]
    <3>1. ConvertHash[u] \in Tokens BY <2>1 DEF Node!GoodUrl
    <3>2. b \in Messages BY <2>1 DEF Node!GoodBody
    <3>3. r \in Node!Request /\ r.key \in Tokens /\ r.val \in Messages
      BY <3>1, <3>2 DEF Node!Request, Keys, Vals
    <3>4. Node!Accept(t, r) BY <1>4, <2>1 DEF Node!post
    <3> QED BY <3>3, <3>4 DEF Node!Accept
  <2>2. CASE ~(Node!GoodUrl(n, u) /\ Node!GoodBody(b)) BY <1>2, <1>4, <2>2 DEF Node!post
  <2> QED BY <2>1, <2>2
<1>5. Goal BY <1>0, <1>2, <1>3, <1>4 DEF Node!EnterNode, Node!nodecfg
<1> QED BY <1>0, <1>1, <1>5

(* The places and requests of the handlers over one step of theirs.         *)
LEMMA HandlerMoves ==
  ASSUME IInv, NEW t \in Handlers, HandlerAt(t)
  PROVE  /\ \E l \in Node!InHandler \cup {"idle", "respond", "closed"} :
              /\ pc' = [pc EXCEPT ![t] = l]
              /\ l \in Node!InHandler => pc[t] \in Node!InHandler
              /\ l \in {"del", "delreply"} => req[t].kind = "GET"
         /\ UNCHANGED req \/ (req' = [req EXCEPT ![t] = NoReq] /\ pc'[t] \notin Node!InHandler)
         /\ pc[t] # "closed" /\ UNCHANGED mainpc
         /\ UNCHANGED ctx \/ (ctx' = "err" /\ ctx # "none")
<1> USE DEF Node!InHandler, Node!Busy, Node!raiVars
<1>0. TypeInv /\ RequestInv /\ StopInv BY DEF IInv
<1>a. ctx = "none" => pc[t] = "closed" BY <1>0 DEF StopInv
<1>1. CASE Node!LockRai(t) \/ Node!SendCmd(t) \/ Node!DelReply(t) \/ Node!UnlockRai(t)
             \/ Node!CloseIdle(t)
  BY <1>1 DEF Node!LockRai, Node!SendCmd, Node!DelReply, Node!UnlockRai, Node!CloseIdle
<1>2. CASE Node!TakeReply(t)
  <2>1. req[t] \in Node!Request BY <1>0, <1>2 DEF Node!TakeReply, RequestInv
  <2>2. Node!ResultOf(req[t], Head(wire).reply).page # NoVal => req[t].kind = "GET"
    BY <2>1 DEF Node!ResultOf, Node!PostResult, Node!Status, Node!Request
  <2> DEFINE read == Node!ResultOf(req[t], Head(wire).reply).page # NoVal
             l == IF read /\ rt.bar THEN "del" ELSE "unlock"
  <2>3. /\ pc[t] = "reply" /\ pc' = [pc EXCEPT ![t] = l]
        /\ UNCHANGED <<req, ctx, mainpc>>
    BY <1>2 DEF Node!TakeReply
  <2>4. l = "unlock" \/ (l = "del" /\ req[t].kind = "GET") BY <2>2
  <2> HIDE DEF l
  <2> QED BY <2>3, <2>4
<1>3. CASE Node!ReplyLost(t) \/ Node!DelLost(t)
  BY <1>3, <1>a DEF Node!ReplyLost, Node!DelLost, Node!ReceiveNull
<1>4. CASE Node!SendDel(t)
  BY <1>0, <1>4 DEF Node!SendDel, RequestInv
<1>5. CASE Node!Respond(t)
  <2> DEFINE l == IF mainpc = "stopping" THEN "closed" ELSE "idle"
  <2>1. /\ pc[t] = "respond" /\ pc' = [pc EXCEPT ![t] = l]
        /\ req' = [req EXCEPT ![t] = NoReq] /\ UNCHANGED <<ctx, mainpc>>
    BY <1>5 DEF Node!Respond
  <2>2. l \in {"closed", "idle"} OBVIOUS
  <2> HIDE DEF l
  <2>3. pc'[t] = l BY <1>0, <2>1 DEF TypeInv
  <2> QED BY <2>1, <2>2, <2>3
<1> QED BY <1>1, <1>2, <1>3, <1>4, <1>5 DEF HandlerAt

(* Requests reach redis with a token and a message only (get(),             *)
(* do_redis_post()).                                                        *)
LEMMA RequestStep == IInv /\ [Next]_vars => RequestInv'
<1> SUFFICES ASSUME IInv, [Next]_vars PROVE RequestInv' OBVIOUS
<1> USE DEF Node!InHandler, Node!Busy
<1>0. TypeInv /\ RequestInv
      /\ pc \in [Handlers -> Node!InHandler \cup {"idle", "respond", "closed"}]
      /\ req \in [Handlers -> Node!Request \cup {NoReq}]
  BY DEF IInv, TypeInv
<1>1. ASSUME NEW t \in Handlers, Enter(t) PROVE RequestInv'
  BY <1>0, <1>1, Entering DEF RequestInv
<1>2. ASSUME NEW t \in Handlers, HandlerAt(t) PROVE RequestInv'
  BY <1>0, <1>2, HandlerMoves DEF RequestInv
<1>3. CASE UNCHANGED <<pc, req>> BY <1>0, <1>3 DEF RequestInv
<1>4. CASE ListenerStep \/ \E c \in Addresses : Accept(c)
  BY <1>3, <1>4 DEF ListenerStep, Accept, handlerVars
<1>5. CASE Execute \/ NetworkStep \/ Tick \/ Expire \/ Signal \/ MainStep \/ UNCHANGED vars
  BY <1>3, <1>5 DEF Execute, Node!Execute, NetworkStep, Node!Refuse, Node!Break,
       Node!OrphanRuns, Tick, Expire, Signal, Node!Signal, MainStep, Node!MainStep,
       Node!LeaveMainLoop, Node!DaemonStopped, Node!Disconnect, Node!processVars,
       Node!handlerVars, handlerVars, vars
<1>6. CASE Crash \/ Restart
  BY <1>0, <1>6 DEF Crash, Node!Crash, Restart, Node!Restart, RequestInv
<1> QED BY <1>1, <1>2, <1>4, <1>5, <1>6, Steps

(* The steps of the accepting thread and of a new connection.               *)
LEMMA ListenerMoves ==
  ASSUME IInv, ListenerStep \/ \E c \in Addresses \ {Localhost} : Accept(c)
  PROVE  /\ UNCHANGED handlerVars
         /\ lpc' \in {"idle", "lock", "get", "getreply", "save", "savereply", "unlock", "decide"}
         /\ ip' \in Addresses
         /\ lpc = "idle" => mainpc = "run"
         /\ UNCHANGED ctx \/ (ctx' = "err" /\ lpc # "idle")
<1>1. CASE \E c \in Addresses \ {Localhost} : Accept(c)
  BY <1>1 DEF Accept, Conn!ws_addr_check, Conn!raiVars, handlerVars
<1>2. CASE ListenerStep
  <2>1. CASE Conn!Answer
    BY <1>2, <2>1, WebstoreAssumption
    DEF ListenerStep, Conn!Answer, Conn!ForgetDecision, Conn!raiVars
  <2>2. CASE Conn!allow_ip
    BY <1>2, <2>2 DEF ListenerStep, Conn!allow_ip, Conn!LockRai, Conn!SendGet, Conn!CheckCount,
         Conn!CheckLost, Conn!SendCount, Conn!CountReply, Conn!CountLost, Conn!UnlockRai,
         Conn!ReceiveNull, IInv, TypeInv
  <2> QED BY <1>2, <2>1, <2>2 DEF ListenerStep
<1> QED BY <1>1, <1>2

(* A SET that takes effect begins a new history of its message.             *)
LEMMA FreshTyped ==
  ASSUME TypeInv, NEW c
  PROVE  /\ Node!Fresh(c) \in [Keys -> Node!History]
         /\ \A a \in Addresses : Node!Fresh(c)[a] = "unread"
         /\ \A k \in Keys : Node!Fresh(c)[k] = "unread" \/ Node!Fresh(c)[k] = served[k]
BY DEF TypeInv, Node!Fresh, Node!History, Keys

(* What becomes of the history of a message that is read, or is spared.     *)
(* Nobody reads a counter, and to spare it changes nothing.                 *)
LEMMA HistoryIs ==
  ASSUME TypeInv
  PROVE  /\ \A k \in Tokens :
              /\ Node!HandedOut(k) \in [Keys -> Node!History]
              /\ served[k] \notin Node!Handed /\ served[k] # "twice" =>
                   Node!HandedOut(k)[k] \in Node!Handed
              /\ \A m \in Keys \ {k} : Node!HandedOut(k)[m] = served[m]
              /\ \A a \in Addresses : Node!HandedOut(k)[a] = "unread"
         /\ \A ks :
              /\ Node!Spared(ks) \in [Keys -> Node!History]
              /\ \A k \in Keys :
                   \/ Node!Spared(ks)[k] = served[k]
                   \/ Node!Spared(ks)[k] = "spared"
              /\ \A k \in Keys \cap ks : Node!Spared(ks)[k] \notin Node!Handed
              /\ \A a \in Addresses : Node!Spared(ks)[a] = "unread"
BY WebstoreAssumption
DEF TypeInv, Node!HandedOut, Node!Spared, Node!History, Node!Handed, Keys

(* All state of the handlers and of the accepting thread keeps its type.    *)
LEMMA TypeStep == IInv /\ [Next]_vars => TypeInv'
<1> SUFFICES ASSUME IInv, [Next]_vars PROVE TypeInv' OBVIOUS
<1> USE DEF listenerVars, handlerVars, Node!raiVars, Node!handlerVars, Node!processVars
<1>0. TypeInv /\ UNCHANGED rt BY ConfigStays DEF IInv
<1>1. ASSUME NEW t \in Handlers, Enter(t) PROVE TypeInv'
  <2>1. /\ UNCHANGED <<rt, served, lpc, ip>>
        /\ \E l \in {"respond", "lock"} : pc' = [pc EXCEPT ![t] = l]
        /\ UNCHANGED req \/ \E r \in Node!Request : req' = [req EXCEPT ![t] = r]
    BY <1>0, <1>1, Entering
  <2> QED BY <1>0, <2>1 DEF TypeInv, Node!InHandler
<1>2. ASSUME NEW t \in Handlers, HandlerAt(t), UNCHANGED listenerVars PROVE TypeInv'
  <2>1. /\ \E l \in Node!InHandler \cup {"idle", "respond", "closed"} : pc' = [pc EXCEPT ![t] = l]
        /\ UNCHANGED req \/ req' = [req EXCEPT ![t] = NoReq]
    BY <1>2, HandlerMoves
  <2>2. served' \in [Keys -> Node!History] /\ \A c \in Addresses : served'[c] = "unread"
    <3>1. CASE Node!TakeReply(t)
      <4>1. req[t].key \in Tokens
        BY <3>1 DEF IInv, RequestInv, Node!TakeReply, Node!InHandler, Node!Busy
      <4>2. served' = Node!HandedOut(req[t].key) \/ served' = served BY <3>1 DEF Node!TakeReply
      <4> QED BY <1>0, <4>1, <4>2, HistoryIs DEF TypeInv
    <3>2. CASE Node!DelReply(t)
      <4>1. served' = Node!Spared({req[t].key}) \/ served' = served BY <3>2 DEF Node!DelReply
      <4> QED BY <1>0, <4>1, HistoryIs DEF TypeInv
    <3>3. CASE ~Node!TakeReply(t) /\ ~Node!DelReply(t)
      <4>1. UNCHANGED served
        BY <1>2, <3>3 DEF HandlerAt, Node!LockRai, Node!SendCmd, Node!ReplyLost, Node!SendDel,
             Node!DelLost, Node!UnlockRai, Node!Respond, Node!CloseIdle
      <4> QED BY <1>0, <4>1 DEF TypeInv
    <3> QED BY <3>1, <3>2, <3>3
  <2> QED BY <1>0, <1>2, <2>1, <2>2 DEF TypeInv
<1>3. CASE ListenerStep \/ \E c \in Addresses \ {Localhost} : Accept(c)
  BY <1>0, <1>3, ListenerMoves DEF TypeInv
<1>4. CASE Execute
  <2>1. \E c : served' = Node!Fresh(c) BY <1>4 DEF Execute, Node!Execute
  <2>2. UNCHANGED <<pc, req, lpc, ip>> BY <1>4 DEF Execute, Node!Execute
  <2> QED BY <1>0, <2>1, <2>2, FreshTyped DEF TypeInv
<1>5. CASE NetworkStep
  <2>1. (\E c : served' = Node!Fresh(c)) \/ UNCHANGED served
    BY <1>5 DEF NetworkStep, Node!Refuse, Node!Break, Node!OrphanRuns
  <2>2. UNCHANGED <<pc, req, lpc, ip>>
    BY <1>5 DEF NetworkStep, Node!Refuse, Node!Break, Node!OrphanRuns
  <2> QED BY <1>0, <2>1, <2>2, FreshTyped DEF TypeInv
<1>6. CASE Tick \/ Expire \/ Signal \/ MainStep \/ UNCHANGED vars
  <2>1. served' = served \/ served' = Node!Spared(Keys)
    BY <1>6 DEF Tick, Expire, Signal, Node!Signal, MainStep, Node!MainStep, Node!LeaveMainLoop,
         Node!DaemonStopped, Node!Disconnect, vars
  <2>2. served' \in [Keys -> Node!History] /\ \A c \in Addresses : served'[c] = "unread"
    BY <1>0, <2>1, HistoryIs DEF TypeInv
  <2>3. UNCHANGED <<pc, req, lpc, ip>>
    BY <1>6 DEF Tick, Expire, Node!KeyExpires, Signal, Node!Signal, MainStep, Node!MainStep,
         Node!LeaveMainLoop, Node!DaemonStopped, Node!Disconnect, vars
  <2> QED BY <1>0, <2>2, <2>3 DEF TypeInv
<1>7. CASE Crash
  <2>1. served' \in [Keys -> Node!History] /\ \A c \in Addresses : served'[c] = "unread"
    BY <1>0, <1>7, HistoryIs DEF Crash, Node!Crash
  <2> QED BY <1>0, <1>7, <2>1, WebstoreAssumption DEF Crash, Node!Crash, Conn!ForgetDecision, TypeInv
<1>8. CASE Restart
  BY <1>0, <1>8 DEF Restart, Node!Restart, TypeInv, Keys
<1> QED BY <1>1, <1>2, <1>3, <1>4, <1>5, <1>6, <1>7, <1>8, Steps

(* MHD_stop_daemon joins the handlers and the accepting thread, and only    *)
(* then is the context freed (webstore_stop).                               *)
LEMMA StopStep == IInv /\ [Next]_vars => StopInv'
<1> SUFFICES ASSUME IInv, [Next]_vars PROVE StopInv' OBVIOUS
<1> USE DEF listenerVars, handlerVars, Node!raiVars, Node!handlerVars, Node!processVars
<1>0. StopInv /\ TypeInv BY DEF IInv
<1>1. ASSUME NEW t \in Handlers, Enter(t) PROVE StopInv'
  BY <1>0, <1>1, Entering DEF StopInv
<1>2. ASSUME NEW t \in Handlers, HandlerAt(t), UNCHANGED listenerVars PROVE StopInv'
  <2>1. pc[t] # "closed" /\ UNCHANGED mainpc /\ (UNCHANGED ctx \/ (ctx' = "err" /\ ctx # "none"))
    BY <1>2, HandlerMoves
  <2> QED BY <1>0, <1>2, <2>1 DEF StopInv
<1>3. CASE ListenerStep \/ \E c \in Addresses \ {Localhost} : Accept(c)
  BY <1>0, <1>3, ListenerMoves DEF StopInv
<1>4. CASE Execute \/ NetworkStep \/ Tick \/ Expire \/ Signal \/ UNCHANGED vars
  <2>1. UNCHANGED <<mainpc, ctx, pc, lpc>>
    BY <1>4 DEF Execute, Node!Execute, Node!RedisExecutes, NetworkStep, Node!Refuse,
         Node!RedisRefuses, Node!Break, Node!ConnectionBreaks, Node!OrphanRuns,
         Node!OrphanExecutes, Node!OrphanIsLost, Tick, Expire, Node!KeyExpires, Signal, Node!Signal, vars
  <2> QED BY <1>0, <2>1 DEF StopInv
<1>5. CASE MainStep
  BY <1>0, <1>5 DEF MainStep, Node!MainStep, Node!LeaveMainLoop, Node!DaemonStopped,
       Node!Disconnect, Node!rai_disconnect, StopInv
<1>6. CASE Crash \/ Restart
  BY <1>0, <1>6 DEF Crash, Node!Crash, Node!RaiCrash, Restart, Node!Restart, Node!rai_connect,
       StopInv
<1> QED BY <1>1, <1>2, <1>3, <1>4, <1>5, <1>6, Steps

(* A thread goes on waiting for the command it sent, whatever others do.    *)
LEMMA StillWaiting ==
  ASSUME NEW u \in Calling, UNCHANGED rt,
         u = Listener => UNCHANGED <<lpc, ip, found>>,
         u \in Handlers => pc'[u] = pc[u] /\ req'[u] = req[u]
  PROVE  u \in Calling' /\ Issued(u)' = Issued(u)
<1>1. CASE u = Listener
  <2>1. UNCHANGED <<lpc, ip, found>> BY <1>1
  <2>2. u \in Calling' BY <1>1, <2>1, WebstoreAssumption DEF Calling
  <2>3. Issued(u)' = Issued(u)
    BY <1>1, <2>1 DEF Issued, Conn!Get, Conn!CountCommand, Conn!Incr, Conn!Set
  <2> QED BY <2>2, <2>3
<1>2. CASE u # Listener
  <2>1. u \in Handlers /\ pc[u] \in Node!Calling BY <1>2 DEF Calling
  <2>2. u \in Calling' BY <2>1 DEF Calling, Node!Calling
  <2>3. Issued(u)' = Issued(u)
    BY <1>2, <2>1 DEF Issued, Node!Issued, Node!CommandOf, Node!Get, Node!Set, Node!Del
  <2> QED BY <2>2, <2>3
<1> QED BY <1>1, <1>2

(* No step puts a second command on the wire, or one that is not its        *)
(* sender's; a connection that is gone has nothing on it.                   *)
LEMMA WireStep == IInv /\ [Next]_vars => WireInv'
<1> SUFFICES ASSUME IInv, [Next]_vars PROVE WireInv' OBVIOUS
<1> USE WebstoreAssumption DEF listenerVars, handlerVars, Node!raiVars, Node!handlerVars, Node!processVars
<1>0. /\ UNCHANGED rt
      /\ pc \in [Handlers -> Node!InHandler \cup {"idle", "respond", "closed"}]
      /\ req \in [Handlers -> Node!Request \cup {NoReq}]
  BY ConfigStays DEF IInv, TypeInv
<1>e. ASSUME wire' = <<>> PROVE WireInv' BY <1>e DEF WireInv
(* A step that leaves the connection and the waiting threads as they are.   *)
<1>1. ASSUME UNCHANGED <<wire, ctx, link>>,
             \A u \in Calling : u \in Calling' /\ Issued(u)' = Issued(u)
      PROVE  WireInv'
  <2>1. CASE wire = <<>> BY <1>1, <1>e, <2>1
  <2>2. CASE wire # <<>>
    <3>1. /\ wire = <<[by |-> wire[1].by, cmd |-> wire[1].cmd, reply |-> wire[1].reply]>>
          /\ wire[1].by \in Calling /\ wire[1].cmd = Issued(wire[1].by) /\ Node!Alive
      BY <2>2, WireOwner
    <3>2. PICK b \in Calling : b = wire[1].by BY <3>1
    <3>3. wire'[1].by = b /\ b \in Calling' /\ wire[1].cmd = Issued(b)' /\ Node!Alive'
      BY <1>1, <3>1, <3>2 DEF Node!Alive
    <3> QED BY <1>1, <3>1, <3>2, <3>3 DEF WireInv
  <2> QED BY <2>1, <2>2
(* A thread sends.                                                          *)
<1>2. ASSUME NEW t, NEW c, wire = <<>>, UNCHANGED <<ctx, link>>,
             wire' = IF Node!Alive THEN Append(wire, [by |-> t, cmd |-> c, reply |-> Pending])
                                   ELSE wire,
             t \in Calling', Issued(t)' = c
      PROVE  WireInv'
  <2>1. CASE wire' = <<>> BY <1>e, <2>1
  <2>2. CASE wire' # <<>>
    <3>1. /\ Node!Alive
          /\ wire' = <<[by |-> t, cmd |-> c, reply |-> Pending]>>
          /\ wire'[1].by = t /\ wire'[1].cmd = c /\ wire'[1].reply = Pending
      BY <1>2, <2>2, SendOne
    <3>2. Node!Alive' BY <1>2, <3>1 DEF Node!Alive
    <3> QED BY <1>2, <3>1, <3>2 DEF WireInv
  <2> QED BY <2>1, <2>2
(* redis answers.                                                           *)
<1>3. ASSUME NEW i \in 1..Len(wire), NEW r, wire' = [wire EXCEPT ![i].reply = r],
             UNCHANGED <<ctx, link, pc, req, lpc, ip, found>>
      PROVE  WireInv'
  <2>1. /\ wire # <<>>
        /\ wire[1].by \in Calling /\ wire[1].cmd = Issued(wire[1].by) /\ Node!Alive
    BY FirstIsOnly, WireOwner
  <2> DEFINE b == wire[1].by
             c == wire[1].cmd
  <2>2. wire' = <<[by |-> b, cmd |-> c, reply |-> r]>> /\ wire'[1].by = b /\ wire'[1].reply = r
    BY <1>3, Answering
  <2>3. b \in Calling' /\ Issued(b)' = c BY <1>0, <1>3, <2>1, StillWaiting
  <2> QED BY <1>3, <2>1, <2>2, <2>3 DEF WireInv, Node!Alive
<1>4. ASSUME NEW t \in Handlers, Enter(t) PROVE WireInv'
  <2>1. /\ pc[t] = "idle" /\ UNCHANGED <<wire, ctx, link, lpc, ip, found>>
        /\ \A u \in Handlers \ {t} : pc'[u] = pc[u] /\ req'[u] = req[u]
    BY <1>0, <1>4, Entering DEF IInv
  <2>2. t \notin Calling BY <2>1 DEF Calling, Node!Calling
  <2> QED BY <1>0, <1>1, <2>1, <2>2, StillWaiting
<1>5. ASSUME NEW t \in Handlers, UNCHANGED listenerVars,
             Node!LockRai(t) \/ Node!UnlockRai(t) \/ Node!Respond(t) \/ Node!CloseIdle(t)
      PROVE  WireInv'
  <2>1. /\ pc[t] \notin Node!Calling /\ UNCHANGED <<wire, ctx, link>>
        /\ \A u \in Handlers \ {t} : pc'[u] = pc[u] /\ req'[u] = req[u]
    BY <1>0, <1>5 DEF Node!LockRai, Node!UnlockRai, Node!Respond, Node!CloseIdle, Node!Calling
  <2>2. t \notin Calling BY <2>1 DEF Calling
  <2> QED BY <1>0, <1>1, <1>5, <2>1, <2>2, StillWaiting
<1>6. ASSUME NEW t \in Handlers, UNCHANGED listenerVars, Node!SendCmd(t) PROVE WireInv'
  <2>1. t \in Critical /\ t \notin Calling
    BY <1>6 DEF Critical, Calling, Node!SendCmd, Node!Busy, Node!Calling
  <2>2. wire = <<>> BY <2>1, WireFree
  <2>3. pc'[t] = "reply" /\ UNCHANGED <<ctx, link, req>> BY <1>0, <1>6 DEF Node!SendCmd
  <2>4. t \in Calling' BY <2>3 DEF Calling, Node!Calling
  <2>5. Issued(t)' = Node!CommandOf(req[t])
    BY <1>0, <2>3 DEF Issued, Node!Issued, Node!CommandOf, Node!Get, Node!Set
  <2> QED BY <1>2, <1>6, <2>2, <2>3, <2>4, <2>5 DEF Node!SendCmd, Node!Send
<1>7. ASSUME NEW t \in Handlers, UNCHANGED listenerVars, Node!SendDel(t) PROVE WireInv'
  <2>1. t \in Critical /\ t \notin Calling
    BY <1>7 DEF Critical, Calling, Node!SendDel, Node!Busy, Node!Calling
  <2>2. wire = <<>> BY <2>1, WireFree
  <2>3. pc'[t] = "delreply" /\ UNCHANGED <<ctx, link, req>> BY <1>0, <1>7 DEF Node!SendDel
  <2>4. t \in Calling' BY <2>3 DEF Calling, Node!Calling
  <2>5. Issued(t)' = Node!Del(req[t].key)
    BY <2>3 DEF Issued, Node!Issued, Node!Del
  <2> QED BY <1>2, <1>7, <2>2, <2>3, <2>4, <2>5 DEF Node!SendDel, Node!Send
<1>8. ASSUME NEW t \in Handlers,
             Node!TakeReply(t) \/ Node!DelReply(t) \/ Node!ReplyLost(t) \/ Node!DelLost(t)
      PROVE  WireInv'
  <2>1. CASE wire = <<>>
    BY <1>8, <1>e, <2>1 DEF Node!TakeReply, Node!DelReply, Node!Receive, Node!Answered,
         Node!ReplyLost, Node!DelLost
  <2>2. CASE wire # <<>>
    <3>1. Node!Alive /\ Tail(wire) = <<>> BY <2>2, WireOwner
    <3>2. CASE Node!TakeReply(t) \/ Node!DelReply(t)
      BY <1>e, <3>1, <3>2 DEF Node!TakeReply, Node!DelReply, Node!Receive
    <3>3. CASE Node!ReplyLost(t) \/ Node!DelLost(t)
      BY <3>1, <3>3 DEF Node!ReplyLost, Node!DelLost, Node!ReceiveNull
    <3> QED BY <1>8, <3>2, <3>3
  <2> QED BY <2>1, <2>2
(* The accepting thread when it is not inside redisCommand.                 *)
<1>9. ASSUME UNCHANGED <<rt, pc, req, wire, ctx, link>>, Listener \notin Calling
      PROVE  WireInv'
  BY <1>1, <1>9, StillWaiting
<1>10. CASE \E c \in Addresses \ {Localhost} : Accept(c)
  <2>1. UNCHANGED <<rt, pc, req, wire, ctx, link>> /\ lpc = "idle"
    BY <1>10 DEF Accept, Conn!ws_addr_check, Conn!raiVars
  <2>2. Listener \notin Calling BY <2>1 DEF Calling
  <2> QED BY <1>9, <2>1, <2>2
<1>11. ASSUME UNCHANGED handlerVars, Conn!LockRai \/ Conn!UnlockRai \/ Conn!Answer PROVE WireInv'
  <2>1. UNCHANGED <<rt, pc, req, wire, ctx, link>> /\ lpc \in {"lock", "unlock", "decide"}
    BY <1>11 DEF Conn!LockRai, Conn!UnlockRai, Conn!Answer, Conn!raiVars
  <2>2. Listener \notin Calling BY <2>1 DEF Calling
  <2> QED BY <1>9, <2>1, <2>2
<1>12. ASSUME UNCHANGED handlerVars, Conn!SendGet PROVE WireInv'
  <2>1. Listener \in Critical /\ Listener \notin Calling
    BY <1>12 DEF Critical, Calling, Conn!SendGet
  <2>2. wire = <<>> BY <2>1, WireFree
  <2>3. lpc' = "getreply" /\ UNCHANGED <<ctx, link, ip>> BY <1>12 DEF Conn!SendGet
  <2>4. Listener \in Calling' BY <2>3 DEF Calling
  <2>5. Issued(Listener)' = Conn!Get(ip) BY <2>3 DEF Issued, Conn!Get
  <2> QED BY <1>2, <1>12, <2>2, <2>3, <2>4, <2>5 DEF Conn!SendGet, Conn!Send, Conn!Alive, Node!Alive
<1>13. ASSUME UNCHANGED handlerVars, Conn!SendCount PROVE WireInv'
  <2>1. Listener \in Critical /\ Listener \notin Calling
    BY <1>13 DEF Critical, Calling, Conn!SendCount
  <2>2. wire = <<>> BY <2>1, WireFree
  <2>3. lpc' = "savereply" /\ UNCHANGED <<ctx, link, ip, found>> BY <1>13 DEF Conn!SendCount
  <2>4. Listener \in Calling' BY <2>3 DEF Calling
  <2>5. Issued(Listener)' = Conn!CountCommand
    BY <2>3 DEF Issued, Conn!CountCommand, Conn!Incr, Conn!Set
  <2> QED BY <1>2, <1>13, <2>2, <2>3, <2>4, <2>5
          DEF Conn!SendCount, Conn!Send, Conn!Alive, Node!Alive
<1>14. ASSUME Conn!CheckCount \/ Conn!CheckLost \/ Conn!CountReply \/ Conn!CountLost
       PROVE  WireInv'
  <2>1. CASE wire = <<>>
    BY <1>14, <1>e, <2>1 DEF Conn!CheckCount, Conn!CountReply, Conn!Receive, Conn!Answered,
         Conn!CheckLost, Conn!CountLost
  <2>2. CASE wire # <<>>
    <3>1. Node!Alive /\ Tail(wire) = <<>> BY <2>2, WireOwner
    <3>2. CASE Conn!CheckCount \/ Conn!CountReply
      BY <1>e, <3>1, <3>2 DEF Conn!CheckCount, Conn!CountReply, Conn!Receive
    <3>3. CASE Conn!CheckLost \/ Conn!CountLost
      BY <3>1, <3>3 DEF Conn!CheckLost, Conn!CountLost, Conn!ReceiveNull, Conn!Alive, Node!Alive
    <3> QED BY <1>14, <3>2, <3>3
  <2> QED BY <2>1, <2>2
<1>15. CASE ListenerStep
  BY <1>15, <1>11, <1>12, <1>13, <1>14 DEF ListenerStep, Conn!allow_ip
<1>16. CASE Execute
  <2>1. PICK i \in 1..Len(wire) :
          /\ wire' = [wire EXCEPT ![i].reply = Node!ReplyTo(db, wire[i].cmd)]
          /\ UNCHANGED <<ctx, link>>
    BY <1>16 DEF Execute, Node!Execute, Node!RedisExecutes
  <2>2. UNCHANGED <<pc, req, lpc, ip, found>> BY <1>16 DEF Execute, Node!Execute
  <2> QED BY <1>3, <2>1, <2>2
<1>17. CASE Node!Refuse /\ UNCHANGED listenerVars
  <2>1. PICK i \in 1..Len(wire) :
          /\ wire' = [wire EXCEPT ![i].reply = Node!Plain("ERROR")]
          /\ UNCHANGED <<ctx, link>>
    BY <1>17 DEF Node!Refuse, Node!RedisRefuses
  <2>2. UNCHANGED <<pc, req, lpc, ip, found>> BY <1>17 DEF Node!Refuse
  <2> QED BY <1>3, <2>1, <2>2
(* Nothing moves but redis' database, the clock and the main thread.        *)
<1>18. ASSUME UNCHANGED <<pc, req, wire, ctx, link, lpc, ip, found>> PROVE WireInv'
  BY <1>0, <1>1, <1>18, StillWaiting
<1>19. CASE NetworkStep
  <2>1. CASE Node!Break
    BY <1>e, <2>1 DEF Node!Break, Node!ConnectionBreaks
  <2>2. CASE Node!OrphanRuns
    BY <1>18, <1>19, <2>2 DEF NetworkStep, Node!OrphanRuns, Node!OrphanExecutes, Node!OrphanIsLost
  <2> QED BY <1>17, <1>19, <2>1, <2>2 DEF NetworkStep
<1>20. CASE Tick \/ Expire \/ Signal \/ UNCHANGED vars
  BY <1>18, <1>20 DEF Tick, Expire, Node!KeyExpires, Signal, Node!Signal, vars
<1>21. CASE MainStep
  <2>1. CASE Node!LeaveMainLoop \/ Node!DaemonStopped
    BY <1>18, <1>21, <2>1 DEF MainStep, Node!LeaveMainLoop, Node!DaemonStopped
  <2>2. CASE Node!Disconnect
    <3>1. mainpc = "joined" /\ wire' = wire BY <2>2 DEF Node!Disconnect, Node!rai_disconnect
    <3>2. Calling = {} BY <3>1 DEF IInv, StopInv, Calling, Node!Calling
    <3>3. wire = <<>> BY <3>2, WireOwner
    <3> QED BY <1>e, <3>1, <3>3
  <2> QED BY <1>21, <2>1, <2>2 DEF MainStep, Node!MainStep
<1>22. CASE Crash BY <1>e, <1>22 DEF Crash, Node!Crash, Node!RaiCrash
<1>23. CASE Restart
  <2>1. mainpc = "exited" /\ wire' = wire BY <1>23 DEF Restart, Node!Restart, Node!rai_connect
  <2>2. Calling = {} BY <2>1 DEF IInv, StopInv, Calling, Node!Calling
  <2>3. wire = <<>> BY <2>2, WireOwner
  <2> QED BY <1>e, <2>1, <2>3
<1> QED
  BY <1>4, <1>5, <1>6, <1>7, <1>8, <1>10, <1>15, <1>16, <1>19, <1>20, <1>21, <1>22, <1>23,
     Steps DEF HandlerAt

(* What redis finds in its input when a connection is gone was sent by a    *)
(* thread: a message for a token, its deletion, or a count.                 *)
LEMMA OrphanStep == IInv /\ [Next]_vars => orphans' \subseteq Writes'
<1> SUFFICES ASSUME IInv, [Next]_vars PROVE orphans' \subseteq Writes' OBVIOUS
<1>0. orphans \subseteq Writes BY DEF IInv
<1>1. Writes' = Writes
  <2>1. rt' = rt BY ConfigStays
  <2> QED BY <2>1 DEF Writes, Node!Set, Node!Del, Conn!Set, Conn!Incr
<1>2. Node!Unexecuted \subseteq Writes
  <2> SUFFICES ASSUME NEW i \in 1..Len(wire), wire[i].cmd.op # "GET" PROVE wire[i].cmd \in Writes
    BY DEF Node!Unexecuted
  <2>1. wire[i].cmd \in Reads \cup Writes BY FirstIsOnly, WireOwner, IssuedTyped
  <2> QED BY <2>1 DEF Reads, Node!Get
<1>3. orphans' \subseteq orphans \cup Node!Unexecuted
  <2> USE DEF Node!raiVars, Conn!raiVars
  <2>1. ASSUME NEW t \in Handlers, Enter(t) \/ HandlerAt(t) PROVE UNCHANGED orphans
    BY <2>1 DEF Enter, Node!EnterNode, Node!nodecfg, HandlerAt, Node!LockRai, Node!SendCmd,
         Node!TakeReply, Node!ReplyLost, Node!SendDel, Node!DelReply, Node!DelLost,
         Node!UnlockRai, Node!Respond, Node!CloseIdle
  <2>2. CASE ListenerStep \/ \E c \in Addresses : Accept(c)
    BY <2>2 DEF ListenerStep, Accept, Conn!ws_addr_check, Conn!allow_ip, Conn!LockRai,
         Conn!SendGet, Conn!CheckCount, Conn!CheckLost, Conn!SendCount, Conn!CountReply,
         Conn!CountLost, Conn!UnlockRai, Conn!Answer
  <2>3. CASE Execute \/ NetworkStep
    BY <2>3 DEF Execute, Node!Execute, Node!RedisExecutes, NetworkStep, Node!Refuse,
         Node!RedisRefuses, Node!Break, Node!ConnectionBreaks, Node!OrphanRuns,
         Node!OrphanExecutes, Node!OrphanIsLost
  <2>4. CASE Tick \/ Expire \/ Signal \/ MainStep \/ Crash \/ Restart \/ UNCHANGED vars
    BY <2>4 DEF Tick, Expire, Node!KeyExpires, Signal, Node!Signal, MainStep, Node!MainStep,
         Node!LeaveMainLoop, Node!DaemonStopped, Node!Disconnect, Node!rai_disconnect, Crash,
         Node!Crash, Node!RaiCrash, Restart, Node!Restart, Node!rai_connect, vars
  <2> QED BY <2>1, <2>2, <2>3, <2>4, Steps
<1> QED BY <1>0, <1>1, <1>2, <1>3

-----------------------------------------------------------------------------
(* Every reachable state of the server satisfies the inductive invariant.   *)
THEOREM Invariant == Spec => []IInv
<1>1. IInv /\ [Next]_vars => IInv'
  <2> SUFFICES ASSUME IInv, [Next]_vars PROVE IInv' OBVIOUS
  <2>1. DbInv' BY DbStep
  <2>2. TypeInv' BY TypeStep
  <2>3. RequestInv' BY RequestStep
  <2>4. MutexInv' BY MutexStep
  <2>5. WireInv' BY WireStep
  <2>6. StopInv' BY StopStep
  <2>7. (orphans \subseteq Writes)' BY OrphanStep
  <2> QED BY <2>1, <2>2, <2>3, <2>4, <2>5, <2>6, <2>7 DEF IInv
<1> QED BY InitIInv, <1>1, PTL DEF Spec

(* One thread at a time is in the middle of its commands, and the reply at  *)
(* the head of the connection is that of the thread that waits: handlers    *)
(* and allow_ip never take each other's replies.                            *)
THEOREM RepliesAreOwn == Spec => []OwnReply
<1>1. ASSUME IInv PROVE OwnReply
  <2>1. Cardinality(Critical) <= 1
    <3>1. CASE Critical = {} BY <3>1, FS_EmptySet
    <3>2. CASE Critical # {}
      <4>1. PICK t \in Critical : TRUE BY <3>2
      <4>2. Critical = {t} BY <1>1, <4>1, OneCritical
      <4> QED BY <4>2, FS_Singleton
    <3> QED BY <3>1, <3>2
  <2>2. ASSUME NEW t \in Calling, wire # <<>> PROVE Head(wire).by = t
    BY <1>1, <2>2, WireOwner, CallingIsCritical, OneCritical
  <2> QED BY <2>1, <2>2 DEF OwnReply
<1> QED BY Invariant, <1>1, PTL

(* When MHD_stop_daemon has returned every handler and the accepting thread *)
(* have ended, the mutex is free and the wire is empty; nobody is left to   *)
(* use the context that rai_disconnect frees (webstore_stop).               *)
THEOREM QuietBeforeDisconnect == Spec => []QuietAtDisconnect
<1>1. ASSUME IInv PROVE QuietAtDisconnect
  <2>1. ASSUME mainpc \in {"joined", "exited"}
        PROVE  /\ lpc = "idle" /\ Critical = {} /\ owner = NoOwner /\ wire = <<>>
               /\ \A t \in Handlers : pc[t] = "closed"
    <3>1. lpc = "idle" /\ \A t \in Handlers : pc[t] = "closed"
      BY <1>1, <2>1 DEF IInv, StopInv
    <3>2. Critical = {} BY <3>1 DEF Critical, Node!Busy
    <3>3. wire = <<>> BY <1>1, <3>2, WireOwner
    <3>4. owner = NoOwner
      <4>1. rt.multithreaded \in BOOLEAN BY <1>1, WebstoreAssumption DEF IInv, TypeInv
      <4> QED BY <1>1, <3>2, <4>1 DEF IInv, MutexInv
    <3> QED BY <3>1, <3>2, <3>3, <3>4
  <2>2. ctx = "none" => mainpc = "exited" BY <1>1 DEF IInv, StopInv
  <2>3. Node!QuietAtDisconnect
    BY <2>1, <2>2 DEF Node!QuietAtDisconnect, Node!InHandler, Node!Busy
  <2> QED BY <2>1, <2>2, <2>3 DEF QuietAtDisconnect
<1> QED BY Invariant, <1>1, PTL

-----------------------------------------------------------------------------
(* Burn after reading.                                                      *)

(* Only the handler in the critical section has a DEL outstanding.          *)
LEMMA DelIsMine ==
  ASSUME IInv, NEW t \in Critical, NEW k, Node!DelOutstanding(k)
  PROVE  /\ t \in Handlers /\ pc[t] \in {"del", "delreply"} /\ req[t].key = k
         /\ pc[t] = "delreply" /\ Node!Alive => wire # <<>> /\ Node!Undone
<1>1. PICK u \in Handlers :
        /\ \/ pc[u] = "del"
           \/ pc[u] = "delreply" /\ (Node!Alive => wire # <<>> /\ Node!Undone)
        /\ req[u].key = k
  BY DEF Node!DelOutstanding
<1>2. u \in Critical BY <1>1 DEF Critical, Node!Busy
<1> QED BY <1>1, <1>2, OneCritical

(* A token's message, over the execution of a command: a new message begins *)
(* a new history, any other command brings none back.  Counters are other   *)
(* keys.                                                                    *)
LEMMA EffectOnToken ==
  ASSUME DbInv, TypeInv, NEW c \in Reads \cup Writes, NEW k \in Tokens
  PROVE  /\ \/ Node!Fresh(c)[k] = "unread"
            \/ /\ Node!Fresh(c)[k] = served[k]
               /\ Node!Exists(Node!Effect(db, c), k) => Node!Exists(db, k)
         /\ c.op = "DEL" /\ c.key = k => ~Node!Exists(Node!Effect(db, c), k)
         /\ c.op # "SET" => Node!Fresh(c) = served
         /\ c.op = "GET" => Node!Effect(db, c) = db
<1> USE WebstoreAssumption DEF Keys, Node!Exists
<1>0. /\ db \in [Keys -> [val: Messages \cup Nat, ttl: Nat] \cup {NoEntry}]
      /\ served \in [Keys -> Node!History] /\ rt \in Settings
  BY DEF DbInv, TypeInv
<1>1. CASE c \in Reads
  <2>1. c.op = "GET" BY <1>1 DEF Reads, Node!Get
  <2> QED BY <2>1 DEF Node!Effect, Node!SetApplies, Node!Fresh
<1>2. CASE c \in Writes /\ c.op = "SET"
  <2>1. c.key \in Keys BY <1>0, <1>2, WriteForm
  <2>2. CASE Node!SetApplies(db, c)
    <3>1. /\ Node!Fresh(c) = [served EXCEPT ![c.key] = "unread"]
          /\ Node!Effect(db, c) = [db EXCEPT ![c.key] = [val |-> c.val, ttl |-> c.ttl]]
      BY <1>2, <2>2 DEF Node!Fresh, Node!Effect
    <3> QED BY <1>0, <1>2, <2>1, <3>1
  <2>3. CASE ~Node!SetApplies(db, c)
    <3>1. Node!Fresh(c) = served /\ Node!Effect(db, c) = db
      BY <1>2, <2>3 DEF Node!Fresh, Node!Effect
    <3> QED BY <1>2, <3>1
  <2> QED BY <2>2, <2>3
<1>3. CASE c \in Writes /\ c.op = "DEL"
  <2>1. Node!Fresh(c) = served /\ Node!Effect(db, c) = [db EXCEPT ![c.key] = NoEntry]
    BY <1>3 DEF Node!Fresh, Node!Effect, Node!SetApplies
  <2> QED BY <1>0, <1>3, <2>1
<1>4. CASE c \in Writes /\ c.op = "INCR"
  <2>1. /\ Node!Fresh(c) = served
        /\ Node!Effect(db, c) = [db EXCEPT ![c.key] = Node!Incremented(db[c.key])]
    BY <1>4 DEF Node!Fresh, Node!Effect, Node!SetApplies
  <2>2. c.key # k BY <1>0, <1>4, WriteForm
  <2> QED BY <1>0, <1>4, <2>1, <2>2
<1> QED BY <1>0, <1>1, <1>2, <1>3, <1>4, WriteForm

(* A message that was handed out is deleted, or spared by a failure, or its *)
(* deletion is still to come, or nobody can be answered any more, whatever  *)
(* the limiter counts in between.                                           *)
LEMMA BurnStep == IInv /\ TypeInv' /\ Node!BurnInv /\ [Next]_vars => Node!BurnInv'
<1> SUFFICES ASSUME IInv, TypeInv', Node!BurnInv, [Next]_vars, rt'.bar, NEW k \in Keys
             PROVE  (/\ served[k] # "twice"
                     /\ served[k] \in Node!Handed /\ Node!Exists(db, k) =>
                          ctx = "err" \/ Node!DelOutstanding(k)
                     /\ Node!Answered /\ Head(wire).cmd = Node!Get(k)
                          /\ Head(wire).reply.type = "STRING" => served[k] \notin Node!Handed)'
  BY DEF Node!BurnInv
<1> DEFINE First == /\ Node!Answered
                    /\ Head(wire).cmd = Node!Get(k) /\ Head(wire).reply.type = "STRING"
           Goal == /\ served[k] # "twice"
                   /\ served[k] \in Node!Handed /\ Node!Exists(db, k) =>
                        ctx = "err" \/ Node!DelOutstanding(k)
                   /\ First => served[k] \notin Node!Handed
<1> USE WebstoreAssumption DEF listenerVars, handlerVars, Node!raiVars, Node!handlerVars, Node!processVars,
        Node!Exists
<1>0. /\ rt' = rt /\ served \in [Keys -> Node!History]
      /\ pc \in [Handlers -> Node!InHandler \cup {"idle", "respond", "closed"}]
      /\ req \in [Handlers -> Node!Request \cup {NoReq}]
      /\ DbInv /\ TypeInv
  BY ConfigStays DEF IInv, TypeInv
<1>k. Goal BY <1>0 DEF Node!BurnInv
(* Nobody reads the counters of the limiter.                                *)
<1>a. CASE k \in Addresses
  <2>1. served'[k] = "unread" BY <1>a DEF TypeInv
  <2> QED BY <2>1 DEF Node!Handed
<1>b. CASE k \in Tokens
(* A step that touches neither the wire nor a handler with a DEL            *)
(* outstanding, and brings no message back.                                 *)
<2>1. ASSUME UNCHANGED <<wire, ctx, link, served>>,
             Node!Exists(db', k) => Node!Exists(db, k),
             \A u \in Handlers : pc[u] \in {"del", "delreply"} => pc'[u] = pc[u] /\ req'[u] = req[u]
      PROVE  Goal'
  <3>1. Node!DelOutstanding(k) => Node!DelOutstanding(k)'
    BY <2>1 DEF Node!DelOutstanding, Node!Alive, Node!Answered, Node!Undone
  <3>2. First' => First BY <2>1 DEF Node!Answered
  <3> QED BY <1>k, <2>1, <3>1, <3>2
(* A step after which nothing is answered and the context is in error.      *)
<2>2. ASSUME ~Node!Answered', ctx' = "err", UNCHANGED served PROVE Goal'
  BY <1>k, <2>2
(* A step of a thread in its critical section with no DEL outstanding.      *)
<2>3. ASSUME ~Node!Answered', UNCHANGED <<ctx, db, served>>, ~Node!DelOutstanding(k)
      PROVE  Goal'
  BY <1>k, <2>3
<2>4. ASSUME NEW t \in Handlers, Enter(t) PROVE Goal'
  <3>1. /\ pc[t] = "idle" /\ UNCHANGED <<wire, ctx, link, db, served>>
        /\ \A u \in Handlers \ {t} : pc'[u] = pc[u] /\ req'[u] = req[u]
    BY <1>0, <2>4, Entering
  <3> QED BY <2>1, <3>1
<2>5. ASSUME NEW t \in Handlers,
             Node!LockRai(t) \/ Node!UnlockRai(t) \/ Node!Respond(t) \/ Node!CloseIdle(t)
      PROVE  Goal'
  <3>1. /\ pc[t] \notin {"del", "delreply"} /\ UNCHANGED <<wire, ctx, link, db, served>>
        /\ \A u \in Handlers \ {t} : pc'[u] = pc[u] /\ req'[u] = req[u]
    BY <1>0, <2>5 DEF Node!LockRai, Node!UnlockRai, Node!Respond, Node!CloseIdle
  <3> QED BY <2>1, <3>1
<2>6. ASSUME NEW t \in Handlers, Node!SendCmd(t) PROVE Goal'
  <3>1. t \in Critical /\ t \notin Calling /\ pc[t] = "cmd"
    BY <2>6 DEF Critical, Calling, Node!SendCmd, Node!Busy, Node!Calling
  <3>2. wire = <<>> /\ ~Node!DelOutstanding(k) BY <3>1, WireFree, DelIsMine
  <3>3. ~Node!Answered' BY <2>6, <3>2 DEF Node!SendCmd, Node!Send, Node!Answered
  <3> QED BY <2>3, <2>6, <3>2, <3>3 DEF Node!SendCmd
<2>7. ASSUME NEW t \in Handlers, Node!TakeReply(t) PROVE Goal'
  <3>1. /\ pc[t] = "reply" /\ t \in Calling /\ t \in Critical
        /\ wire # <<>> /\ wire' = <<>> /\ Node!Alive
    BY <2>7, WireOwner DEF Node!TakeReply, Node!Receive, Node!Answered, Calling, Critical,
                           Node!Calling, Node!Busy
  <3>2. ~Node!DelOutstanding(k) BY <3>1, DelIsMine
  <3>3. wire[1].by = t /\ Head(wire) = wire[1] /\ Head(wire).cmd = Node!CommandOf(req[t])
    BY <3>1, WireOwner, OneCritical DEF Issued, Node!Issued
  <3>4. req[t] \in Node!Request BY <3>1 DEF IInv, RequestInv, Node!InHandler, Node!Busy
  <3>5. ~Node!Answered' BY <3>1 DEF Node!Answered
  <3> DEFINE read == Node!ResultOf(req[t], Head(wire).reply).page # NoVal
  <3>6. CASE ~read \/ req[t].key # k
    <4>1. served'[k] = served[k] /\ UNCHANGED <<db, ctx>>
      <5>1. req[t].key \in Tokens BY <3>1 DEF IInv, RequestInv, Node!InHandler, Node!Busy
      <5> QED BY <1>0, <2>7, <3>6, <5>1, HistoryIs DEF Node!TakeReply
    <4> QED BY <1>k, <3>2, <3>5, <4>1
  <3>7. CASE read /\ req[t].key = k
    <4>1. req[t].kind = "GET" /\ Head(wire).reply.type = "STRING"
      BY <3>4, <3>7 DEF Node!ResultOf, Node!GetResult, Node!PostResult, Node!Status,
                        Node!Request
    <4>2. Head(wire).cmd = Node!Get(k) BY <3>3, <3>7, <4>1 DEF Node!CommandOf
    <4>3. served[k] \notin Node!Handed
      BY <1>k, <2>7, <4>1, <4>2 DEF Node!TakeReply, Node!Receive
    <4>4. served'[k] \in Node!Handed
      BY <1>b, <1>0, <1>k, <2>7, <3>7, <4>3, HistoryIs DEF Node!TakeReply
    <4>5. pc'[t] = "del" /\ req' = req BY <1>0, <2>7, <3>7 DEF Node!TakeReply
    <4>6. Node!DelOutstanding(k)' BY <3>7, <4>5 DEF Node!DelOutstanding
    <4> QED BY <3>5, <4>4, <4>6 DEF Node!Handed
  <3> QED BY <3>6, <3>7
<2>8. ASSUME NEW t \in Handlers, Node!ReplyLost(t) \/ Node!DelLost(t) PROVE Goal'
  <3>1. wire = <<>> BY <2>8, WireOwner DEF Node!ReplyLost, Node!DelLost, Node!ReceiveNull
  <3> QED BY <2>2, <2>8, <3>1 DEF Node!ReplyLost, Node!DelLost, Node!ReceiveNull, Node!Answered
<2>9. ASSUME NEW t \in Handlers, Node!SendDel(t) PROVE Goal'
  <3>1. t \in Critical /\ t \notin Calling /\ pc[t] = "del"
    BY <2>9 DEF Critical, Calling, Node!SendDel, Node!Busy, Node!Calling
  <3>2. wire = <<>> BY <3>1, WireFree
  <3>3. ~Node!Answered' /\ (Node!Alive' => wire' # <<>>)
    BY <2>9, <3>2 DEF Node!SendDel, Node!Send, Node!Answered, Node!Alive
  <3>4. pc'[t] = "delreply" /\ UNCHANGED <<req, db, ctx, link, served>>
    BY <1>0, <2>9 DEF Node!SendDel
  <3>5. Node!DelOutstanding(k) => Node!DelOutstanding(k)'
    BY <3>1, <3>3, <3>4, DelIsMine DEF Node!DelOutstanding, Node!Undone
  <3> QED BY <1>k, <3>3, <3>4, <3>5
<2>10. ASSUME NEW t \in Handlers, Node!DelReply(t) PROVE Goal'
  <3>1. /\ pc[t] = "delreply" /\ t \in Critical
        /\ Node!Alive /\ Node!Answered /\ wire' = <<>>
    BY <2>10, WireOwner DEF Node!DelReply, Node!Receive, Node!Answered, Critical, Node!Busy
  <3>2. Node!DelOutstanding(k) => Head(wire).reply.type = "ERROR" /\ req[t].key = k
    BY <3>1, DelIsMine DEF Node!Undone
  <3>3. UNCHANGED <<db, ctx>> /\ (served'[k] = served[k] \/ served'[k] = "spared")
    BY <1>0, <2>10, HistoryIs DEF Node!DelReply
  <3>4. Head(wire).reply.type = "ERROR" /\ req[t].key = k => served'[k] \notin Node!Handed
    BY <1>0, <2>10, HistoryIs DEF Node!DelReply
  <3> QED BY <1>k, <3>1, <3>2, <3>3, <3>4 DEF Node!Answered, Node!Handed
<2>11. CASE \E c \in Addresses \ {Localhost} : Accept(c)
  BY <2>1, <2>11 DEF Accept, Conn!ws_addr_check, Conn!raiVars
<2>12. ASSUME UNCHANGED <<handlerVars>>, Conn!LockRai \/ Conn!UnlockRai \/ Conn!Answer
       PROVE  Goal'
  BY <2>1, <2>12 DEF Conn!LockRai, Conn!UnlockRai, Conn!Answer, Conn!raiVars
<2>13. ASSUME UNCHANGED handlerVars, Conn!SendGet \/ Conn!SendCount PROVE Goal'
  <3>1. Listener \in Critical /\ Listener \notin Calling
    BY <2>13 DEF Critical, Calling, Conn!SendGet, Conn!SendCount
  <3>2. wire = <<>> /\ ~Node!DelOutstanding(k) BY <3>1, WireFree, DelIsMine
  <3>3. ~Node!Answered'
    BY <2>13, <3>2 DEF Conn!SendGet, Conn!SendCount, Conn!Send, Node!Answered
  <3> QED BY <2>3, <2>13, <3>2, <3>3 DEF Conn!SendGet, Conn!SendCount
<2>14. ASSUME UNCHANGED handlerVars, Conn!CheckCount \/ Conn!CountReply PROVE Goal'
  <3>1. Listener \in Critical /\ wire # <<>>
    BY <2>14 DEF Critical, Conn!CheckCount, Conn!CountReply, Conn!Receive, Conn!Answered
  <3>2. ~Node!DelOutstanding(k) BY <3>1, DelIsMine
  <3>3. wire' = <<>> /\ UNCHANGED <<ctx, db>>
    BY <2>14, <3>1, WireOwner DEF Conn!CheckCount, Conn!CountReply, Conn!Receive
  <3> QED BY <2>3, <2>14, <3>2, <3>3 DEF Node!Answered
<2>15. ASSUME UNCHANGED handlerVars, Conn!CheckLost \/ Conn!CountLost PROVE Goal'
  <3>1. wire = <<>> /\ wire' = wire /\ ctx' = "err"
    BY <2>15, WireOwner DEF Conn!CheckLost, Conn!CountLost, Conn!ReceiveNull, Conn!Alive, Node!Alive
  <3> QED BY <2>2, <2>15, <3>1 DEF Node!Answered
<2>16. CASE ListenerStep
  BY <2>12, <2>13, <2>14, <2>15, <2>16 DEF ListenerStep, Conn!allow_ip
<2>17. CASE Execute
  <3>1. PICK i \in 1..Len(wire) : Node!RedisExecutes(i) /\ served' = Node!Fresh(wire[i].cmd)
    BY <2>17 DEF Execute, Node!Execute
  <3>2. i = 1 /\ wire # <<>> /\ wire[1].reply = Pending
    BY <3>1, FirstIsOnly DEF Node!RedisExecutes, Node!FirstPending
  <3>3. /\ wire[1].by \in Calling /\ wire[1].by \in Critical
        /\ wire[1].cmd = Issued(wire[1].by) /\ Node!Alive /\ Head(wire) = wire[1]
    BY <3>2, WireOwner
  <3> DEFINE t == wire[1].by
             c == wire[1].cmd
  <3>4. c \in Reads \cup Writes BY <3>3, IssuedTyped
  <3>5. Head(wire').cmd = c /\ Head(wire').reply = Node!ReplyTo(db, c)
    <4> DEFINE r == Node!ReplyTo(db, c)
    <4>1. wire' = [wire EXCEPT ![i].reply = r] BY <3>1, <3>2 DEF Node!RedisExecutes
    <4> HIDE DEF r
    <4>2. Head(wire') = wire'[1] /\ wire'[1].cmd = wire[1].cmd /\ wire'[1].reply = r
      BY <4>1, Answering
    <4> QED BY <4>2 DEF r
  <3>6. db' = Node!Effect(db, c) /\ served' = Node!Fresh(c) /\ UNCHANGED ctx
    BY <3>1, <3>2 DEF Node!RedisExecutes
  <3>7. CASE Node!DelOutstanding(k)
    <4>1. t \in Handlers /\ pc[t] \in {"del", "delreply"} /\ req[t].key = k
      BY <3>3, <3>7, DelIsMine
    <4>2. c = Node!Del(k) BY <3>3, <4>1 DEF Issued, Node!Issued
    <4>3. c.op = "DEL" /\ c.key = k BY <4>2 DEF Node!Del
    <4>4. ~First' BY <3>5, <4>3 DEF Node!Get
    <4> QED BY <1>b, <1>0, <1>k, <3>4, <3>6, <4>3, <4>4, EffectOnToken DEF Node!Handed
  <3>8. CASE ~Node!DelOutstanding(k)
    <4>1. ~(served[k] \in Node!Handed /\ Node!Exists(db, k))
      BY <1>k, <3>3, <3>8 DEF Node!Alive
    <4>2. /\ served'[k] # "twice"
          /\ ~(served'[k] \in Node!Handed /\ Node!Exists(db', k))
      BY <1>b, <1>0, <1>k, <3>4, <3>6, <4>1, EffectOnToken DEF Node!Handed
    <4>3. First' => served'[k] \notin Node!Handed
      <5> SUFFICES ASSUME First' PROVE served'[k] \notin Node!Handed OBVIOUS
      <5>1. c.op = "GET" /\ c.key = k BY <3>5 DEF Node!Get
      <5>2. Node!Exists(db, k) BY <3>5, <5>1 DEF Node!ReplyTo, Node!Plain
      <5>3. served' = served BY <1>b, <1>0, <3>4, <3>6, <5>1, EffectOnToken
      <5> QED BY <1>0, <1>k, <4>1, <5>2, <5>3
    <4> QED BY <4>2, <4>3
  <3> QED BY <3>7, <3>8
<2>18. CASE NetworkStep
  <3>1. CASE Node!Break
    <4>1. ~Node!Alive' /\ ~Node!Answered' /\ UNCHANGED <<db, ctx, pc, req, served>>
      BY <3>1 DEF Node!Break, Node!ConnectionBreaks, Node!Alive, Node!Answered
    <4>2. Node!DelOutstanding(k) => Node!DelOutstanding(k)' BY <4>1 DEF Node!DelOutstanding
    <4> QED BY <1>k, <4>1, <4>2
  <3>2. CASE Node!OrphanRuns
    <4>1. PICK c \in orphans : \/ Node!OrphanExecutes(c) /\ served' = Node!Fresh(c)
                               \/ Node!OrphanIsLost(c) /\ UNCHANGED served
      BY <3>2 DEF Node!OrphanRuns
    <4>2. c \in Reads \cup Writes BY DEF IInv
    <4>3. UNCHANGED <<ctx, link, wire, pc, req>>
      BY <3>2, <4>1 DEF Node!OrphanRuns, Node!OrphanExecutes, Node!OrphanIsLost
    <4>4. Node!DelOutstanding(k) => Node!DelOutstanding(k)'
      BY <4>3 DEF Node!DelOutstanding, Node!Alive, Node!Answered, Node!Undone
    <4>5. \/ served'[k] = "unread"
          \/ served'[k] = served[k] /\ (Node!Exists(db', k) => Node!Exists(db, k))
      <5>1. CASE Node!OrphanIsLost(c) /\ UNCHANGED served BY <5>1 DEF Node!OrphanIsLost
      <5>2. CASE Node!OrphanExecutes(c) /\ served' = Node!Fresh(c)
        BY <1>b, <1>0, <4>2, <5>2, EffectOnToken DEF Node!OrphanExecutes
      <5> QED BY <4>1, <5>1, <5>2
    <4>6. First' => First BY <4>3 DEF Node!Answered
    <4> QED BY <1>k, <4>3, <4>4, <4>5, <4>6 DEF Node!Handed
  <3>3. CASE Node!Refuse
    <4>1. PICK i \in 1..Len(wire) : Node!RedisRefuses(i) BY <3>3 DEF Node!Refuse
    <4>2. i = 1 /\ wire # <<>> BY <4>1, FirstIsOnly DEF Node!RedisRefuses
    <4>3. wire' # <<>> /\ Head(wire').reply.type = "ERROR"
      <5>1. wire' = [wire EXCEPT ![i].reply = Node!Plain("ERROR")]
        BY <4>1 DEF Node!RedisRefuses
      <5>2. wire' # <<>> /\ Head(wire').reply = Node!Plain("ERROR") BY <5>1, Answering
      <5> QED BY <5>2 DEF Node!Plain
    <4>4. UNCHANGED <<db, ctx, link, pc, req, served>>
      BY <3>3, <4>1 DEF Node!Refuse, Node!RedisRefuses
    <4>5. Node!DelOutstanding(k) => Node!DelOutstanding(k)'
      BY <4>3, <4>4 DEF Node!DelOutstanding, Node!Undone, Node!Alive
    <4>6. ~First' BY <4>3
    <4> QED BY <1>k, <4>4, <4>5, <4>6
  <3> QED BY <2>18, <3>1, <3>2, <3>3 DEF NetworkStep
<2>19. CASE Tick
  <3>1. db' = [i \in Keys |-> IF i \in Addresses THEN Conn!Aged(db[i]) ELSE db[i]]
    BY <2>19 DEF Tick
  <3>2. Node!Exists(db', k) => Node!Exists(db, k) BY <1>b, <3>1
  <3> QED BY <2>1, <2>19, <3>2 DEF Tick
<2>20. CASE Signal \/ UNCHANGED vars
  BY <2>1, <2>20 DEF Signal, Node!Signal, vars
<2>21. CASE MainStep
  <3>1. CASE Node!LeaveMainLoop \/ Node!DaemonStopped
    BY <2>1, <3>1 DEF Node!LeaveMainLoop, Node!DaemonStopped
  <3>2. CASE Node!Disconnect
    <4>1. mainpc = "joined" /\ UNCHANGED <<wire, db>> /\ ctx' = "none"
      BY <3>2 DEF Node!Disconnect, Node!rai_disconnect
    <4>2. Calling = {} /\ \A t \in Handlers : pc[t] = "closed"
      BY <4>1 DEF IInv, StopInv, Calling, Node!Calling
    <4>3. ~Node!Answered' BY <4>1, <4>2, WireOwner DEF Node!Answered
    <4>4. ~Node!DelOutstanding(k) BY <4>2 DEF Node!DelOutstanding
    <4>5. CASE ctx = "err"
      <5>1. served'[k] \notin Node!Handed /\ served'[k] # "twice"
        BY <1>0, <1>k, <3>2, <4>5, HistoryIs DEF Node!Disconnect
      <5> QED BY <4>3, <5>1
    <4>6. CASE ctx # "err"
      <5>1. UNCHANGED served BY <3>2, <4>6 DEF Node!Disconnect
      <5> QED BY <1>k, <4>1, <4>3, <4>4, <4>6, <5>1
    <4> QED BY <4>5, <4>6
  <3> QED BY <2>21, <3>1, <3>2 DEF MainStep, Node!MainStep
<2>22. CASE Crash
  <3>1. ~Node!Answered' BY <2>22 DEF Crash, Node!Crash, Node!RaiCrash, Node!Answered
  <3>2. served'[k] \notin Node!Handed /\ served'[k] # "twice"
    BY <1>0, <1>k, <2>22, HistoryIs DEF Crash, Node!Crash
  <3> QED BY <3>1, <3>2
<2>23. CASE Restart
  <3>1. ctx = "none" /\ UNCHANGED <<wire, db, served>>
    BY <2>23 DEF Restart, Node!Restart, Node!rai_connect
  <3>2. mainpc = "exited" BY <3>1 DEF IInv, StopInv
  <3>3. Calling = {} /\ \A t \in Handlers : pc[t] = "closed"
    BY <3>2 DEF IInv, StopInv, Calling, Node!Calling
  <3>4. ~Node!Answered' BY <3>1, <3>3, WireOwner DEF Node!Answered
  <3>5. ~Node!DelOutstanding(k) BY <3>3 DEF Node!DelOutstanding
  <3> QED BY <1>k, <3>1, <3>4, <3>5
<2>24. CASE Expire
  <3>1. PICK i \in Tokens : db' = [db EXCEPT ![i] = NoEntry]
    BY <2>24 DEF Expire, Node!KeyExpires, Node!Expired
  <3>2. Node!Exists(db', k) => Node!Exists(db, k) BY <1>0, <3>1 DEF DbInv
  <3> QED BY <2>1, <2>24, <3>2 DEF Expire, Node!KeyExpires
<2> QED
  BY <2>4, <2>5, <2>6, <2>7, <2>8, <2>9, <2>10, <2>11, <2>16, <2>17, <2>18, <2>19, <2>20, <2>21,
     <2>22, <2>23, <2>24, Steps DEF HandlerAt
<1> QED BY <1>a, <1>b DEF Keys

(* With BAR, and with the limiter's commands between those of the handlers, *)
(* a message that was handed to a GET is handed to another one only after a *)
(* failure that spared it: a DEL that redis refused, or the end of the      *)
(* process in a crash or without its connection.  No restart forgets what   *)
(* was handed out (get(), do_redis_del, allow_ip).                          *)
THEOREM BurnOnce == Spec => []RereadOnlyIfSpared
<1>1. ASSUME Init PROVE Node!BurnInv
  <2>1. ~Node!Answered BY <1>1 DEF Init, Node!Init, Node!RaiInit, Node!Answered
  <2>2. \A k \in Keys : served[k] = "unread" BY <1>1, Zenon DEF Init, Node!Init
  <2>3. "unread" \notin Node!Handed /\ "unread" # "twice" BY DEF Node!Handed
  <2> QED BY <2>1, <2>2, <2>3, Zenon DEF Node!BurnInv
<1>2. Node!BurnInv => RereadOnlyIfSpared
  BY DEF Node!BurnInv, RereadOnlyIfSpared, Node!RereadOnlyIfSpared
<1>3. IInv /\ Node!BurnInv /\ [Next]_vars => Node!BurnInv'
  BY TypeStep, BurnStep
<1> QED BY Invariant, <1>1, <1>2, <1>3, PTL DEF Spec

-----------------------------------------------------------------------------
(* The server without its accepting thread: what the handlers are aware of. *)

(* What is not touched looks the same; a thread's own wire is no other's.   *)
LEMMA Views ==
  /\ UNCHANGED db => UNCHANGED TokenDb
  /\ UNCHANGED served => UNCHANGED TokenServed
  /\ UNCHANGED orphans => UNCHANGED TokenOrphans
  /\ UNCHANGED owner => UNCHANGED HandlerOwner
  /\ UNCHANGED wire => UNCHANGED HandlerWire
BY DEF TokenDb, TokenServed, TokenOrphans, HandlerOwner, HandlerWire

(* What is spared among the tokens is what is spared of the tokens.         *)
LEMMA HistoryViews ==
  ASSUME IInv
  PROVE  /\ \A k \in Tokens :
              served' = Node!HandedOut(k) => TokenServed' = Alone!HandedOut(k)
         /\ \A ks : served' = Node!Spared(ks) => TokenServed' = Alone!Spared(ks)
         /\ Alone!Spared(Keys) = Alone!Spared(Tokens)
<1>1. /\ served \in [Keys -> Node!History]
      /\ \A k \in Tokens : k \in Keys /\ TokenServed[k] = served[k]
  BY DEF IInv, TypeInv, Keys, TokenServed
<1>2. ASSUME NEW k \in Tokens, served' = Node!HandedOut(k)
      PROVE  TokenServed' = Alone!HandedOut(k)
  BY <1>1, <1>2 DEF Node!HandedOut, Alone!HandedOut, TokenServed
<1>3. ASSUME NEW ks, served' = Node!Spared(ks) PROVE TokenServed' = Alone!Spared(ks)
  BY <1>1, <1>3 DEF Node!Spared, Alone!Spared, Node!Handed, Alone!Handed, TokenServed
<1>4. Alone!Spared(Keys) = Alone!Spared(Tokens) BY <1>1 DEF Alone!Spared
<1> QED BY <1>2, <1>3, <1>4

LEMMA WireViews ==
  /\ wire = <<>> => HandlerWire = <<>>
  /\ wire # <<>> /\ Head(wire).by \in Handlers => HandlerWire = wire
  /\ wire # <<>> /\ Head(wire).by = Listener => HandlerWire = <<>>
BY WebstoreAssumption DEF HandlerWire

(* A handler's command is for a token, the accepting thread's for an        *)
(* address.                                                                 *)
LEMMA WireKeys ==
  ASSUME IInv, wire # <<>>
  PROVE  /\ wire[1].by \in Handlers \cup {Listener}
         /\ wire[1].by \in Handlers => wire[1].cmd.key \in Tokens
         /\ wire[1].by = Listener => wire[1].cmd.key \in Addresses
<1>1. wire[1].by \in Calling /\ wire[1].cmd = Issued(wire[1].by) BY WireOwner
<1>2. wire[1].by \in Handlers \cup {Listener} BY <1>1 DEF Calling
<1>3. ASSUME wire[1].by \in Handlers PROVE wire[1].cmd.key \in Tokens
  <2>1. PICK t \in Handlers : t = wire[1].by BY <1>3
  <2>2. t # Listener /\ pc[t] \in Node!Calling BY <1>1, <2>1, WebstoreAssumption DEF Calling
  <2>3. req[t].key \in Tokens
    BY <2>2 DEF IInv, RequestInv, Node!Calling, Node!InHandler, Node!Busy
  <2>4. wire[1].cmd = Node!Issued(t) BY <1>1, <2>1, <2>2 DEF Issued
  <2> QED BY <2>3, <2>4 DEF Node!Issued, Node!CommandOf, Node!Get, Node!Set, Node!Del
<1>4. ASSUME wire[1].by = Listener PROVE wire[1].cmd.key \in Addresses
  <2>1. ip \in Addresses BY DEF IInv, TypeInv
  <2> QED BY <1>1, <1>4, <2>1 DEF Issued, Conn!Get, Conn!CountCommand, Conn!Incr, Conn!Set
<1> QED BY <1>2, <1>3, <1>4

(* A command for a token does among the tokens what it does in redis.       *)
LEMMA TokenCommand ==
  ASSUME DbInv, TypeInv, NEW c, c.key \in Tokens
  PROVE  /\ Alone!ReplyTo(TokenDb, c) = Node!ReplyTo(db, c)
         /\ Alone!Effect(TokenDb, c) = [k \in Tokens |-> Node!Effect(db, c)[k]]
         /\ Alone!Fresh(c) = [k \in Tokens |-> Node!Fresh(c)[k]]
<1>0. /\ TokenDb = [k \in Tokens |-> db[k]] /\ TokenServed = [k \in Tokens |-> served[k]]
      /\ DOMAIN db = Tokens \cup Addresses /\ DOMAIN served = Tokens \cup Addresses
      /\ TokenDb[c.key] = db[c.key]
      /\ \E S : db \in [Tokens \cup Addresses -> S]
      /\ \E S : served \in [Tokens \cup Addresses -> S]
  BY DEF DbInv, TypeInv, Keys, TokenDb, TokenServed
<1>1. /\ Alone!Exists(TokenDb, c.key) <=> Node!Exists(db, c.key)
      /\ Alone!SetApplies(TokenDb, c) <=> Node!SetApplies(db, c)
      /\ Alone!Incremented(db[c.key]) = Node!Incremented(db[c.key])
  BY <1>0 DEF Alone!Exists, Node!Exists, Alone!SetApplies, Node!SetApplies, Alone!Incremented,
              Node!Incremented
<1>2. Alone!ReplyTo(TokenDb, c) = Node!ReplyTo(db, c)
  BY <1>0, <1>1 DEF Alone!ReplyTo, Node!ReplyTo, Alone!Plain, Node!Plain, Alone!Exists,
                    Node!Exists
<1>3. ASSUME NEW v, NEW d, d = [db EXCEPT ![c.key] = v]
      PROVE  [TokenDb EXCEPT ![c.key] = v] = [k \in Tokens |-> d[k]]
  BY <1>0, <1>3
<1>4. Alone!Effect(TokenDb, c) = [k \in Tokens |-> Node!Effect(db, c)[k]]
  <2>1. CASE Node!SetApplies(db, c)
    <3>0. c.op = "SET" BY <2>1 DEF Node!SetApplies
    <3>1. PICK v : v = [val |-> c.val, ttl |-> c.ttl] OBVIOUS
    <3>2. Node!Effect(db, c) = [db EXCEPT ![c.key] = v]
      BY <2>1, <3>0, <3>1 DEF Node!Effect
    <3>3. Alone!Effect(TokenDb, c) = [TokenDb EXCEPT ![c.key] = v]
      BY <1>1, <2>1, <3>0, <3>1 DEF Alone!Effect
    <3> QED BY <1>3, <3>2, <3>3, Zenon
  <2>2. CASE ~Node!SetApplies(db, c) /\ c.op = "DEL"
    <3>1. Node!Effect(db, c) = [db EXCEPT ![c.key] = NoEntry] BY <2>2 DEF Node!Effect
    <3>2. Alone!Effect(TokenDb, c) = [TokenDb EXCEPT ![c.key] = NoEntry]
      BY <1>1, <2>2 DEF Alone!Effect
    <3> QED BY <1>3, <3>1, <3>2, Zenon
  <2>3. CASE ~Node!SetApplies(db, c) /\ c.op = "INCR"
    <3>1. PICK v : v = Node!Incremented(db[c.key]) OBVIOUS
    <3>2. Node!Effect(db, c) = [db EXCEPT ![c.key] = v] BY <2>3, <3>1 DEF Node!Effect
    <3>3. Alone!Effect(TokenDb, c) = [TokenDb EXCEPT ![c.key] = v]
      BY <1>0, <1>1, <2>3, <3>1 DEF Alone!Effect
    <3> QED BY <1>3, <3>2, <3>3, Zenon
  <2>4. CASE ~Node!SetApplies(db, c) /\ c.op \notin {"DEL", "INCR"}
    BY <1>0, <1>1, <2>4 DEF Alone!Effect, Node!Effect
  <2> QED BY <2>1, <2>2, <2>3, <2>4
<1>5. Alone!Fresh(c) = [k \in Tokens |-> Node!Fresh(c)[k]]
  BY <1>0, <1>1 DEF Alone!Fresh, Node!Fresh
<1> QED BY <1>2, <1>4, <1>5

(* A command for an address does nothing to the tokens.                     *)
LEMMA AddressCommand ==
  ASSUME DbInv, TypeInv, NEW c, c.key \in Addresses
  PROVE  /\ TokenDb = [k \in Tokens |-> Node!Effect(db, c)[k]]
         /\ TokenServed = [k \in Tokens |-> Node!Fresh(c)[k]]
<1>0. /\ TokenDb = [k \in Tokens |-> db[k]] /\ TokenServed = [k \in Tokens |-> served[k]]
      /\ \E S : db \in [Tokens \cup Addresses -> S]
      /\ \E S : served \in [Tokens \cup Addresses -> S]
      /\ c.key \notin Tokens
  BY WebstoreAssumption DEF DbInv, TypeInv, Keys, TokenDb, TokenServed
<1>1. \A k \in Tokens : Node!Effect(db, c)[k] = db[k]
  <2>1. Node!Effect(db, c) = db \/ \E v : Node!Effect(db, c) = [db EXCEPT ![c.key] = v]
    <3>1. CASE c.op = "SET" BY <3>1 DEF Node!Effect, Node!SetApplies
    <3>2. CASE c.op = "DEL" BY <3>2 DEF Node!Effect, Node!SetApplies
    <3>3. CASE c.op = "INCR" BY <3>3 DEF Node!Effect, Node!SetApplies
    <3>4. CASE c.op \notin {"SET", "DEL", "INCR"} BY <3>4 DEF Node!Effect, Node!SetApplies
    <3> QED BY <3>1, <3>2, <3>3, <3>4
  <2> QED BY <1>0, <2>1
<1>2. \A k \in Tokens : Node!Fresh(c)[k] = served[k]
  BY <1>0 DEF Node!Fresh
<1> QED BY <1>0, <1>1, <1>2

(* A step of the server is one of WebstoreNode, or it is not seen.          *)
Seen == Alone!Next \/ UNCHANGED Alone!vars

(* A step that the handlers do not see.                                     *)
LEMMA Unseen ==
  ASSUME UNCHANGED <<TokenDb, TokenServed, TokenOrphans, HandlerOwner, HandlerWire>>,
         UNCHANGED <<ctx, link, rt, shutdown, mainpc, pc, req, res>>
  PROVE  Seen
BY DEF Seen, Alone!vars, Alone!raiVars, Alone!handlerVars

(* A request comes in.                                                      *)
LEMMA EnterSeen ==
  ASSUME NEW t \in Handlers, Enter(t)
  PROVE  Seen
<1>1. /\ Node!EnterNode(t) \/ Node!nodecfg(t)
      /\ UNCHANGED <<db, owner, ctx, link, wire, orphans, rt, shutdown, mainpc, served>>
  BY DEF Enter, Node!EnterNode, Node!nodecfg, Node!raiVars
<1>2. UNCHANGED <<Alone!raiVars, rt, shutdown, mainpc, TokenServed>>
  BY <1>1, Views DEF Alone!raiVars
<1>3. Node!MayRun(t) => Alone!MayRun(t)
  BY DEF Node!MayRun, Alone!MayRun, Node!InHandler, Alone!InHandler, Node!Busy, Alone!Busy
<1>4. \A code : Node!Finish(t, code) => Alone!Finish(t, code)
  BY DEF Node!Finish, Alone!Finish, Node!Status, Alone!Status
<1>5. \A n, u : Node!get(t, n, u) => Alone!get(t, n, u)
  BY <1>4 DEF Node!get, Alone!get, Node!GoodUrl, Alone!GoodUrl, Node!Accept, Alone!Accept
<1>6. \A n, u, b : Node!post(t, n, u, b) => Alone!post(t, n, u, b)
  BY <1>4 DEF Node!post, Alone!post, Node!GoodUrl, Alone!GoodUrl, Node!GoodBody,
              Alone!GoodBody, Node!Accept, Alone!Accept
<1>7. CASE Node!EnterNode(t)
  <2> DEFINE Outcome == \/ shutdown /\ Alone!Finish(t, 503)
                        \/ /\ ~shutdown
                           /\ \E n \in Nodes, u \in Urls :
                                \/ Alone!get(t, n, u)
                                \/ \E b \in Bodies : Alone!post(t, n, u, b)
                                \/ Alone!Finish(t, 405)
  <2>1. Alone!MayRun(t) BY <1>3, <1>7 DEF Node!EnterNode
  <2>2. Outcome
    <3>1. CASE shutdown /\ Node!Finish(t, 503) BY <1>4, <3>1
    <3>2. CASE ~(shutdown /\ Node!Finish(t, 503))
      <4>1. PICK n \in Nodes, u \in Urls :
              /\ ~shutdown
              /\ \/ Node!get(t, n, u)
                 \/ \E b \in Bodies : Node!post(t, n, u, b)
                 \/ Node!Finish(t, 405)
        BY <1>7, <3>2, Zenon DEF Node!EnterNode
      <4>2. \/ Alone!get(t, n, u)
            \/ \E b \in Bodies : Alone!post(t, n, u, b)
            \/ Alone!Finish(t, 405)
        BY <1>4, <1>5, <1>6, <4>1, Zenon
      <4> QED BY <4>1, <4>2, Zenon
    <3> QED BY <3>1, <3>2
  <2>3. Alone!EnterNode(t) BY <1>2, <2>1, <2>2, Zenon DEF Alone!EnterNode
  <2> QED BY <2>3 DEF Seen, Alone!Next
<1>8. CASE Node!nodecfg(t)
  <2>0. Node!MayRun(t) /\ \E code \in {200, 404, 405} :
                            Node!Finish(t, IF shutdown THEN 503 ELSE code)
    BY <1>8 DEF Node!nodecfg
  <2>1. PICK code \in {200, 404, 405} : Node!Finish(t, IF shutdown THEN 503 ELSE code)
    BY <2>0
  <2>2. Alone!MayRun(t) /\ Alone!Finish(t, IF shutdown THEN 503 ELSE code)
    BY <1>3, <1>4, <2>0, <2>1
  <2>3. Alone!nodecfg(t) BY <1>2, <2>2, Zenon DEF Alone!nodecfg
  <2> QED BY <2>3 DEF Seen, Alone!Next
<1> QED BY <1>1, <1>7, <1>8

(* A handler's own steps: while it is in its critical section the wire is   *)
(* empty or its own, and the mutex is not the accepting thread's.           *)
LEMMA HandlerSeen ==
  ASSUME IInv, NEW t \in Handlers, HandlerAt(t)
  PROVE  Seen
<1> USE Views, WebstoreAssumption
<1>a. ASSUME Alone!Step(t) PROVE Seen BY <1>a DEF Seen, Alone!Next
<1>0. t # Listener OBVIOUS
(* Sending over an empty wire, and receiving what was sent.                 *)
<1>s. ASSUME NEW c, pc[t] \in {"cmd", "del"}, Node!Send(t, c) PROVE Alone!Send(t, c)
  <2>1. t \in Critical /\ t \notin Calling
    BY <1>0, <1>s DEF Critical, Calling, Node!Busy, Node!Calling
  <2>2. wire = <<>> /\ HandlerWire = <<>> BY <2>1, WireFree, WireViews
  <2>3. HandlerWire' = wire'
    BY <1>0, <1>s, <2>2 DEF Node!Send, HandlerWire
  <2> QED BY <1>s, <2>2, <2>3 DEF Node!Send, Alone!Send, Node!Alive, Alone!Alive
<1>r. ASSUME pc[t] \in {"reply", "delreply"}, Node!Receive
      PROVE  Alone!Receive /\ HandlerWire = wire
  <2>1. t \in Critical /\ wire # <<>>
    BY <1>r DEF Critical, Node!Busy, Node!Receive, Node!Answered
  <2>2. Head(wire).by = t /\ Tail(wire) = <<>> BY <2>1, WireOwner, OneCritical
  <2>3. HandlerWire = wire /\ HandlerWire' = <<>>
    BY <1>r, <2>1, <2>2, WireViews DEF Node!Receive, HandlerWire
  <2> QED BY <1>r, <2>2, <2>3 DEF Node!Receive, Alone!Receive, Node!Answered, Alone!Answered,
              Node!Alive, Alone!Alive
<1>1. CASE Node!LockRai(t)
  <2>1. Node!rai_lock(t) => Alone!rai_lock(t)
    BY <1>0 DEF Node!rai_lock, Alone!rai_lock, HandlerOwner
  <2>2. Alone!LockRai(t) BY <1>1, <2>1 DEF Node!LockRai, Alone!LockRai
  <2> QED BY <1>a, <2>2 DEF Alone!Step
<1>2. CASE Node!SendCmd(t)
  <2>1. Alone!CommandOf(req[t]) = Node!CommandOf(req[t])
    BY DEF Node!CommandOf, Alone!CommandOf, Node!Get, Alone!Get, Node!Set, Alone!Set
  <2>2. Alone!SendCmd(t) BY <1>2, <1>s, <2>1 DEF Node!SendCmd, Alone!SendCmd
  <2> QED BY <1>a, <2>2 DEF Alone!Step
<1>3. CASE Node!TakeReply(t)
  <2>1. Alone!Receive /\ HandlerWire = wire BY <1>3, <1>r DEF Node!TakeReply
  <2>2. \A q, r : Alone!ResultOf(q, r) = Node!ResultOf(q, r)
    BY DEF Node!ResultOf, Alone!ResultOf, Node!GetResult, Alone!GetResult, Node!PostResult,
           Alone!PostResult, Node!Status, Alone!Status
  <2>3. req[t].key \in Tokens
    BY <1>3 DEF IInv, RequestInv, Node!TakeReply, Node!InHandler, Node!Busy
  <2>4. served' = Node!HandedOut(req[t].key) => TokenServed' = Alone!HandedOut(req[t].key)
    BY <2>3, HistoryViews
  <2>5. Alone!TakeReply(t)
    BY <1>3, <2>1, <2>2, <2>4 DEF Node!TakeReply, Alone!TakeReply
  <2> QED BY <1>a, <2>5 DEF Alone!Step
<1>4. CASE Node!ReplyLost(t)
  <2>1. Alone!ReplyLost(t)
    BY <1>4 DEF Node!ReplyLost, Alone!ReplyLost, Node!ReceiveNull, Alone!ReceiveNull,
                Node!Alive, Alone!Alive, Node!Status, Alone!Status
  <2> QED BY <1>a, <2>1 DEF Alone!Step
<1>5. CASE Node!SendDel(t)
  <2>1. Alone!Del(req[t].key) = Node!Del(req[t].key) BY DEF Node!Del, Alone!Del
  <2>2. Alone!SendDel(t) BY <1>5, <1>s, <2>1 DEF Node!SendDel, Alone!SendDel
  <2> QED BY <1>a, <2>2 DEF Alone!Step
<1>6. CASE Node!DelReply(t)
  <2>1. served' = Node!Spared({req[t].key}) => TokenServed' = Alone!Spared({req[t].key})
    BY HistoryViews
  <2>2. Alone!DelReply(t) BY <1>6, <1>r, <2>1 DEF Node!DelReply, Alone!DelReply
  <2> QED BY <1>a, <2>2 DEF Alone!Step
<1>7. CASE Node!DelLost(t)
  <2>1. Alone!DelLost(t)
    BY <1>7 DEF Node!DelLost, Alone!DelLost, Node!ReceiveNull, Alone!ReceiveNull,
                Node!Alive, Alone!Alive
  <2> QED BY <1>a, <2>1 DEF Alone!Step
<1>8. CASE Node!UnlockRai(t)
  <2>1. Node!rai_unlock(t) => Alone!rai_unlock(t)
    BY DEF Node!rai_unlock, Alone!rai_unlock, HandlerOwner
  <2>2. Alone!UnlockRai(t) BY <1>8, <2>1 DEF Node!UnlockRai, Alone!UnlockRai
  <2> QED BY <1>a, <2>2 DEF Alone!Step
<1>9. CASE Node!Respond(t)
  <2>1. Alone!Respond(t)
    BY <1>9 DEF Node!Respond, Alone!Respond, Node!raiVars, Alone!raiVars, Node!NoResult,
                Alone!NoResult, Node!Status, Alone!Status
  <2> QED BY <1>a, <2>1 DEF Alone!Step
<1>10. CASE Node!CloseIdle(t)
  <2>1. Alone!CloseIdle(t)
    BY <1>10 DEF Node!CloseIdle, Alone!CloseIdle, Node!raiVars, Alone!raiVars
  <2> QED BY <1>a, <2>1 DEF Alone!Step
<1> QED BY <1>1, <1>2, <1>3, <1>4, <1>5, <1>6, <1>7, <1>8, <1>9, <1>10 DEF HandlerAt

(* What the accepting thread sends, receives and locks is its own; only a   *)
(* loss that it finds is seen, by what it does to the context.              *)
LEMMA ListenerSeen ==
  ASSUME IInv, ListenerStep \/ \E c \in Addresses \ {Localhost} : Accept(c)
  PROVE  Seen
<1> USE Views, WebstoreAssumption DEF handlerVars
<1>1. CASE \E c \in Addresses \ {Localhost} : Accept(c)
  BY <1>1, Unseen DEF Accept, Conn!ws_addr_check, Conn!raiVars
<1>2. ASSUME UNCHANGED handlerVars, Conn!LockRai \/ Conn!UnlockRai PROVE Seen
  <2>1. UNCHANGED HandlerOwner
    <3>1. CASE Conn!LockRai
      BY <3>1 DEF Conn!LockRai, Conn!rai_lock, HandlerOwner
    <3>2. CASE Conn!UnlockRai
      <4>1. rt.multithreaded => owner = Listener
        BY <3>2 DEF Conn!UnlockRai, IInv, MutexInv, Critical
      <4> QED BY <3>2, <4>1 DEF Conn!UnlockRai, Conn!rai_unlock, HandlerOwner
    <3> QED BY <1>2, <3>1, <3>2
  <2> QED BY <1>2, <2>1, Unseen DEF Conn!LockRai, Conn!UnlockRai
<1>3. ASSUME UNCHANGED handlerVars, Conn!Answer PROVE Seen
  BY <1>3, Unseen DEF Conn!Answer, Conn!raiVars
<1>4. ASSUME UNCHANGED handlerVars, Conn!SendGet \/ Conn!SendCount PROVE Seen
  <2>1. Listener \in Critical /\ Listener \notin Calling
    BY <1>4 DEF Critical, Calling, Conn!SendGet, Conn!SendCount
  <2>2. wire = <<>> BY <2>1, WireFree
  <2>3. HandlerWire = <<>> /\ HandlerWire' = <<>>
    BY <1>4, <2>2 DEF Conn!SendGet, Conn!SendCount, Conn!Send, HandlerWire
  <2> QED BY <1>4, <2>3, Unseen DEF Conn!SendGet, Conn!SendCount
<1>5. ASSUME UNCHANGED handlerVars, Conn!CheckCount \/ Conn!CountReply PROVE Seen
  <2>1. Listener \in Critical /\ wire # <<>>
    BY <1>5 DEF Critical, Conn!CheckCount, Conn!CountReply, Conn!Receive, Conn!Answered
  <2>2. Head(wire).by = Listener /\ Tail(wire) = <<>> BY <2>1, WireOwner, OneCritical
  <2>3. HandlerWire = <<>> /\ HandlerWire' = <<>>
    BY <1>5, <2>1, <2>2, WireViews DEF Conn!CheckCount, Conn!CountReply, Conn!Receive, HandlerWire
  <2> QED BY <1>5, <2>3, Unseen DEF Conn!CheckCount, Conn!CountReply
<1>6. ASSUME UNCHANGED handlerVars, Conn!CheckLost \/ Conn!CountLost PROVE Seen
  <2>1. mainpc \in {"run", "stopping"}
    BY <1>6 DEF Conn!CheckLost, Conn!CountLost, IInv, StopInv
  <2>2. Alone!LossFoundElsewhere
    BY <1>6, <2>1 DEF Conn!CheckLost, Conn!CountLost, Conn!ReceiveNull, Conn!Alive,
         Alone!LossFoundElsewhere, Alone!ReceiveNull, Alone!Alive, Alone!handlerVars
  <2> QED BY <2>2 DEF Seen, Alone!Next, Alone!Environment
<1> QED BY <1>1, <1>2, <1>3, <1>4, <1>5, <1>6 DEF ListenerStep, Conn!allow_ip

(* redis executes a handler's command, or one that is not seen.             *)
LEMMA ExecuteSeen ==
  ASSUME IInv, Execute
  PROVE  Seen
<1> USE Views, WebstoreAssumption DEF Node!processVars, Node!handlerVars
<1>0. DbInv /\ TypeInv BY DEF IInv
<1>1. PICK i \in 1..Len(wire) : Node!RedisExecutes(i) /\ served' = Node!Fresh(wire[i].cmd)
  BY DEF Execute, Node!Execute
<1>2. i = 1 /\ wire # <<>> /\ Len(wire) = 1 /\ Head(wire) = wire[1] BY FirstIsOnly, WireOwner
<1> DEFINE c == wire[1].cmd
<1>3. /\ Head(wire').by = wire[1].by /\ wire' # <<>>
      /\ db' = Node!Effect(db, c) /\ served' = Node!Fresh(c)
      /\ UNCHANGED <<owner, ctx, link, orphans, rt, shutdown, mainpc, pc, req, res>>
  BY <1>1, <1>2, Answering DEF Execute, Node!Execute, Node!RedisExecutes
<1>4. /\ TokenDb' = [k \in Tokens |-> Node!Effect(db, c)[k]]
      /\ TokenServed' = [k \in Tokens |-> Node!Fresh(c)[k]]
  BY <1>3 DEF TokenDb, TokenServed
<1>5. CASE wire[1].by = Listener
  <2>1. c.key \in Addresses BY <1>2, <1>5, WireKeys
  <2>2. UNCHANGED <<TokenDb, TokenServed>> BY <1>0, <1>4, <2>1, AddressCommand
  <2>3. HandlerWire = <<>> /\ HandlerWire' = <<>> BY <1>2, <1>3, <1>5 DEF HandlerWire
  <2> QED BY <1>3, <2>2, <2>3, Unseen
<1>6. CASE wire[1].by \in Handlers
  <2>1. c.key \in Tokens BY <1>2, <1>6, WireKeys
  <2>2. HandlerWire = wire /\ HandlerWire' = wire'
    BY <1>2, <1>3, <1>6 DEF HandlerWire
  <2>3. /\ TokenDb' = Alone!Effect(TokenDb, c) /\ TokenServed' = Alone!Fresh(c)
        /\ Node!ReplyTo(db, c) = Alone!ReplyTo(TokenDb, c)
    BY <1>0, <1>4, <2>1, TokenCommand
  <2>4. Alone!RedisExecutes(1)
    BY <1>1, <1>2, <1>3, <2>2, <2>3 DEF Node!RedisExecutes, Alone!RedisExecutes,
       Node!FirstPending, Alone!FirstPending
  <2>5. Alone!Execute
    BY <1>2, <1>3, <2>2, <2>3, <2>4 DEF Alone!Execute, Alone!processVars, Alone!handlerVars
  <2> QED BY <2>5 DEF Seen, Alone!Next, Alone!Environment
<1> QED BY <1>2, <1>5, <1>6, WireKeys

(* redis refuses a command, the connection breaks, a lost write takes       *)
(* effect late: of these, what concerns tokens is seen.                     *)
LEMMA UnexecutedSeen ==
  ASSUME IInv
  PROVE  Alone!Unexecuted = {c \in Node!Unexecuted : c.key \in Tokens}
<1>1. CASE wire = <<>>
  <2>1. HandlerWire = <<>> BY <1>1, WireViews
  <2> QED BY <1>1, <2>1 DEF Alone!Unexecuted, Node!Unexecuted
<1>2. CASE wire # <<>> /\ wire[1].by \in Handlers
  <2>1. HandlerWire = wire /\ wire[1].cmd.key \in Tokens
    BY <1>2, WireOwner, WireKeys, WireViews
  <2>2. Alone!Unexecuted = Node!Unexecuted BY <2>1 DEF Alone!Unexecuted, Node!Unexecuted
  <2>3. \A c \in Node!Unexecuted : c.key \in Tokens
    BY <2>1, FirstIsOnly DEF Node!Unexecuted
  <2> QED BY <2>2, <2>3
<1>3. CASE wire # <<>> /\ wire[1].by = Listener
  <2>1. HandlerWire = <<>> /\ wire[1].cmd.key \notin Tokens
    BY <1>3, WireOwner, WireKeys, WireViews, WebstoreAssumption
  <2>2. \A c \in Node!Unexecuted : c.key \notin Tokens
    BY <2>1, FirstIsOnly DEF Node!Unexecuted
  <2>3. Alone!Unexecuted = {} BY <2>1 DEF Alone!Unexecuted
  <2> QED BY <2>2, <2>3
<1> QED BY <1>1, <1>2, <1>3, WireKeys

LEMMA NetworkSeen ==
  ASSUME IInv, NetworkStep
  PROVE  Seen
<1> USE Views, WebstoreAssumption DEF Node!processVars, Node!handlerVars
<1>0. DbInv /\ TypeInv BY DEF IInv
<1>a. ASSUME Alone!Environment PROVE Seen BY <1>a DEF Seen, Alone!Next
<1>1. CASE Node!Refuse
  <2>1. PICK i \in 1..Len(wire) : Node!RedisRefuses(i) BY <1>1 DEF Node!Refuse
  <2>2. i = 1 /\ wire # <<>> /\ Len(wire) = 1 /\ Head(wire) = wire[1] BY FirstIsOnly, WireOwner
  <2>3. /\ Head(wire').by = wire[1].by /\ wire' # <<>>
        /\ UNCHANGED <<db, owner, ctx, link, orphans, rt, shutdown, mainpc, pc, req, res, served>>
    BY <1>1, <2>1, <2>2, Answering DEF Node!Refuse, Node!RedisRefuses
  <2>4. CASE wire[1].by = Listener
    <3>1. HandlerWire = <<>> /\ HandlerWire' = <<>> BY <2>2, <2>3, <2>4 DEF HandlerWire
    <3> QED BY <2>3, <3>1, Unseen
  <2>5. CASE wire[1].by \in Handlers
    <3>1. HandlerWire = wire /\ HandlerWire' = wire' BY <2>2, <2>3, <2>5 DEF HandlerWire
    <3>2. Alone!RedisRefuses(1)
      BY <2>1, <2>2, <2>3, <3>1 DEF Node!RedisRefuses, Alone!RedisRefuses, Node!FirstPending,
         Alone!FirstPending, Node!Plain, Alone!Plain
    <3>3. Alone!Refuse
      BY <1>1, <2>2, <2>3, <3>1, <3>2
         DEF Node!Refuse, Alone!Refuse, Alone!processVars, Alone!handlerVars
    <3> QED BY <1>a, <3>3 DEF Alone!Environment
  <2> QED BY <2>2, <2>4, <2>5, WireKeys
<1>2. CASE Node!Break
  <2>1. TokenOrphans' = TokenOrphans \cup Alone!Unexecuted
    BY <1>2, UnexecutedSeen DEF Node!Break, Node!ConnectionBreaks, TokenOrphans
  <2>2. HandlerWire' = <<>> BY <1>2 DEF Node!Break, Node!ConnectionBreaks, HandlerWire
  <2>3. Alone!Break
    BY <1>2, <2>1, <2>2 DEF Node!Break, Alone!Break, Node!ConnectionBreaks,
       Alone!ConnectionBreaks, Alone!processVars, Alone!handlerVars
  <2> QED BY <1>a, <2>3 DEF Alone!Environment
<1>3. CASE Node!OrphanRuns
  <2>1. PICK c \in orphans : \/ Node!OrphanExecutes(c) /\ served' = Node!Fresh(c)
                             \/ Node!OrphanIsLost(c) /\ UNCHANGED served
    BY <1>3 DEF Node!OrphanRuns
  <2>2. /\ orphans' = orphans \ {c}
        /\ UNCHANGED <<owner, ctx, link, wire, rt, shutdown, mainpc, pc, req, res>>
    BY <1>3, <2>1 DEF Node!OrphanRuns, Node!OrphanExecutes, Node!OrphanIsLost
  <2>3. c.key \in Tokens \cup Addresses
    BY <1>0, WriteForm DEF IInv, TypeInv, Keys
  <2>4. \/ /\ TokenDb' = [k \in Tokens |-> Node!Effect(db, c)[k]]
           /\ TokenServed' = [k \in Tokens |-> Node!Fresh(c)[k]]
        \/ Node!OrphanIsLost(c) /\ UNCHANGED <<TokenDb, TokenServed>>
    BY <2>1 DEF Node!OrphanExecutes, Node!OrphanIsLost, TokenDb, TokenServed
  <2>5. CASE c.key \in Addresses
    <3>1. UNCHANGED <<TokenDb, TokenServed>> BY <1>0, <2>4, <2>5, AddressCommand
    <3>2. UNCHANGED TokenOrphans BY <2>2, <2>5 DEF TokenOrphans
    <3> QED BY <2>2, <3>1, <3>2, Unseen
  <2>6. CASE c.key \in Tokens
    <3>1. c \in TokenOrphans /\ TokenOrphans' = TokenOrphans \ {c}
      BY <2>2, <2>6 DEF TokenOrphans
    <3>2. \/ Alone!OrphanExecutes(c) /\ TokenServed' = Alone!Fresh(c)
          \/ Alone!OrphanIsLost(c) /\ UNCHANGED TokenServed
      BY <1>0, <2>2, <2>4, <2>6, <3>1, TokenCommand DEF Alone!OrphanExecutes, Alone!OrphanIsLost
    <3>3. Alone!OrphanRuns
      BY <2>2, <3>1, <3>2 DEF Alone!OrphanRuns, Alone!processVars, Alone!handlerVars
    <3> QED BY <1>a, <3>3 DEF Alone!Environment
  <2> QED BY <2>3, <2>5, <2>6
<1> QED BY <1>1, <1>2, <1>3 DEF NetworkStep

(* Time passes.                                                             *)
LEMMA TimeSeen ==
  ASSUME IInv, Tick \/ Expire
  PROVE  Seen
<1> USE Views DEF handlerVars
<1>0. db \in [Keys -> [val: Messages \cup Nat, ttl: Nat] \cup {NoEntry}] BY DEF IInv, DbInv
<1>1. CASE Tick
  <2>1. UNCHANGED TokenDb
    BY <1>1, WebstoreAssumption DEF Tick, TokenDb, Keys
  <2> QED BY <1>1, <2>1, Unseen DEF Tick
<1>2. CASE Expire
  <2>1. PICK k \in Tokens : Node!KeyExpires(k) BY <1>2 DEF Expire
  <2>2. TokenDb[k] = db[k] BY DEF TokenDb
  <2>3. TokenDb' = [TokenDb EXCEPT ![k] = NoEntry]
    BY <1>0, <2>1 DEF Node!KeyExpires, Node!Expired, TokenDb, Keys
  <2>4. Alone!KeyExpires(k)
    BY <2>1, <2>2, <2>3 DEF Node!KeyExpires, Alone!KeyExpires, Node!Exists, Alone!Exists,
       Alone!Expired
  <2>5. Alone!Expire
    BY <1>2, <2>4 DEF Expire, Alone!Expire, Alone!processVars, Alone!handlerVars
  <2> QED BY <2>5 DEF Seen, Alone!Next, Alone!Environment
<1> QED BY <1>1, <1>2

(* The main thread, a crash and a new process.                              *)
LEMMA MainSeen ==
  ASSUME IInv, Signal \/ MainStep \/ Crash \/ Restart
  PROVE  Seen
<1> USE Views, WebstoreAssumption DEF Node!raiVars, Alone!raiVars, Node!handlerVars,
        Alone!handlerVars
<1>1. CASE Signal
  <2>1. Alone!Signal BY <1>1 DEF Signal, Node!Signal, Alone!Signal
  <2> QED BY <2>1 DEF Seen, Alone!Next, Alone!Environment
<1>2. CASE MainStep
  <2>1. CASE Node!LeaveMainLoop
    <3>1. Alone!LeaveMainLoop BY <2>1 DEF Node!LeaveMainLoop, Alone!LeaveMainLoop
    <3> QED BY <3>1 DEF Seen, Alone!Next, Alone!MainStep
  <2>2. CASE Node!DaemonStopped
    <3>1. Alone!DaemonStopped BY <2>2 DEF Node!DaemonStopped, Alone!DaemonStopped
    <3> QED BY <3>1 DEF Seen, Alone!Next, Alone!MainStep
  <2>3. CASE Node!Disconnect
    <3>1. served' = Node!Spared(Keys) => TokenServed' = Alone!Spared(Tokens)
      BY HistoryViews
    <3>2. Alone!Disconnect
      BY <2>3, <3>1 DEF Node!Disconnect, Alone!Disconnect, Node!rai_disconnect,
         Alone!rai_disconnect, HandlerOwner
    <3> QED BY <3>2 DEF Seen, Alone!Next, Alone!MainStep
  <2> QED BY <1>2, <2>1, <2>2, <2>3 DEF MainStep, Node!MainStep
<1>3. CASE Crash
  <2>1. TokenOrphans' = TokenOrphans \cup Alone!Unexecuted
    BY <1>3, UnexecutedSeen DEF Crash, Node!Crash, Node!RaiCrash, TokenOrphans
  <2>2. HandlerWire' = <<>> /\ HandlerOwner' = NoOwner
    BY <1>3 DEF Crash, Node!Crash, Node!RaiCrash, HandlerWire, HandlerOwner
  <2>3. Alone!RaiCrash
    BY <1>3, <2>1, <2>2 DEF Crash, Node!Crash, Node!RaiCrash, Alone!RaiCrash
  <2>4. TokenServed' = Alone!Spared(Tokens)
    BY <1>3, HistoryViews DEF Crash, Node!Crash
  <2>5. Alone!Crash
    BY <1>3, <2>3, <2>4 DEF Crash, Node!Crash, Alone!Crash, Node!NoResult, Alone!NoResult,
       Node!Status, Alone!Status
  <2> QED BY <2>5 DEF Seen, Alone!Next, Alone!Environment
<1>4. CASE Restart
  <2>1. HandlerOwner' = NoOwner
    BY <1>4 DEF Restart, Node!Restart, Node!rai_connect, HandlerOwner
  <2>2. Alone!rai_connect
    BY <1>4, <2>1 DEF Restart, Node!Restart, Node!rai_connect, Alone!rai_connect
  <2>3. Alone!Restart
    BY <1>4, <2>2 DEF Restart, Node!Restart, Alone!Restart
  <2> QED BY <2>3 DEF Seen, Alone!Next, Alone!Environment
<1> QED BY <1>1, <1>2, <1>3, <1>4

(* The handlers are not disturbed by the limiter, which shares their redis  *)
(* context, mutex, database and g_shutdown: hiding it, every behaviour of   *)
(* the server is one of the server without it (allow_ip).                   *)
THEOREM Undisturbed == Spec => HandlersUndisturbed
<1>1. ASSUME Init PROVE Alone!Init
  <2>1. TokenDb = Alone!EmptyDb BY <1>1
    DEF Init, Node!Init, Node!RaiInit, Node!EmptyDb, Alone!EmptyDb, TokenDb, Keys
  <2>2. TokenServed = [k \in Tokens |-> "unread"] BY <1>1 DEF Init, Node!Init, TokenServed, Keys
  <2>3. HandlerOwner = NoOwner /\ HandlerWire = <<>> /\ TokenOrphans = {}
    BY <1>1 DEF Init, Node!Init, Node!RaiInit, HandlerOwner, HandlerWire, TokenOrphans
  <2> QED
    BY <1>1, <2>1, <2>2, <2>3 DEF Init, Node!Init, Node!RaiInit, Alone!Init, Alone!RaiInit,
       Node!NoResult, Alone!NoResult, Node!Status, Alone!Status
<1>2. IInv /\ [Next]_vars => [Alone!Next]_(Alone!vars)
  <2> SUFFICES ASSUME IInv, [Next]_vars PROVE Seen BY DEF Seen
  <2>1. CASE UNCHANGED vars BY <2>1, Views, Unseen DEF vars, handlerVars
  <2> QED
    BY <2>1, EnterSeen, HandlerSeen, ListenerSeen, ExecuteSeen, NetworkSeen, TimeSeen, MainSeen,
       Steps
<1> QED BY Invariant, <1>1, <1>2, PTL DEF Spec, HandlersUndisturbed, Alone!Spec

-----------------------------------------------------------------------------
(* What is proved about the handlers alone holds of them in the server.     *)

NP == INSTANCE WebstoreNodeProofs WITH
        Threads <- Handlers, Keys <- Tokens, Vals <- Messages,
        db <- TokenDb, served <- TokenServed, orphans <- TokenOrphans,
        owner <- HandlerOwner, wire <- HandlerWire

(* The tokens and messages of the server are what WebstoreNode assumes.     *)
LEMMA Assumed ==
  /\ NP!RedisAssumption /\ NP!RaiAssumption /\ NP!NodeAssumption /\ NP!NoReqAssumption
BY WebstoreAssumption, HandlerAssumption
DEF NP!RedisAssumption, NP!RaiAssumption, NP!NodeAssumption, NP!NoReqAssumption,
    Alone!Reply, Alone!ReplyType, NP!Reply, NP!ReplyType, Alone!Request, NP!Request

(* Both instances are of one specification, with the same substitution.     *)
LEMMA SameSpec ==
  /\ Alone!Init => NP!Init
  /\ [Alone!Next]_(Alone!vars) => [NP!Next]_(NP!vars)
<1>1. Alone!Init => NP!Init
  BY DEF NP!Init, Alone!Init, NP!RaiInit, Alone!RaiInit, NP!EmptyDb, Alone!EmptyDb,
         NP!NoResult, Alone!NoResult, NP!Status, Alone!Status
<1>2. UNCHANGED Alone!vars => UNCHANGED NP!vars
  BY DEF NP!vars, Alone!vars, NP!raiVars, Alone!raiVars, NP!handlerVars, Alone!handlerVars
<1>3. \A t \in Handlers : Alone!EnterNode(t) => NP!EnterNode(t)
  BY
  DEF NP!EnterNode, Alone!EnterNode, NP!MayRun, Alone!MayRun, NP!get, Alone!get,
      NP!post, Alone!post, NP!GoodUrl, Alone!GoodUrl, NP!GoodBody, Alone!GoodBody,
      NP!Finish, Alone!Finish, NP!Accept, Alone!Accept, NP!Status, Alone!Status,
      NP!InHandler, Alone!InHandler, NP!Busy, Alone!Busy, NP!raiVars, Alone!raiVars
<1>4. \A t \in Handlers : Alone!nodecfg(t) => NP!nodecfg(t)
  BY
  DEF NP!nodecfg, Alone!nodecfg, NP!MayRun, Alone!MayRun, NP!Finish, Alone!Finish,
      NP!Status, Alone!Status, NP!InHandler, Alone!InHandler, NP!Busy, Alone!Busy,
      NP!raiVars, Alone!raiVars
<1>5. \A t \in Handlers : Alone!LockRai(t) => NP!LockRai(t)
  BY
  DEF NP!LockRai, Alone!LockRai, NP!rai_lock, Alone!rai_lock
<1>6. \A t \in Handlers : Alone!SendCmd(t) => NP!SendCmd(t)
  BY
  DEF NP!SendCmd, Alone!SendCmd, NP!Send, Alone!Send, NP!Alive, Alone!Alive,
      NP!CommandOf, Alone!CommandOf, NP!Get, Alone!Get, NP!Set, Alone!Set
<1>7. \A t \in Handlers : Alone!TakeReply(t) => NP!TakeReply(t)
  BY
  DEF NP!TakeReply, Alone!TakeReply, NP!Receive, Alone!Receive, NP!Answered,
      Alone!Answered, NP!Alive, Alone!Alive, NP!ResultOf, Alone!ResultOf, NP!GetResult,
      Alone!GetResult, NP!PostResult, Alone!PostResult, NP!Status, Alone!Status,
      NP!HandedOut, Alone!HandedOut
<1>8. \A t \in Handlers : Alone!ReplyLost(t) => NP!ReplyLost(t)
  BY
  DEF NP!ReplyLost, Alone!ReplyLost, NP!ReceiveNull, Alone!ReceiveNull, NP!Alive,
      Alone!Alive, NP!Status, Alone!Status
<1>9. \A t \in Handlers : Alone!SendDel(t) => NP!SendDel(t)
  BY
  DEF NP!SendDel, Alone!SendDel, NP!Send, Alone!Send, NP!Alive, Alone!Alive, NP!Del,
      Alone!Del
<1>10. \A t \in Handlers : Alone!DelReply(t) => NP!DelReply(t)
  BY
  DEF NP!DelReply, Alone!DelReply, NP!Receive, Alone!Receive, NP!Answered,
      Alone!Answered, NP!Alive, Alone!Alive, NP!Spared, Alone!Spared, NP!Handed,
      Alone!Handed
<1>11. \A t \in Handlers : Alone!DelLost(t) => NP!DelLost(t)
  BY
  DEF NP!DelLost, Alone!DelLost, NP!ReceiveNull, Alone!ReceiveNull, NP!Alive,
      Alone!Alive
<1>12. \A t \in Handlers : Alone!UnlockRai(t) => NP!UnlockRai(t)
  BY
  DEF NP!UnlockRai, Alone!UnlockRai, NP!rai_unlock, Alone!rai_unlock
<1>13. \A t \in Handlers : Alone!Respond(t) => NP!Respond(t)
  BY
  DEF NP!Respond, Alone!Respond, NP!NoResult, Alone!NoResult, NP!Status, Alone!Status,
      NP!raiVars, Alone!raiVars
<1>14. \A t \in Handlers : Alone!CloseIdle(t) => NP!CloseIdle(t)
  BY
  DEF NP!CloseIdle, Alone!CloseIdle, NP!raiVars, Alone!raiVars
<1>15. Alone!MainStep => NP!MainStep
  BY
  DEF NP!MainStep, Alone!MainStep, NP!LeaveMainLoop, Alone!LeaveMainLoop,
      NP!DaemonStopped, Alone!DaemonStopped, NP!Disconnect, Alone!Disconnect,
      NP!rai_disconnect, Alone!rai_disconnect, NP!raiVars, Alone!raiVars,
      NP!handlerVars, Alone!handlerVars, NP!Spared, Alone!Spared, NP!Handed,
      Alone!Handed
<1>16. Alone!Execute => NP!Execute
  BY
  DEF NP!Execute, Alone!Execute, NP!RedisExecutes, Alone!RedisExecutes,
      NP!FirstPending, Alone!FirstPending, NP!ReplyTo, Alone!ReplyTo, NP!Effect,
      Alone!Effect, NP!Exists, Alone!Exists, NP!SetApplies, Alone!SetApplies,
      NP!Incremented, Alone!Incremented, NP!Plain, Alone!Plain, NP!Fresh, Alone!Fresh,
      NP!processVars, Alone!processVars, NP!handlerVars, Alone!handlerVars
<1>17. Alone!Refuse => NP!Refuse
  BY
  DEF NP!Refuse, Alone!Refuse, NP!RedisRefuses, Alone!RedisRefuses, NP!FirstPending,
      Alone!FirstPending, NP!Plain, Alone!Plain, NP!processVars, Alone!processVars,
      NP!handlerVars, Alone!handlerVars
<1>18. Alone!Break => NP!Break
  BY
  DEF NP!Break, Alone!Break, NP!ConnectionBreaks, Alone!ConnectionBreaks,
      NP!Unexecuted, Alone!Unexecuted, NP!processVars, Alone!processVars,
      NP!handlerVars, Alone!handlerVars
<1>19. Alone!OrphanRuns => NP!OrphanRuns
  BY
  DEF NP!OrphanRuns, Alone!OrphanRuns, NP!OrphanExecutes, Alone!OrphanExecutes,
      NP!OrphanIsLost, Alone!OrphanIsLost, NP!Effect, Alone!Effect, NP!Exists,
      Alone!Exists, NP!SetApplies, Alone!SetApplies, NP!Incremented, Alone!Incremented,
      NP!Fresh, Alone!Fresh, NP!processVars, Alone!processVars, NP!handlerVars,
      Alone!handlerVars
<1>20. Alone!Expire => NP!Expire
  BY
  DEF NP!Expire, Alone!Expire, NP!KeyExpires, Alone!KeyExpires, NP!Exists,
      Alone!Exists, NP!Expired, Alone!Expired, NP!processVars, Alone!processVars,
      NP!handlerVars, Alone!handlerVars
<1>21. Alone!Signal => NP!Signal
  BY
  DEF NP!Signal, Alone!Signal, NP!raiVars, Alone!raiVars, NP!handlerVars,
      Alone!handlerVars
<1>22. Alone!LossFoundElsewhere => NP!LossFoundElsewhere
  BY
  DEF NP!LossFoundElsewhere, Alone!LossFoundElsewhere, NP!ReceiveNull,
      Alone!ReceiveNull, NP!Alive, Alone!Alive, NP!handlerVars, Alone!handlerVars
<1>23. Alone!Crash => NP!Crash
  BY
  DEF NP!Crash, Alone!Crash, NP!RaiCrash, Alone!RaiCrash, NP!Unexecuted,
      Alone!Unexecuted, NP!NoResult, Alone!NoResult, NP!Status, Alone!Status,
      NP!Spared, Alone!Spared, NP!Handed, Alone!Handed
<1>24. Alone!Restart => NP!Restart
  BY
  DEF NP!Restart, Alone!Restart, NP!rai_connect, Alone!rai_connect
<1>s. \A t \in Handlers : Alone!Step(t) => NP!Step(t)
  BY <1>5, <1>6, <1>7, <1>8, <1>9, <1>10, <1>11, <1>12, <1>13, <1>14
     DEF NP!Step, Alone!Step
<1>n. Alone!Next => NP!Next
  BY <1>s, <1>3, <1>4, <1>15, <1>16, <1>17, <1>18, <1>19, <1>20, <1>21, <1>22, <1>23, <1>24
     DEF NP!Next, Alone!Next, NP!Environment, Alone!Environment
<1> QED BY <1>1, <1>2, <1>n

(* And both refer to the same store, with the same operations on it.        *)
LEMMA SameStore ==
  /\ NP!Store!Init => Alone!Store!Init
  /\ [NP!Store!Next]_(NP!Store!vars) => [Alone!Store!Next]_(Alone!Store!vars)
<1> DEFINE ops == [t \in Handlers |-> NP!OpOf(t)] = [t \in Handlers |-> Alone!OpOf(t)]
<1>1. ops /\ NP!LimboOf = Alone!LimboOf /\ (NP!Faulty <=> Alone!Faulty)
  BY
  DEF NP!OpOf, Alone!OpOf, NP!NotYet, Alone!NotYet, NP!AnswerOf, Alone!AnswerOf,
      NP!Replied, Alone!Replied, NP!ReplyNow, Alone!ReplyNow, NP!Burning,
      Alone!Burning, NP!Faulty, Alone!Faulty, NP!Alive, Alone!Alive, NP!Answered,
      Alone!Answered, NP!Exists, Alone!Exists, NP!ResultOf, Alone!ResultOf,
      NP!GetResult, Alone!GetResult, NP!PostResult, Alone!PostResult, NP!Status,
      Alone!Status, NP!LimboOf, Alone!LimboOf
<1>2. ops' /\ NP!LimboOf' = Alone!LimboOf'
  BY
  DEF NP!OpOf, Alone!OpOf, NP!NotYet, Alone!NotYet, NP!AnswerOf, Alone!AnswerOf,
      NP!Replied, Alone!Replied, NP!ReplyNow, Alone!ReplyNow, NP!Burning,
      Alone!Burning, NP!Faulty, Alone!Faulty, NP!Alive, Alone!Alive, NP!Answered,
      Alone!Answered, NP!Exists, Alone!Exists, NP!ResultOf, Alone!ResultOf,
      NP!GetResult, Alone!GetResult, NP!PostResult, Alone!PostResult, NP!Status,
      Alone!Status, NP!LimboOf, Alone!LimboOf
<1>3. NP!Store!Init => Alone!Store!Init
  BY <1>1 DEF NP!Store!Init, Alone!Store!Init, NP!Store!NoOp, Alone!Store!NoOp
<1>4. UNCHANGED NP!Store!vars => UNCHANGED Alone!Store!vars
  BY <1>1, <1>2 DEF NP!Store!vars, Alone!Store!vars
<1> DEFINE f == [t \in Handlers |-> NP!OpOf(t)]
             g == [t \in Handlers |-> Alone!OpOf(t)]
<1>5. \A t, kind : NP!Store!Open(t, kind) <=> Alone!Store!Open(t, kind)
  BY <1>1 DEF NP!Store!Open, Alone!Store!Open
<1>6. \A t, code, page : NP!Store!Answer(t, code, page) <=> Alone!Store!Answer(t, code, page)
  <2>1. PICK old, new : old = f /\ new = f'
    OBVIOUS
  <2>2. old = g /\ new = g'
    BY <1>1, <1>2, <2>1
  <2> HIDE DEF f, g
  <2> QED BY <2>1, <2>2 DEF NP!Store!Answer, Alone!Store!Answer, f, g
<1>7. \A k : /\ NP!Store!Holds(k) <=> Alone!Store!Holds(k)
            /\ NP!Store!Burn(k) = Alone!Store!Burn(k)
  BY DEF NP!Store!Holds, Alone!Store!Holds, NP!Store!Burn, Alone!Store!Burn
<1>8. \A r : NP!Store!WriteOf(r) = Alone!Store!WriteOf(r)
  BY DEF NP!Store!WriteOf, Alone!Store!WriteOf, NP!Store!Message, Alone!Store!Message
<1>9. \A w : NP!Store!Written(w) = Alone!Store!Written(w)
  BY <1>7 DEF NP!Store!Written, Alone!Store!Written
<1>10. \A S : NP!Store!Forgetting(S) <=> Alone!Store!Forgetting(S)
  BY <1>1, <1>2 DEF NP!Store!Forgetting, Alone!Store!Forgetting
<1>11. \A t \in Handlers : NP!Store!Begin(t) => Alone!Store!Begin(t)
  <2> SUFFICES ASSUME NEW t \in Handlers, NP!Store!Begin(t)
               PROVE  Alone!Store!Begin(t)
    OBVIOUS
  <2> DEFINE Opened(o, n, r) == n = [o EXCEPT ![t].st = "open", ![t].req = r]
  <2>1. f[t].st = "idle" /\ UNCHANGED <<rt, TokenDb, NP!LimboOf>>
    BY DEF NP!Store!Begin
  <2>2. \E r \in NP!Store!Request : Opened(f, f', r)
    BY Zenon DEF NP!Store!Begin
  <2>3. f = g /\ f' = g'
    BY <1>1, <1>2
  <2>4. g[t].st = "idle"
    <3> HIDE DEF f, g
    <3> QED BY <2>1, <2>3
  <2>5. \E r \in NP!Store!Request : Opened(g, g', r)
    <3> HIDE DEF f, g
    <3> QED BY <2>2, <2>3
  <2>6. \E r \in Alone!Store!Request : Opened(g, g', r)
    <3> HIDE DEF g, Opened
    <3> QED BY <2>5 DEF NP!Store!Request, Alone!Store!Request
  <2>7. UNCHANGED <<rt, TokenDb, Alone!LimboOf>>
    BY <1>1, <1>2, <2>1
  <2> QED BY <2>4, <2>6, <2>7, Zenon DEF Alone!Store!Begin
<1>12. \A t \in Handlers : NP!Store!AnswerGet(t) => Alone!Store!AnswerGet(t)
  BY <1>1, <1>2, <1>5, <1>6, <1>7, <1>8, <1>9, <1>10
     DEF NP!Store!AnswerGet, Alone!Store!AnswerGet
<1>13. \A t \in Handlers : NP!Store!AnswerPost(t) => Alone!Store!AnswerPost(t)
  BY <1>1, <1>2, <1>5, <1>6, <1>7, <1>8, <1>9, <1>10
     DEF NP!Store!AnswerPost, Alone!Store!AnswerPost
<1>14. \A t \in Handlers : NP!Store!Refuse(t) => Alone!Store!Refuse(t)
  BY <1>1, <1>2, <1>5, <1>6, <1>7, <1>8, <1>9, <1>10
     DEF NP!Store!Refuse, Alone!Store!Refuse
<1>15. \A t \in Handlers : NP!Store!Fail(t) => Alone!Store!Fail(t)
  BY <1>1, <1>2, <1>5, <1>6, <1>7, <1>8, <1>9, <1>10
     DEF NP!Store!Fail, Alone!Store!Fail
<1>16. \A t \in Handlers : NP!Store!Return(t) => Alone!Store!Return(t)
  BY <1>1, <1>2, <1>5, <1>6, <1>7, <1>8, <1>9, <1>10
     DEF NP!Store!Return, Alone!Store!Return, NP!Store!NoOp, Alone!Store!NoOp
<1>17. NP!Store!Late => Alone!Store!Late
  BY <1>1, <1>2
     DEF NP!Store!Late, Alone!Store!Late, NP!Store!Written, Alone!Store!Written,
         NP!Store!Holds, Alone!Store!Holds, NP!Store!Forgetting, Alone!Store!Forgetting
<1>18. NP!Store!Forget => Alone!Store!Forget
  BY <1>1, <1>2
     DEF NP!Store!Forget, Alone!Store!Forget, NP!Store!Forgetting,
         Alone!Store!Forgetting
<1>19. NP!Store!Expire => Alone!Store!Expire
  BY <1>1, <1>2
     DEF NP!Store!Expire, Alone!Store!Expire, NP!Store!Holds, Alone!Store!Holds
<1>20. NP!Store!Crash => Alone!Store!Crash
  BY <1>1, <1>2
     DEF NP!Store!Crash, Alone!Store!Crash, NP!Store!NoOp, Alone!Store!NoOp,
         NP!Store!Forgetting, Alone!Store!Forgetting, NP!Store!Open, Alone!Store!Open,
         NP!Store!WriteOf, Alone!Store!WriteOf, NP!Store!Message, Alone!Store!Message
<1>n. NP!Store!Next => Alone!Store!Next
  BY <1>11, <1>12, <1>13, <1>14, <1>15, <1>16, <1>17, <1>18, <1>19, <1>20
     DEF NP!Store!Next, Alone!Store!Next
<1> QED BY <1>3, <1>4, <1>n

(* The store the clients of the server see is that of MessageStore, whatever *)
(* the limiter does on the same connection and in the same database: a POST *)
(* or a GET takes effect once, between its request and its answer (get(),   *)
(* do_redis_post(), do_redis_del and allow_ip together).                    *)
THEOREM Implements == Spec => ImplementsStore
<1>1. NP!Spec => NP!ImplementsStore BY Assumed, NP!Implements
<1>2. Alone!Spec => NP!Spec BY SameSpec, PTL DEF Alone!Spec, NP!Spec
<1>3. NP!ImplementsStore => Alone!ImplementsStore
  BY SameStore, PTL DEF NP!ImplementsStore, Alone!ImplementsStore, NP!Store!Spec,
     Alone!Store!Spec
<1> QED
  BY Undisturbed, <1>1, <1>2, <1>3, PTL DEF ImplementsStore, HandlersUndisturbed

(* IMMUTABLE, with the limiter beside: a message is never replaced, whatever *)
(* is counted in between (do_redis_post with NX).                           *)
THEOREM ImmutableHolds == Spec => Alone!ImmutableStable
<1>1. NP!Spec => NP!ImmutableStable BY Assumed, NP!ImmutableHolds
<1>2. Alone!Spec => NP!Spec BY SameSpec, PTL DEF Alone!Spec, NP!Spec
<1>3. [rt.immutable =>
        \A k \in Tokens : NP!Exists(TokenDb, k) /\ NP!Exists(TokenDb', k) =>
                          TokenDb'[k] = TokenDb[k]]_(NP!vars)
      => [rt.immutable =>
           \A k \in Tokens : Alone!Exists(TokenDb, k) /\ Alone!Exists(TokenDb', k) =>
                             TokenDb'[k] = TokenDb[k]]_(Alone!vars)
  BY DEF NP!Exists, Alone!Exists, NP!vars, Alone!vars, NP!raiVars, Alone!raiVars,
         NP!handlerVars, Alone!handlerVars
<1> QED
  BY Undisturbed, <1>1, <1>2, <1>3, PTL
  DEF HandlersUndisturbed, NP!ImmutableStable, Alone!ImmutableStable
=============================================================================
