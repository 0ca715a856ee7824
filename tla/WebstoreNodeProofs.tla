------------------------- MODULE WebstoreNodeProofs -------------------------
(***************************************************************************)
(* Proofs about WebstoreNode, for any number of connections, keys and      *)
(* messages, every configuration, and failures at any point.               *)
(***************************************************************************)
EXTENDS WebstoreNode, SequenceTheorems, TLAPS

-----------------------------------------------------------------------------
(* Lemmas on sequences.                                                     *)

(* Appending, dropping the head of and replacing an item of a typed sequence *)
(* keeps it typed.                                                           *)
LEMMA SeqTyped ==
  ASSUME NEW S, NEW w \in Seq(S), NEW e \in S
  PROVE  /\ Append(w, e) \in Seq(S)
         /\ w # <<>> => Tail(w) \in Seq(S) /\ Head(w) \in S
         /\ \A i \in 1..Len(w) : w[i] \in S /\ [w EXCEPT ![i] = e] \in Seq(S)
BY AppendProperties, HeadTailProperties, ElementOfSeq, ExceptSeq

(* A sequence of length one.                                                *)
LEMMA SeqOfOne ==
  ASSUME NEW S, NEW w \in Seq(S), Len(w) = 1
  PROVE  w # <<>> /\ Head(w) = w[1] /\ w[1] \in S /\ Tail(w) = <<>>
<1>0. Len(<<>>) = 0 /\ \A v \in Seq(S) : v # <<>> => Len(v) # 0
  BY EmptySeq
<1>1. w # <<>> BY <1>0
<1>2. Tail(w) \in Seq(S) /\ Len(Tail(w)) = 0 BY <1>1, HeadTailProperties
<1>4. Tail(w) = <<>> BY <1>0, <1>2
<1>3. Head(w) = w[1] BY <1>1
<1> QED BY <1>1, <1>3, <1>4, ElementOfSeq

-----------------------------------------------------------------------------
(* Lemmas on redis.                                                         *)

(* The commands the handlers send leave a database a database and have a   *)
(* reply.                                                                   *)
LEMMA RedisTyped ==
  ASSUME NEW d \in Database, NEW c \in Command,
         c.op # "INCR", c.op = "SET" => c.val \in Vals
  PROVE  Effect(d, c) \in Database /\ ReplyTo(d, c) \in Reply
<1>1. CASE c.op = "GET"
  BY <1>1 DEF Database, Command, Effect, ReplyTo, Reply, ReplyType, Plain, SetApplies, Exists
<1>2. CASE c.op = "DEL"
  BY <1>2 DEF Database, Command, Effect, ReplyTo, Reply, ReplyType, Plain, SetApplies, Exists
<1>3. CASE c.op = "SET"
  BY <1>3 DEF Database, Command, Effect, ReplyTo, Reply, ReplyType, Plain, SetApplies, Exists
<1> QED BY <1>1, <1>2, <1>3 DEF Command

(* The handlers' commands are commands.                                     *)
LEMMA CommandTyped ==
  ASSUME NEW r \in Request, r.kind = "POST" => r.val \in Vals, rt \in Settings
  PROVE  /\ CommandOf(r) \in Command
         /\ Del(r.key) \in Command
         /\ CommandOf(r).op \in {"GET", "SET"}
         /\ CommandOf(r).op = "SET" => CommandOf(r).val \in Vals /\ CommandOf(r).nx = rt.immutable
         /\ Del(r.key).op = "DEL"
BY NodeAssumption DEF Request, CommandOf, Command, Get, Set, Del

(* Every status of the handlers is an answer.                               *)
LEMMA StatusTyped ==
  \A code \in Codes : Status(code) \in [code: Codes, page: Vals \cup {NoVal}]
BY DEF Status

-----------------------------------------------------------------------------
(* The wire never holds more than one command, so the first command redis   *)
(* has not executed is the only one.                                        *)
LEMMA FirstIsOnly ==
  ASSUME IInv, NEW i \in 1..Len(wire)
  PROVE  /\ i = 1 /\ Len(wire) = 1 /\ wire # <<>> /\ Alive
         /\ wire[1] \in Item
         /\ Head(wire) = wire[1]
         /\ wire[1].cmd = Issued(wire[1].by)
         /\ pc[wire[1].by] \in Calling
<1>1. wire \in Seq(Item) BY DEF IInv, TypeOK, RaiTypeOK
<1>2. wire # <<>> BY <1>1
<1>3. Len(wire) = 1 /\ Alive /\ pc[wire[1].by] \in Calling /\ wire[1].cmd = Issued(wire[1].by)
  BY <1>2 DEF IInv, WireInv
<1> QED BY <1>1, <1>2, <1>3, SeqOfOne

(* What waits on the wire is a command of the handlers.                     *)
LEMMA IssuedTyped ==
  ASSUME IInv, NEW t \in Threads, pc[t] \in Calling
  PROVE  /\ Issued(t) \in Command
         /\ Issued(t).op \in {"GET", "SET", "DEL"}
         /\ Issued(t).op = "SET" => Issued(t).val \in Vals /\ Issued(t).nx = rt.immutable
<1>1. /\ req[t] \in Request /\ (req[t].kind = "POST" => req[t].val \in Vals)
      /\ rt \in Settings
  BY DEF IInv, RequestInv, Calling, InHandler, Busy, TypeOK
<1> QED BY <1>1, CommandTyped DEF Issued

(* What becomes of the history of a message that is read, or is spared.     *)
LEMMA HistoryIs ==
  ASSUME served \in [Keys -> History]
  PROVE  /\ \A k \in Keys :
              /\ HandedOut(k) \in [Keys -> History]
              /\ served[k] \notin Handed /\ served[k] # "twice" =>
                   HandedOut(k)[k] \in Handed
              /\ \A m \in Keys \ {k} : HandedOut(k)[m] = served[m]
         /\ \A ks :
              /\ Spared(ks) \in [Keys -> History]
              /\ \A k \in Keys :
                   \/ Spared(ks)[k] = served[k]
                   \/ Spared(ks)[k] = "spared"
              /\ \A k \in Keys \cap ks : Spared(ks)[k] \notin Handed
BY DEF HandedOut, Spared, History, Handed

-----------------------------------------------------------------------------
(* The inductive invariant holds at the start.                              *)
LEMMA InitIInv == Init => IInv
<1> SUFFICES ASSUME Init PROVE IInv OBVIOUS
<1>1. TypeOK
  <2>1. RaiTypeOK
    BY EmptySeq DEF Init, RaiInit, RaiTypeOK, EmptyDb, Database
  <2>2. res \in [Threads -> [code: Codes, page: Vals \cup {NoVal}]]
    BY StatusTyped DEF Init, Codes, NoResult
  <2>3. served \in [Keys -> History]
    BY DEF Init, History
  <2> QED BY <2>1, <2>2, <2>3 DEF Init, TypeOK
<1> QED BY <1>1 DEF Init, RaiInit, IInv, RequestInv, MutexInv, WireInv, OrphanInv, StopInv,
                    InHandler, Busy

(* Only a thread of its own is touched by a handler's step.                 *)
LEMMA TypeStep == IInv /\ [Next]_vars => TypeOK'
<1> SUFFICES ASSUME IInv, [Next]_vars PROVE TypeOK' OBVIOUS
<1> USE DEF TypeOK, RaiTypeOK, InHandler, Busy, raiVars, handlerVars, processVars
<1>0. TypeOK BY DEF IInv
<1>1. ASSUME NEW t \in Threads, EnterNode(t) PROVE TypeOK'
  <2>1. CASE \E code \in {400, 405, 503} : Finish(t, code)
    BY <1>0, <1>1, <2>1, StatusTyped DEF EnterNode, Finish, Codes
  <2>2. CASE \E r \in Request : Accept(t, r)
    BY <1>0, <1>1, <2>2 DEF EnterNode, Accept
  <2>3. ASSUME NEW n \in Nodes, NEW u \in Urls, get(t, n, u)
        PROVE  (\E code \in {400, 405, 503} : Finish(t, code)) \/ \E r \in Request : Accept(t, r)
    BY <2>3, NodeAssumption DEF get, GoodUrl, Request
  <2>4. ASSUME NEW n \in Nodes, NEW u \in Urls, NEW b \in Bodies, post(t, n, u, b)
        PROVE  (\E code \in {400, 405, 503} : Finish(t, code)) \/ \E r \in Request : Accept(t, r)
    BY <2>4, NodeAssumption DEF post, GoodUrl, GoodBody, Request
  <2> QED BY <1>1, <2>1, <2>2, <2>3, <2>4 DEF EnterNode
<1>2. ASSUME NEW t \in Threads, nodecfg(t) PROVE TypeOK'
  <2>1. PICK code \in {200, 404, 405, 503} : Finish(t, code)
    BY <1>2 DEF nodecfg
  <2> QED BY <1>0, <1>2, <2>1, StatusTyped DEF nodecfg, Finish, Codes
<1>3. ASSUME NEW t \in Threads, LockRai(t) PROVE TypeOK'
  BY <1>0, <1>3 DEF LockRai, rai_lock
<1>4. ASSUME NEW t \in Threads, SendCmd(t) PROVE TypeOK'
  <2>1. CommandOf(req[t]) \in Command
    BY <1>4, CommandTyped DEF SendCmd, IInv, RequestInv
  <2>2. wire' \in Seq(Item)
    BY <1>0, <1>4, <2>1, SeqTyped DEF SendCmd, Send, Item
  <2> QED BY <1>0, <1>4, <2>2 DEF SendCmd
<1>5. ASSUME NEW t \in Threads, TakeReply(t) PROVE TypeOK'
  <2>1. Head(wire) \in Item /\ Head(wire).reply \in Reply /\ wire' \in Seq(Item)
    <3>1. Head(wire) \in Item /\ wire' \in Seq(Item)
      BY <1>0, <1>5, SeqTyped DEF TakeReply, Receive, Answered
    <3> QED BY <1>5, <3>1 DEF TakeReply, Receive, Answered, Item
  <2>2. ResultOf(req[t], Head(wire).reply) \in [code: Codes, page: Vals \cup {NoVal}]
    BY <2>1, StatusTyped DEF ResultOf, GetResult, PostResult, Codes, Reply
  <2>3. HandedOut(req[t].key) \in [Keys -> History]
    <3>1. req[t].key \in Keys
      BY <1>5 DEF TakeReply, IInv, RequestInv, Request
    <3> QED BY <1>0, <3>1, HistoryIs
  <2> QED BY <1>0, <1>5, <2>1, <2>2, <2>3 DEF TakeReply
<1>6. ASSUME NEW t \in Threads, ReplyLost(t) PROVE TypeOK'
  BY <1>0, <1>6, StatusTyped DEF ReplyLost, ReceiveNull, Codes
<1>7. ASSUME NEW t \in Threads, SendDel(t) PROVE TypeOK'
  <2>1. Del(req[t].key) \in Command
    BY <1>7, CommandTyped DEF SendDel, IInv, RequestInv
  <2>2. wire' \in Seq(Item)
    BY <1>0, <1>7, <2>1, SeqTyped DEF SendDel, Send, Item
  <2> QED BY <1>0, <1>7, <2>2 DEF SendDel
<1>8. ASSUME NEW t \in Threads, DelReply(t) PROVE TypeOK'
  <2>1. wire' \in Seq(Item)
    BY <1>0, <1>8, SeqTyped DEF DelReply, Receive, Answered
  <2>2. served' \in [Keys -> History] BY <1>0, <1>8, HistoryIs DEF DelReply
  <2> QED BY <1>0, <1>8, <2>1, <2>2 DEF DelReply
<1>9. ASSUME NEW t \in Threads, DelLost(t) PROVE TypeOK'
  BY <1>0, <1>9 DEF DelLost, ReceiveNull
<1>10. ASSUME NEW t \in Threads, UnlockRai(t) PROVE TypeOK'
  BY <1>0, <1>10 DEF UnlockRai, rai_unlock
<1>11. ASSUME NEW t \in Threads, Respond(t) PROVE TypeOK'
  BY <1>0, <1>11, StatusTyped DEF Respond, NoResult, Codes
<1>12. ASSUME NEW t \in Threads, CloseIdle(t) PROVE TypeOK'
  BY <1>0, <1>12 DEF CloseIdle
<1>13. CASE Execute
  <2> PICK i \in 1..Len(wire) : RedisExecutes(i) /\ served' = Fresh(wire[i].cmd)
    BY <1>13 DEF Execute
  <2>1. i = 1 /\ Len(wire) = 1 /\ wire[1] \in Item BY FirstIsOnly
  <2>2. /\ wire[1].cmd \in Command /\ wire[1].cmd.op # "INCR"
        /\ wire[1].cmd.op = "SET" => wire[1].cmd.val \in Vals
    BY FirstIsOnly, IssuedTyped, <2>1 DEF Item
  <2>3. db' \in Database /\ ReplyTo(db, wire[1].cmd) \in Reply
    BY <1>0, <2>1, <2>2, RedisTyped DEF RedisExecutes
  <2>4. wire' \in Seq(Item)
    <3>1. [wire[1] EXCEPT !.reply = ReplyTo(db, wire[1].cmd)] \in Item
      BY <2>1, <2>3 DEF Item
    <3> QED BY <1>0, <2>1, <3>1, SeqTyped DEF RedisExecutes
  <2>5. served' \in [Keys -> History]
    BY <1>0, <2>1, <2>2 DEF Fresh, Command, History
  <2> QED BY <1>0, <1>13, <2>3, <2>4, <2>5 DEF Execute, RedisExecutes
<1>14. CASE Refuse
  <2> PICK i \in 1..Len(wire) : RedisRefuses(i)
    BY <1>14 DEF Refuse
  <2>1. wire' \in Seq(Item)
    <3>1. wire[i] \in Item BY <1>0, SeqTyped
    <3>2. [wire[i] EXCEPT !.reply = Plain("ERROR")] \in Item
      BY <3>1 DEF Item, Reply, ReplyType, Plain
    <3> QED BY <1>0, <3>2, SeqTyped DEF RedisRefuses
  <2> QED BY <1>0, <1>14, <2>1 DEF Refuse, RedisRefuses
<1>15. Unexecuted \subseteq Command
  <2>1. \A i \in 1..Len(wire) : wire[i] \in Item BY <1>0, SeqTyped
  <2> QED BY <2>1 DEF Unexecuted, Item
<1>16. CASE Break
  BY <1>0, <1>15, <1>16, EmptySeq DEF Break, ConnectionBreaks
<1>17. CASE OrphanRuns
  <2> PICK c \in orphans : \/ OrphanExecutes(c) /\ served' = Fresh(c)
                           \/ OrphanIsLost(c) /\ UNCHANGED served
    BY <1>17 DEF OrphanRuns
  <2>1. CASE OrphanExecutes(c) /\ served' = Fresh(c)
    <3>1. db' \in Database
      BY <1>0, <2>1, RedisTyped DEF OrphanExecutes, IInv, OrphanInv
    <3>2. served' \in [Keys -> History]
      BY <1>0, <2>1 DEF Fresh, Command, History
    <3> QED BY <1>0, <1>17, <2>1, <3>1, <3>2 DEF OrphanRuns, OrphanExecutes
  <2>2. CASE OrphanIsLost(c) /\ UNCHANGED served
    BY <1>0, <1>17, <2>2 DEF OrphanRuns, OrphanIsLost
  <2> QED BY <2>1, <2>2
<1>18. CASE Expire
  BY <1>0, <1>18 DEF Expire, KeyExpires, Expired, Database
<1>19. CASE Signal \/ LeaveMainLoop \/ DaemonStopped
  BY <1>0, <1>19 DEF Signal, LeaveMainLoop, DaemonStopped
<1>20. CASE Disconnect
  <2>1. served' \in [Keys -> History] BY <1>0, <1>20, HistoryIs DEF Disconnect
  <2> QED BY <1>0, <1>20, <2>1 DEF Disconnect, rai_disconnect
<1>21. CASE Crash
  <2>1. served' \in [Keys -> History] BY <1>0, <1>21, HistoryIs DEF Crash
  <2> QED BY <1>0, <1>15, <1>21, <2>1, EmptySeq, StatusTyped DEF Crash, RaiCrash, NoResult, Codes
<1>22. CASE Restart
  BY <1>0, <1>22 DEF Restart, rai_connect
<1>23. CASE UNCHANGED vars
  BY <1>0, <1>23 DEF vars
<1>24. CASE LossFoundElsewhere
  BY <1>0, <1>24 DEF LossFoundElsewhere, ReceiveNull
<1> QED
  BY <1>1, <1>2, <1>3, <1>4, <1>5, <1>6, <1>7, <1>8, <1>9, <1>10, <1>11, <1>12, <1>13,
     <1>14, <1>16, <1>17, <1>18, <1>19, <1>20, <1>21, <1>22, <1>23, <1>24
  DEF Next, Step, MainStep, Environment

(* A request that passed the checks stays with its handler to the end.      *)
LEMMA RequestStep == IInv /\ [Next]_vars => RequestInv'
<1> SUFFICES ASSUME IInv, [Next]_vars PROVE RequestInv' OBVIOUS
<1> USE DEF InHandler, Busy
<1>0. /\ RequestInv
      /\ pc \in [Threads -> InHandler \cup {"idle", "respond", "closed"}]
      /\ req \in [Threads -> Request \cup {NoReq}]
  BY DEF IInv, TypeOK
<1>1. ASSUME NEW t \in Threads, EnterNode(t) PROVE RequestInv'
  <2>1. CASE \E code \in {400, 405, 503} : Finish(t, code)
    BY <1>0, <2>1 DEF Finish, RequestInv
  <2>2. CASE \E r \in Request : (r.kind = "POST" => r.val \in Vals) /\ Accept(t, r)
    BY <1>0, <2>2 DEF Accept, RequestInv
  <2>3. ASSUME NEW n \in Nodes, NEW u \in Urls, get(t, n, u)
        PROVE  \/ \E code \in {400, 405, 503} : Finish(t, code)
               \/ \E r \in Request : (r.kind = "POST" => r.val \in Vals) /\ Accept(t, r)
    BY <2>3, NodeAssumption DEF get, GoodUrl, Request
  <2>4. ASSUME NEW n \in Nodes, NEW u \in Urls, NEW b \in Bodies, post(t, n, u, b)
        PROVE  \/ \E code \in {400, 405, 503} : Finish(t, code)
               \/ \E r \in Request : (r.kind = "POST" => r.val \in Vals) /\ Accept(t, r)
    BY <2>4, NodeAssumption DEF post, GoodUrl, GoodBody, Request
  <2> QED BY <1>1, <2>1, <2>2, <2>3, <2>4 DEF EnterNode
<1>2. ASSUME NEW t \in Threads, nodecfg(t) PROVE RequestInv'
  BY <1>0, <1>2 DEF nodecfg, Finish, RequestInv
<1>3. ASSUME NEW t \in Threads,
             LockRai(t) \/ SendCmd(t) \/ ReplyLost(t) \/ SendDel(t) \/ DelReply(t)
               \/ DelLost(t) \/ UnlockRai(t) \/ CloseIdle(t)
      PROVE  RequestInv'
  BY <1>0, <1>3 DEF LockRai, SendCmd, ReplyLost, SendDel, DelReply, DelLost, UnlockRai,
                    CloseIdle, RequestInv
<1>4. ASSUME NEW t \in Threads, TakeReply(t) PROVE RequestInv'
  <2>1. req[t] \in Request /\ (req[t].kind # "GET" => ResultOf(req[t], Head(wire).reply).page = NoVal)
    BY <1>0, <1>4 DEF TakeReply, RequestInv, ResultOf, PostResult, Status
  <2> QED BY <1>0, <1>4, <2>1 DEF TakeReply, RequestInv
<1>5. ASSUME NEW t \in Threads, Respond(t) PROVE RequestInv'
  BY <1>0, <1>5 DEF Respond, RequestInv
<1>6. CASE Crash \/ Restart
  BY <1>0, <1>6 DEF Crash, Restart, RequestInv
<1>7. CASE Execute \/ Refuse \/ Break \/ OrphanRuns \/ Expire
  BY <1>0, <1>7 DEF Execute, Refuse, Break, OrphanRuns, Expire, processVars, handlerVars,
                    RequestInv
<1>8. CASE Signal \/ LossFoundElsewhere \/ MainStep \/ UNCHANGED vars
  BY <1>0, <1>8 DEF Signal, LossFoundElsewhere, MainStep, LeaveMainLoop, DaemonStopped, Disconnect, handlerVars,
                    vars, RequestInv
<1> QED
  BY <1>1, <1>2, <1>3, <1>4, <1>5, <1>6, <1>7, <1>8 DEF Next, Step, Environment

(* The mutex is taken before, and given back after, every call to redis.    *)
LEMMA MutexStep == IInv /\ [Next]_vars => MutexInv'
<1> SUFFICES ASSUME IInv, [Next]_vars PROVE MutexInv' OBVIOUS
<1> USE RaiAssumption DEF InHandler, Busy, raiVars, handlerVars, processVars
<1>0. /\ MutexInv
      /\ pc \in [Threads -> InHandler \cup {"idle", "respond", "closed"}]
      /\ owner \in Threads \cup {NoOwner}
  BY DEF IInv, TypeOK, RaiTypeOK
<1>1. ASSUME NEW t \in Threads, EnterNode(t) PROVE MutexInv'
  <2>1. /\ pc[t] = "idle"
        /\ rt.multithreaded \/ \A u \in Threads : pc[u] \notin InHandler
        /\ pc' = [pc EXCEPT ![t] = "respond"] \/ pc' = [pc EXCEPT ![t] = "lock"]
        /\ UNCHANGED <<owner, rt>>
    BY <1>1 DEF EnterNode, MayRun, get, post, Finish, Accept
  <2> QED BY <1>0, <2>1 DEF MutexInv
<1>2. ASSUME NEW t \in Threads, nodecfg(t) PROVE MutexInv'
  BY <1>0, <1>2 DEF nodecfg, MayRun, Finish, MutexInv
<1>3. ASSUME NEW t \in Threads, LockRai(t) PROVE MutexInv'
  BY <1>0, <1>3 DEF LockRai, rai_lock, MutexInv
<1>4. ASSUME NEW t \in Threads,
             SendCmd(t) \/ TakeReply(t) \/ ReplyLost(t) \/ SendDel(t) \/ DelReply(t) \/ DelLost(t)
      PROVE  MutexInv'
  <2>1. /\ pc[t] \in Busy
        /\ \E l \in Busy : pc' = [pc EXCEPT ![t] = l]
        /\ UNCHANGED <<owner, rt>>
    BY <1>4 DEF SendCmd, TakeReply, ReplyLost, SendDel, DelReply, DelLost
  <2> QED BY <1>0, <2>1 DEF MutexInv
<1>5. ASSUME NEW t \in Threads, UnlockRai(t) PROVE MutexInv'
  BY <1>0, <1>5 DEF UnlockRai, rai_unlock, MutexInv
<1>6. ASSUME NEW t \in Threads, Respond(t) \/ CloseIdle(t) PROVE MutexInv'
  BY <1>0, <1>6 DEF Respond, CloseIdle, MutexInv
<1>7. CASE Crash \/ Restart
  BY <1>0, <1>7 DEF Crash, RaiCrash, Restart, rai_connect, MutexInv
<1>8. CASE Execute \/ Refuse \/ Break \/ OrphanRuns \/ Expire
  <2>1. UNCHANGED <<owner, rt, pc>>
    BY <1>8 DEF Execute, RedisExecutes, Refuse, RedisRefuses, Break, ConnectionBreaks,
                OrphanRuns, OrphanExecutes, OrphanIsLost, Expire, KeyExpires
  <2> QED BY <1>0, <2>1 DEF MutexInv
<1>9. CASE Signal \/ LossFoundElsewhere \/ MainStep \/ UNCHANGED vars
  <2>1. UNCHANGED <<owner, rt, pc>>
    BY <1>9 DEF Signal, LossFoundElsewhere, MainStep, LeaveMainLoop, DaemonStopped, Disconnect, rai_disconnect, vars
  <2> QED BY <1>0, <2>1 DEF MutexInv
<1> QED
  BY <1>1, <1>2, <1>3, <1>4, <1>5, <1>6, <1>7, <1>8, <1>9 DEF Next, Step, Environment

(* Mutual exclusion: one handler at a time is between its checks and its    *)
(* answer, whichever way the server is configured.                          *)
LEMMA OneBusy ==
  ASSUME IInv, NEW t \in Threads, NEW u \in Threads, pc[t] \in Busy, pc[u] \in Busy
  PROVE  t = u
BY DEF IInv, MutexInv, InHandler

(* The thread that waits for the command on the wire.                       *)
LEMMA WireOwner ==
  ASSUME IInv, wire # <<>>
  PROVE  /\ wire \in Seq(Item) /\ Len(wire) = 1 /\ Alive
         /\ wire[1] \in Item /\ wire[1].by \in Threads
         /\ Head(wire) = wire[1] /\ Tail(wire) = <<>>
         /\ pc[wire[1].by] \in Calling
         /\ wire[1].cmd = Issued(wire[1].by)
<1>1. wire \in Seq(Item) BY DEF IInv, TypeOK, RaiTypeOK
<1>2. Len(wire) = 1 /\ Alive /\ pc[wire[1].by] \in Calling /\ wire[1].cmd = Issued(wire[1].by)
  BY DEF IInv, WireInv
<1> QED BY <1>1, <1>2, SeqOfOne DEF Item

(* A thread that is not yet waiting finds the wire empty.                   *)
LEMMA WireFree ==
  ASSUME IInv, NEW t \in Threads, pc[t] \in Busy \ Calling
  PROVE  wire = <<>>
<1> SUFFICES ASSUME wire # <<>> PROVE FALSE OBVIOUS
<1>1. wire[1].by \in Threads /\ pc[wire[1].by] \in Calling BY WireOwner
<1> QED BY <1>1, OneBusy DEF Busy, Calling

(* Sending over an empty wire.                                              *)
LEMMA SendOne ==
  ASSUME NEW t \in Threads, NEW c, wire = <<>>, Send(t, c)
  PROVE  \/ wire' = <<>>
         \/ Alive /\ Len(wire') = 1 /\ wire'[1].by = t /\ wire'[1].cmd = c
<1>1. wire' = <<>> \/ (Alive /\ wire' = <<[by |-> t, cmd |-> c, reply |-> Pending]>>)
  BY DEF Send
<1> QED BY <1>1

(* No step puts a second command on the wire, or one that is not its        *)
(* sender's.                                                                *)
LEMMA WireStep == IInv /\ [Next]_vars => WireInv'
<1> SUFFICES ASSUME IInv, [Next]_vars PROVE WireInv' OBVIOUS
<1> USE DEF Calling, raiVars, handlerVars, processVars
<1>0. /\ WireInv
      /\ pc \in [Threads -> InHandler \cup {"idle", "respond", "closed"}]
      /\ req \in [Threads -> Request \cup {NoReq}]
  BY DEF IInv, TypeOK
(* A step that leaves the connection and the waiting threads as they are.   *)
<1>1. ASSUME UNCHANGED <<wire, ctx, link, rt>>,
             \A u \in Threads : pc[u] \in Calling => pc'[u] = pc[u] /\ req'[u] = req[u]
      PROVE  WireInv'
  <2>1. CASE wire = <<>> BY <1>1, <2>1 DEF WireInv
  <2>2. CASE wire # <<>>
    <3>1. wire[1].by \in Threads BY <2>2, WireOwner
    <3> QED BY <1>0, <1>1, <2>2, <3>1 DEF WireInv, Alive, Issued, CommandOf
  <2> QED BY <2>1, <2>2
<1>2. ASSUME NEW t \in Threads, EnterNode(t) \/ nodecfg(t) PROVE WireInv'
  <2>1. /\ pc[t] = "idle"
        /\ \A u \in Threads \ {t} : pc'[u] = pc[u] /\ req'[u] = req[u]
        /\ UNCHANGED <<wire, ctx, link, rt>>
    BY <1>0, <1>2 DEF EnterNode, nodecfg, MayRun, get, post, Finish, Accept
  <2> QED BY <1>1, <2>1
<1>3. ASSUME NEW t \in Threads, LockRai(t) \/ UnlockRai(t) \/ Respond(t) \/ CloseIdle(t)
      PROVE  WireInv'
  <2>1. /\ pc[t] \notin Calling
        /\ \A u \in Threads \ {t} : pc'[u] = pc[u] /\ req'[u] = req[u]
        /\ UNCHANGED <<wire, ctx, link, rt>>
    BY <1>0, <1>3 DEF LockRai, UnlockRai, Respond, CloseIdle
  <2> QED BY <1>1, <2>1
<1>4. ASSUME NEW t \in Threads, SendCmd(t) PROVE WireInv'
  <2>1. wire = <<>> BY <1>4, WireFree DEF SendCmd, Busy
  <2>2. pc'[t] = "reply" /\ UNCHANGED <<ctx, link, req, rt>> BY <1>0, <1>4 DEF SendCmd
  <2>3. Issued(t)' = CommandOf(req[t]) BY <2>2 DEF Issued, CommandOf
  <2> QED BY <1>4, <2>1, <2>2, <2>3, SendOne DEF SendCmd, WireInv, Alive
<1>5. ASSUME NEW t \in Threads, SendDel(t) PROVE WireInv'
  <2>1. wire = <<>> BY <1>5, WireFree DEF SendDel, Busy
  <2>2. pc'[t] = "delreply" /\ UNCHANGED <<ctx, link, req>> BY <1>0, <1>5 DEF SendDel
  <2>3. Issued(t)' = Del(req[t].key) BY <2>2 DEF Issued
  <2> QED BY <1>5, <2>1, <2>2, <2>3, SendOne DEF SendDel, WireInv, Alive
<1>6. ASSUME NEW t \in Threads, TakeReply(t) \/ DelReply(t) PROVE WireInv'
  <2>1. wire' = <<>> BY <1>6, WireOwner DEF TakeReply, DelReply, Receive, Answered
  <2> QED BY <2>1 DEF WireInv
<1>7. ASSUME NEW t \in Threads, ReplyLost(t) \/ DelLost(t) PROVE WireInv'
  <2>1. wire = <<>> BY <1>7, WireOwner DEF ReplyLost, DelLost, ReceiveNull
  <2>2. wire' = <<>> BY <1>7, <2>1 DEF ReplyLost, DelLost
  <2> QED BY <2>2 DEF WireInv
<1>8. ASSUME NEW i \in 1..Len(wire), NEW r,
             wire' = [wire EXCEPT ![i].reply = r], UNCHANGED <<ctx, link, rt, pc, req>>
      PROVE  WireInv'
  <2>1. i = 1 /\ Len(wire) = 1 /\ Alive /\ wire[1] \in Item /\ wire \in Seq(Item)
        /\ pc[wire[1].by] \in Calling /\ wire[1].cmd = Issued(wire[1].by)
    BY FirstIsOnly, WireOwner
  <2>2. Len(wire') = 1 /\ wire'[1] = [wire[1] EXCEPT !.reply = r]
    BY <1>8, <2>1
  <2>3. wire'[1].by = wire[1].by /\ wire'[1].cmd = wire[1].cmd
    BY <2>1, <2>2 DEF Item
  <2> QED BY <1>8, <2>1, <2>2, <2>3 DEF WireInv, Alive, Issued, CommandOf
<1>9. CASE Execute
  BY <1>8, <1>9 DEF Execute, RedisExecutes
<1>10. CASE Refuse
  BY <1>8, <1>10 DEF Refuse, RedisRefuses
<1>11. CASE Break \/ Crash
  BY <1>11 DEF Break, ConnectionBreaks, Crash, RaiCrash, WireInv
<1>12. CASE OrphanRuns \/ Expire \/ Signal \/ LeaveMainLoop \/ DaemonStopped \/ UNCHANGED vars
  <2>1. UNCHANGED <<wire, ctx, link, rt, pc, req>>
    BY <1>12 DEF OrphanRuns, OrphanExecutes, OrphanIsLost, Expire, KeyExpires, Signal,
                 LeaveMainLoop, DaemonStopped, vars
  <2> QED BY <1>1, <2>1
<1>13. CASE Disconnect \/ Restart
  <2>1. \A t \in Threads : pc[t] = "closed"
    BY <1>13 DEF Disconnect, Restart, IInv, StopInv
  <2>2. wire = <<>> BY <2>1, WireOwner
  <2>3. wire' = <<>> BY <1>13, <2>2 DEF Disconnect, rai_disconnect, Restart, rai_connect
  <2> QED BY <2>3 DEF WireInv
<1>14. CASE LossFoundElsewhere
  <2>1. wire = <<>> BY <1>14, WireOwner DEF LossFoundElsewhere, ReceiveNull
  <2>2. wire' = <<>> BY <1>14, <2>1 DEF LossFoundElsewhere
  <2> QED BY <2>2 DEF WireInv
<1> QED
  BY <1>2, <1>3, <1>4, <1>5, <1>6, <1>7, <1>9, <1>10, <1>11, <1>12, <1>13, <1>14
  DEF Next, Step, MainStep, Environment

(* A connection that goes away leaves at most the write that was waiting.   *)
LEMMA UnexecutedTyped ==
  ASSUME IInv, NEW c \in Unexecuted
  PROVE  c.op \in {"SET", "DEL"} /\ (c.op = "SET" => c.val \in Vals /\ c.nx = rt.immutable)
<1>1. PICK i \in 1..Len(wire) : c = wire[i].cmd /\ wire[i].cmd.op # "GET"
  BY DEF Unexecuted
<1>2. i = 1 /\ wire # <<>> BY <1>1, FirstIsOnly
<1>3. wire[1].by \in Threads /\ c = Issued(wire[1].by) /\ pc[wire[1].by] \in Calling
  BY <1>1, <1>2, WireOwner
<1> QED BY <1>1, <1>2, <1>3, IssuedTyped

(* What a broken connection leaves to redis are commands that were sent.    *)
LEMMA OrphanStep == IInv /\ [Next]_vars => OrphanInv'
<1> SUFFICES ASSUME IInv, [Next]_vars PROVE OrphanInv' OBVIOUS
<1> USE DEF raiVars, handlerVars, processVars
<1>0. OrphanInv BY DEF IInv
<1>1. ASSUME orphans' \subseteq orphans \cup Unexecuted, UNCHANGED rt PROVE OrphanInv'
  BY <1>0, <1>1, UnexecutedTyped DEF OrphanInv
<1>2. ASSUME NEW t \in Threads, EnterNode(t) \/ nodecfg(t) \/ Step(t) PROVE OrphanInv'
  BY <1>1, <1>2 DEF EnterNode, nodecfg, Step, LockRai, SendCmd, TakeReply, ReplyLost, SendDel,
                    DelReply, DelLost, UnlockRai, Respond, CloseIdle
<1>3. CASE MainStep \/ Signal \/ LossFoundElsewhere \/ UNCHANGED vars
  BY <1>1, <1>3 DEF MainStep, LeaveMainLoop, DaemonStopped, Disconnect, rai_disconnect,
                    Signal, LossFoundElsewhere, vars
<1>4. CASE Execute \/ Refuse \/ OrphanRuns \/ Expire
  BY <1>1, <1>4 DEF Execute, RedisExecutes, Refuse, RedisRefuses, OrphanRuns, OrphanExecutes,
                    OrphanIsLost, Expire, KeyExpires
<1>5. CASE Break \/ Crash \/ Restart
  BY <1>1, <1>5 DEF Break, ConnectionBreaks, Crash, RaiCrash, Restart, rai_connect
<1> QED BY <1>2, <1>3, <1>4, <1>5 DEF Next, Environment

(* MHD_stop_daemon returns after the last handler, rai_disconnect comes     *)
(* after that, and only then is the context NULL.                           *)
LEMMA StopStep == IInv /\ [Next]_vars => StopInv'
<1> SUFFICES ASSUME IInv, [Next]_vars PROVE StopInv' OBVIOUS
<1> USE DEF raiVars, handlerVars, processVars
<1>0. /\ StopInv
      /\ pc \in [Threads -> InHandler \cup {"idle", "respond", "closed"}]
  BY DEF IInv, TypeOK
<1>1. ASSUME NEW t \in Threads, EnterNode(t) \/ nodecfg(t) PROVE StopInv'
  BY <1>0, <1>1 DEF EnterNode, nodecfg, MayRun, StopInv
<1>2. ASSUME NEW t \in Threads, Step(t) PROVE StopInv'
  <2>1. pc[t] # "closed" /\ UNCHANGED mainpc
    BY <1>2 DEF Step, LockRai, SendCmd, TakeReply, ReplyLost, SendDel, DelReply, DelLost,
                UnlockRai, Respond, CloseIdle
  <2>2. mainpc \notin {"joined", "exited"} BY <1>0, <2>1 DEF StopInv
  <2>3. UNCHANGED ctx \/ ctx' = "err"
    BY <1>2 DEF Step, LockRai, SendCmd, TakeReply, ReplyLost, ReceiveNull, SendDel, DelReply,
                DelLost, UnlockRai, Respond, CloseIdle
  <2> QED BY <1>0, <2>1, <2>2, <2>3 DEF StopInv
<1>3. CASE MainStep \/ Crash \/ Restart
  BY <1>0, <1>3 DEF MainStep, LeaveMainLoop, DaemonStopped, Disconnect, rai_disconnect, Crash,
                    RaiCrash, Restart, rai_connect, StopInv
<1>4. CASE Execute \/ Refuse \/ Break \/ OrphanRuns \/ Expire \/ Signal \/ UNCHANGED vars
  <2>1. UNCHANGED <<mainpc, ctx, pc>>
    BY <1>4 DEF Execute, RedisExecutes, Refuse, RedisRefuses, Break, ConnectionBreaks,
                OrphanRuns, OrphanExecutes, OrphanIsLost, Expire, KeyExpires, Signal, vars
  <2> QED BY <1>0, <2>1 DEF StopInv
<1>5. CASE LossFoundElsewhere
  BY <1>0, <1>5 DEF LossFoundElsewhere, ReceiveNull, StopInv
<1> QED BY <1>1, <1>2, <1>3, <1>4, <1>5 DEF Next, Environment

-----------------------------------------------------------------------------
(* The inductive invariant holds in every reachable state.                  *)
THEOREM Invariant == Spec => []IInv
<1>1. IInv /\ [Next]_vars => IInv'
  BY TypeStep, RequestStep, MutexStep, WireStep, OrphanStep, StopStep DEF IInv
<1> QED BY InitIInv, <1>1, PTL DEF Spec

(* All state keeps its type: no handler stores a key or a string that is    *)
(* not one (webstore_node.c, rai.c).                                        *)
THEOREM TypeCorrect == Spec => []TypeOK
<1>1. IInv => TypeOK BY DEF IInv
<1> QED BY Invariant, <1>1, PTL

(* No handler ever receives the reply to another handler's command          *)
(* (the mutex around redisCommand in get() and do_redis_post()).            *)
THEOREM RepliesMatch == Spec => []OwnReply
<1>1. ASSUME IInv PROVE OwnReply
  <2> SUFFICES ASSUME NEW t \in Threads, pc[t] \in Calling, wire # <<>>
               PROVE  Head(wire).by = t
    BY DEF OwnReply
  <2>1. /\ Head(wire) = wire[1] /\ wire[1].by \in Threads
        /\ pc[wire[1].by] \in Calling
    BY <1>1, WireOwner
  <2> QED BY <1>1, <2>1, OneBusy DEF Busy, Calling
<1> QED BY Invariant, <1>1, PTL

(* webstore_stop frees the context when no handler is left that uses it,    *)
(* and does not wait for the mutex.                                         *)
THEOREM DisconnectIsQuiet == Spec => []QuietAtDisconnect
<1>1. ASSUME IInv PROVE QuietAtDisconnect
  <2>1. ASSUME \A t \in Threads : pc[t] = "closed"
        PROVE  owner = NoOwner /\ wire = <<>> /\ \A t \in Threads : pc[t] \notin InHandler
    <3>1. wire = <<>> BY <1>1, <2>1, WireOwner DEF Calling
    <3>2. owner = NoOwner
      BY <1>1, <2>1, RaiAssumption DEF IInv, MutexInv, TypeOK, RaiTypeOK, Busy
    <3> QED BY <2>1, <3>1, <3>2 DEF InHandler, Busy
  <2> QED BY <1>1, <2>1 DEF IInv, StopInv, QuietAtDisconnect
<1> QED BY Invariant, <1>1, PTL

(* A write the handlers send does not replace an immutable message.         *)
LEMMA WriteKeeps ==
  ASSUME NEW c, rt.immutable, db \in Database, NEW k \in Keys,
         c.op # "INCR", c.op = "SET" => c.nx = rt.immutable,
         Exists(db, k), Exists(Effect(db, c), k)
  PROVE  Effect(db, c)[k] = db[k]
<1>1. CASE c.op = "SET" BY <1>1 DEF Effect, SetApplies, Exists, Database
<1>2. CASE c.op = "DEL" BY <1>2 DEF Effect, SetApplies, Exists, Database
<1>3. CASE c.op \notin {"SET", "DEL"} BY <1>3 DEF Effect, SetApplies
<1> QED BY <1>1, <1>2, <1>3

(* With IMMUTABLE a stored message is never replaced (do_redis_post).       *)
THEOREM ImmutableHolds == Spec => ImmutableStable
<1>1. ASSUME IInv, [Next]_vars
      PROVE  [rt.immutable =>
               \A k \in Keys : Exists(db, k) /\ Exists(db', k) => db'[k] = db[k]]_vars
  <2> SUFFICES ASSUME rt.immutable, NEW k \in Keys, Exists(db, k), Exists(db', k)
               PROVE  db'[k] = db[k]
    OBVIOUS
  <2> USE DEF raiVars
  <2>0. db \in Database BY <1>1 DEF IInv, TypeOK, RaiTypeOK
  <2>1. CASE UNCHANGED db BY <2>1
  <2>2. CASE Execute
    <3>1. PICK i \in 1..Len(wire) : RedisExecutes(i) BY <2>2 DEF Execute
    <3>2. /\ wire[i].cmd = Issued(wire[i].by) /\ pc[wire[i].by] \in Calling
          /\ wire[i].by \in Threads
      BY <1>1, FirstIsOnly, WireOwner
    <3>3. wire[i].cmd.op # "INCR" /\ (wire[i].cmd.op = "SET" => wire[i].cmd.nx = rt.immutable)
      BY <1>1, <3>2, IssuedTyped
    <3> QED BY <2>0, <3>1, <3>3, WriteKeeps DEF RedisExecutes
  <2>3. CASE OrphanRuns
    <3>1. PICK c \in orphans : OrphanExecutes(c) \/ OrphanIsLost(c) BY <2>3 DEF OrphanRuns
    <3>2. c.op # "INCR" /\ (c.op = "SET" => c.nx = rt.immutable)
      BY <1>1 DEF IInv, OrphanInv
    <3> QED BY <2>0, <3>1, <3>2, WriteKeeps DEF OrphanExecutes, OrphanIsLost
  <2>4. CASE Expire
    BY <2>0, <2>4 DEF Expire, KeyExpires, Expired, Exists, Database
  <2>5. ASSUME NEW t \in Threads, EnterNode(t) \/ nodecfg(t) \/ Step(t) PROVE UNCHANGED db
    BY <2>5 DEF EnterNode, nodecfg, Step, LockRai, SendCmd, TakeReply, ReplyLost, SendDel,
                DelReply, DelLost, UnlockRai, Respond, CloseIdle
  <2>6. CASE MainStep \/ Refuse \/ Break \/ Signal \/ LossFoundElsewhere \/ Crash \/ Restart
              \/ UNCHANGED vars
    BY <2>6 DEF MainStep, LeaveMainLoop, DaemonStopped, Disconnect, rai_disconnect, Refuse,
                RedisRefuses, Break, ConnectionBreaks, Signal, LossFoundElsewhere, Crash, RaiCrash,
                Restart, rai_connect, vars
  <2> QED BY <1>1, <2>1, <2>2, <2>3, <2>4, <2>5, <2>6 DEF Next, Environment
<1> QED BY Invariant, <1>1, PTL DEF Spec, ImmutableStable

-----------------------------------------------------------------------------
(* Burn after reading.                                                      *)

(* Only a thread in its critical section has a DEL outstanding.             *)
LEMMA DelIsMine ==
  ASSUME IInv, NEW t \in Threads, pc[t] \in Busy, NEW k, DelOutstanding(k)
  PROVE  /\ pc[t] \in {"del", "delreply"} /\ req[t].key = k
         /\ pc[t] = "delreply" /\ Alive => wire # <<>> /\ Undone
<1>1. PICK u \in Threads : /\ \/ pc[u] = "del"
                              \/ pc[u] = "delreply" /\ (Alive => wire # <<>> /\ Undone)
                           /\ req[u].key = k
  BY DEF DelOutstanding
<1> QED BY <1>1, OneBusy DEF Busy

(* A message that was handed out is deleted, or its deletion is still to    *)
(* come, or nobody can be answered any more, or it has been spared.         *)
LEMMA BurnStep == IInv /\ BurnInv /\ [Next]_vars => BurnInv'
<1> SUFFICES ASSUME IInv, BurnInv, [Next]_vars, rt'.bar,
                    NEW k \in Keys
             PROVE  (/\ served[k] # "twice"
                     /\ served[k] \in Handed /\ Exists(db, k) =>
                          ctx = "err" \/ DelOutstanding(k)
                     /\ Answered /\ Head(wire).cmd = Get(k) /\ Head(wire).reply.type = "STRING" =>
                          served[k] \notin Handed)'
  BY DEF BurnInv
<1> DEFINE First == Answered /\ Head(wire).cmd = Get(k) /\ Head(wire).reply.type = "STRING"
           Goal == /\ served[k] # "twice"
                   /\ served[k] \in Handed /\ Exists(db, k) => ctx = "err" \/ DelOutstanding(k)
                   /\ First => served[k] \notin Handed
<1> USE DEF raiVars, handlerVars, processVars
<1>0. /\ rt' = rt
      /\ served \in [Keys -> History]
      /\ pc \in [Threads -> InHandler \cup {"idle", "respond", "closed"}]
      /\ req \in [Threads -> Request \cup {NoReq}]
      /\ db \in Database
  <2>1. ASSUME NEW t \in Threads,
               EnterNode(t) \/ nodecfg(t) \/ Step(t)
        PROVE  rt' = rt
    BY <2>1 DEF EnterNode, nodecfg, Step, LockRai, SendCmd, TakeReply, ReplyLost, SendDel,
                DelReply, DelLost, UnlockRai, Respond, CloseIdle
  <2>2. ASSUME Environment PROVE rt' = rt
    BY <2>2 DEF Environment, Execute, Refuse, Break, OrphanRuns, Expire, Signal,
                LossFoundElsewhere, Crash, Restart
  <2>3. ASSUME MainStep PROVE rt' = rt
    BY <2>3 DEF MainStep, LeaveMainLoop, DaemonStopped, Disconnect
  <2>4. ASSUME UNCHANGED vars PROVE rt' = rt BY <2>4 DEF vars
  <2>5. rt' = rt BY <2>1, <2>2, <2>3, <2>4 DEF Next
  <2> QED BY <2>5 DEF IInv, TypeOK, RaiTypeOK
<1>k. Goal BY <1>0 DEF BurnInv
(* A step that touches neither the wire nor a thread with a DEL outstanding. *)
<1>1. ASSUME UNCHANGED <<wire, ctx, link, db, served>>,
             \A u \in Threads : pc[u] \in {"del", "delreply"} => pc'[u] = pc[u] /\ req'[u] = req[u]
      PROVE  Goal'
  <2>1. DelOutstanding(k) => DelOutstanding(k)'
    BY <1>1 DEF DelOutstanding, Alive, Answered, Undone
  <2> QED BY <1>k, <1>1, <2>1 DEF Exists, Answered
<1>2. ASSUME NEW t \in Threads,
             EnterNode(t) \/ nodecfg(t) \/ LockRai(t) \/ Respond(t) \/ CloseIdle(t)
      PROVE  Goal'
  <2>1. /\ pc[t] \notin {"del", "delreply"}
        /\ \A u \in Threads \ {t} : pc'[u] = pc[u] /\ req'[u] = req[u]
        /\ UNCHANGED <<wire, ctx, link, db, served>>
    BY <1>0, <1>2 DEF EnterNode, nodecfg, MayRun, get, post, Finish, Accept, LockRai, Respond,
                      CloseIdle
  <2> QED BY <1>1, <2>1
<1>3. ASSUME NEW t \in Threads, UnlockRai(t) PROVE Goal'
  <2>1. /\ pc[t] \notin {"del", "delreply"}
        /\ \A u \in Threads \ {t} : pc'[u] = pc[u] /\ req'[u] = req[u]
        /\ UNCHANGED <<wire, ctx, link, db, served>>
    BY <1>0, <1>3 DEF UnlockRai
  <2> QED BY <1>1, <2>1
<1>4. ASSUME NEW t \in Threads, SendCmd(t) PROVE Goal'
  <2>1. wire = <<>> /\ pc[t] \in Busy BY <1>4, WireFree DEF SendCmd, Busy, Calling
  <2>2. ~DelOutstanding(k) BY <1>4, <2>1, DelIsMine DEF SendCmd
  <2>3. ~Answered' BY <1>4, <2>1 DEF SendCmd, Send, Answered, RaiAssumption
  <2> QED BY <1>k, <1>4, <2>2, <2>3 DEF SendCmd, Exists
<1>5. ASSUME NEW t \in Threads, TakeReply(t) PROVE Goal'
  <2>1. /\ pc[t] = "reply" /\ pc[t] \in Busy /\ pc[t] \in Calling /\ wire # <<>>
        /\ wire' = <<>> /\ Alive
    BY <1>5, WireOwner DEF TakeReply, Receive, Answered, Busy, Calling
  <2>2. ~DelOutstanding(k) BY <2>1, DelIsMine
  <2>3. served[k] \in Handed => ~Exists(db, k) BY <1>k, <2>1, <2>2 DEF Alive
  <2>4. wire[1].by = t /\ Head(wire) = wire[1] /\ Head(wire).cmd = CommandOf(req[t])
    BY <2>1, WireOwner, OneBusy DEF Busy, Calling, Issued
  <2>5. req[t] \in Request BY <2>1 DEF IInv, RequestInv, InHandler
  <2>6. ~Answered' BY <2>1 DEF Answered
  <2> DEFINE read == ResultOf(req[t], Head(wire).reply).page # NoVal
  <2>7. CASE ~read \/ req[t].key # k
    <3>1. served'[k] = served[k] /\ UNCHANGED db
      BY <1>0, <1>5, <2>5, <2>7, HistoryIs DEF TakeReply, Request
    <3> QED BY <1>k, <2>3, <2>6, <3>1 DEF Exists
  <2>8. CASE read /\ req[t].key = k
    <3>1. req[t].kind = "GET" /\ Head(wire).reply.type = "STRING"
      BY <2>5, <2>8 DEF ResultOf, GetResult, PostResult, Status, Request
    <3>2. Head(wire).cmd = Get(k) BY <2>4, <2>8, <3>1 DEF CommandOf
    <3>3. served[k] \notin Handed BY <1>k, <1>5, <3>1, <3>2 DEF TakeReply, Receive
    <3>4. served'[k] \in Handed BY <1>0, <1>k, <1>5, <2>8, <3>3, HistoryIs DEF TakeReply
    <3>5. pc'[t] = "del" /\ req' = req BY <1>0, <1>5, <2>8 DEF TakeReply
    <3>6. DelOutstanding(k)' BY <2>8, <3>5 DEF DelOutstanding
    <3> QED BY <2>6, <3>4, <3>6 DEF Handed
  <2> QED BY <2>7, <2>8
<1>6. ASSUME NEW t \in Threads, ReplyLost(t) \/ DelLost(t) PROVE Goal'
  <2>1. wire = <<>> BY <1>6, WireOwner DEF ReplyLost, DelLost, ReceiveNull
  <2> QED BY <1>k, <1>6, <2>1 DEF ReplyLost, DelLost, ReceiveNull, Answered, Exists
<1>7. ASSUME NEW t \in Threads, SendDel(t) PROVE Goal'
  <2>1. wire = <<>> /\ pc[t] = "del" /\ pc[t] \in Busy
    BY <1>7, WireFree DEF SendDel, Busy, Calling
  <2>2. ~Answered' /\ (Alive' => wire' # <<>>)
    BY <1>7, <2>1 DEF SendDel, Send, Answered, Alive
  <2>3. pc'[t] = "delreply" /\ UNCHANGED <<req, db, ctx, link, served>>
    BY <1>0, <1>7 DEF SendDel
  <2>4. DelOutstanding(k) => DelOutstanding(k)'
    BY <2>1, <2>2, <2>3, DelIsMine DEF DelOutstanding, Undone
  <2> QED BY <1>k, <2>2, <2>3, <2>4 DEF Exists
<1>8. ASSUME NEW t \in Threads, DelReply(t) PROVE Goal'
  <2>1. /\ pc[t] = "delreply" /\ pc[t] \in Busy /\ Alive /\ Answered /\ wire' = <<>>
    BY <1>8, WireOwner DEF DelReply, Receive, Answered, Busy
  <2>2. DelOutstanding(k) => Head(wire).reply.type = "ERROR" /\ req[t].key = k
    BY <2>1, DelIsMine DEF Undone
  <2>3. UNCHANGED <<db, ctx>> /\ (served'[k] = served[k] \/ served'[k] = "spared")
    BY <1>0, <1>8, HistoryIs DEF DelReply
  <2>4. Head(wire).reply.type = "ERROR" /\ req[t].key = k => served'[k] \notin Handed
    BY <1>0, <1>8, HistoryIs DEF DelReply
  <2> QED BY <1>k, <2>1, <2>2, <2>3, <2>4 DEF Exists, Answered, Handed
<1>9. CASE Execute
  <2>1. PICK i \in 1..Len(wire) : RedisExecutes(i) /\ served' = Fresh(wire[i].cmd)
    BY <1>9 DEF Execute
  <2>2. /\ i = 1 /\ Len(wire) = 1 /\ wire # <<>> /\ Alive /\ wire[1] \in Item
        /\ wire[1].by \in Threads /\ pc[wire[1].by] \in Calling
        /\ wire[1].cmd = Issued(wire[1].by)
        /\ wire[1].reply = Pending
    BY <2>1, FirstIsOnly, WireOwner DEF RedisExecutes, FirstPending
  <2> DEFINE t == wire[1].by
             c == wire[1].cmd
  <2>3. c \in Command /\ c.op \in {"GET", "SET", "DEL"}
    BY <2>2, IssuedTyped
  <2>4. /\ Head(wire').reply = ReplyTo(db, c) /\ Head(wire').cmd = c
        /\ db' = Effect(db, c) /\ UNCHANGED <<ctx, link, pc, req>>
    BY <1>9, <2>1, <2>2 DEF RedisExecutes, Execute, Item
  <2>5. CASE c.op = "GET"
    <3>1. UNCHANGED <<db, served>> BY <2>1, <2>2, <2>4, <2>5 DEF Effect, SetApplies, Fresh
    <3>2. pc[t] = "reply" BY <2>2, <2>5 DEF Issued, Del, Calling
    <3>3. ~DelOutstanding(k) BY <2>2, <3>2, DelIsMine DEF Busy
    <3>4. First' => Exists(db, k)
      BY <2>3, <2>4, <2>5 DEF ReplyTo, Plain, Get, SetApplies
    <3>5. served[k] \in Handed => ~Exists(db, k) BY <1>k, <2>2, <3>3 DEF Alive
    <3> QED BY <1>0, <1>k, <2>4, <3>1, <3>4, <3>5 DEF Exists
  <2>6. CASE c.op = "SET"
    <3>1. ~First' BY <2>4, <2>6 DEF Get
    <3>2. pc[t] = "reply" BY <2>2, <2>6 DEF Issued, Del, Calling
    <3>3. ~DelOutstanding(k) BY <2>2, <3>2, DelIsMine DEF Busy
    <3>4. served[k] \in Handed => ~Exists(db, k) BY <1>k, <2>2, <3>3 DEF Alive
    <3>5. CASE SetApplies(db, c) /\ c.key = k
      <4>1. served'[k] = "unread" BY <1>0, <2>1, <2>2, <3>5 DEF Fresh
      <4> QED BY <3>1, <4>1 DEF Handed
    <3>6. CASE ~(SetApplies(db, c) /\ c.key = k)
      <4>1. served'[k] = served[k] /\ db'[k] = db[k]
        BY <1>0, <2>1, <2>2, <2>3, <2>4, <2>6, <3>6 DEF Fresh, Effect, Database, Command
      <4> QED BY <1>k, <3>1, <3>4, <4>1 DEF Exists
    <3> QED BY <3>5, <3>6
  <2>7. CASE c.op = "DEL"
    <3>1. ~First' BY <2>4, <2>7 DEF Get
    <3>2. served' = served BY <2>1, <2>2, <2>7 DEF Fresh, SetApplies
    <3>3. pc[t] = "delreply" /\ c.key = req[t].key
      <4>1. pc[t] # "reply" BY <2>2, <2>7 DEF Issued, CommandOf, Get, Set
      <4> QED BY <2>2, <4>1 DEF Issued, Del, Calling
    <3>4. CASE c.key = k
      <4>1. ~Exists(db', k) BY <1>0, <2>4, <2>7, <3>4 DEF Effect, SetApplies, Exists, Database
      <4> QED BY <1>k, <3>1, <3>2, <4>1 DEF Exists
    <3>5. CASE c.key # k
      <4>1. ~DelOutstanding(k) BY <2>2, <3>3, <3>5, DelIsMine DEF Busy
      <4>2. db'[k] = db[k]
        BY <1>0, <2>4, <2>7, <3>5 DEF Effect, SetApplies, Database
      <4> QED BY <1>k, <2>4, <3>1, <3>2, <4>1, <4>2 DEF Exists
    <3> QED BY <3>4, <3>5
  <2> QED BY <2>3, <2>5, <2>6, <2>7
<1>10. CASE Refuse
  <2>1. PICK i \in 1..Len(wire) : RedisRefuses(i) BY <1>10 DEF Refuse
  <2>2. /\ i = 1 /\ Len(wire) = 1 /\ wire # <<>> /\ wire[1] \in Item /\ wire \in Seq(Item)
    BY <2>1, FirstIsOnly, WireOwner
  <2>3. wire' # <<>> /\ Head(wire').reply.type = "ERROR"
    BY <2>1, <2>2 DEF RedisRefuses, Plain, Item
  <2>4. UNCHANGED <<db, ctx, link, pc, req, served>>
    BY <1>10, <2>1 DEF Refuse, RedisRefuses
  <2>5. DelOutstanding(k) => DelOutstanding(k)'
    BY <2>3, <2>4 DEF DelOutstanding, Undone
  <2>6. ~First' BY <2>3
  <2> QED BY <1>k, <2>4, <2>5, <2>6 DEF Exists
<1>11. CASE Break
  <2>1. ~Alive' /\ ~Answered' /\ UNCHANGED <<db, ctx, pc, req, served>>
    BY <1>11 DEF Break, ConnectionBreaks, Alive, Answered
  <2>2. DelOutstanding(k) => DelOutstanding(k)'
    BY <2>1 DEF DelOutstanding
  <2> QED BY <1>k, <2>1, <2>2 DEF Exists
<1>12. CASE OrphanRuns
  <2>1. PICK c \in orphans : \/ OrphanExecutes(c) /\ served' = Fresh(c)
                             \/ OrphanIsLost(c) /\ UNCHANGED served
    BY <1>12 DEF OrphanRuns
  <2>2. c \in Command /\ c.op \in {"SET", "DEL"} BY DEF IInv, OrphanInv, TypeOK, RaiTypeOK
  <2>3. UNCHANGED <<ctx, link, wire, pc, req>>
    BY <1>12, <2>1 DEF OrphanRuns, OrphanExecutes, OrphanIsLost
  <2>4. DelOutstanding(k) => DelOutstanding(k)'
    BY <2>3 DEF DelOutstanding, Alive, Answered, Undone
  <2>5. \/ served'[k] = "unread"
        \/ served'[k] = served[k] /\ (Exists(db', k) => Exists(db, k))
    <3>1. CASE OrphanIsLost(c) /\ UNCHANGED served BY <3>1 DEF OrphanIsLost
    <3>2. CASE OrphanExecutes(c) /\ served' = Fresh(c)
      BY <1>0, <2>2, <3>2 DEF OrphanExecutes, Fresh, Effect, SetApplies, Exists, Database, Command
    <3> QED BY <2>1, <3>1, <3>2
  <2>6. First' <=> First BY <2>3 DEF Answered
  <2> QED BY <1>k, <2>3, <2>4, <2>5, <2>6 DEF Handed
<1>13. CASE Expire
  <2>1. /\ UNCHANGED <<ctx, link, wire, pc, req, served>>
        /\ Exists(db', k) => Exists(db, k)
    BY <1>0, <1>13 DEF Expire, KeyExpires, Expired, Exists, Database
  <2>2. DelOutstanding(k) => DelOutstanding(k)'
    BY <2>1 DEF DelOutstanding, Alive, Answered, Undone
  <2> QED BY <1>k, <2>1, <2>2 DEF Answered
<1>14. CASE Signal \/ LeaveMainLoop \/ DaemonStopped \/ UNCHANGED vars
  BY <1>1, <1>14 DEF Signal, LeaveMainLoop, DaemonStopped, vars
<1>15. CASE Disconnect \/ Crash
  <2>1. ~Answered'
    <3>1. CASE Crash BY <3>1 DEF Crash, RaiCrash, Answered
    <3>2. CASE Disconnect
      <4>1. wire = <<>> BY <3>2, WireOwner DEF Disconnect, IInv, StopInv, Calling
      <4> QED BY <3>2, <4>1 DEF Disconnect, rai_disconnect, Answered
    <3> QED BY <1>15, <3>1, <3>2
  <2>2. UNCHANGED db BY <1>15 DEF Disconnect, rai_disconnect, Crash, RaiCrash
  <2>3. CASE served' = Spared(Keys)
    BY <1>0, <1>k, <2>1, <2>3, HistoryIs DEF Handed
  <2>4. CASE Disconnect /\ ctx # "err" /\ served' = served
    <3>1. \A t \in Threads : pc[t] = "closed" BY <2>4 DEF Disconnect, IInv, StopInv
    <3>2. ~DelOutstanding(k) BY <3>1 DEF DelOutstanding
    <3> QED BY <1>k, <2>1, <2>2, <2>4, <3>2 DEF Exists
  <2> QED BY <1>15, <2>3, <2>4 DEF Disconnect, Crash
<1>16. CASE Restart
  <2>1. /\ ctx = "none" /\ UNCHANGED <<wire, db, served>>
        /\ \A t \in Threads : pc[t] = "closed"
    BY <1>16 DEF Restart, rai_connect, IInv, StopInv
  <2>2. ~DelOutstanding(k) BY <2>1 DEF DelOutstanding
  <2>3. wire = <<>> BY <2>1, WireOwner DEF Calling
  <2> QED BY <1>k, <2>1, <2>2, <2>3 DEF Exists, Answered
<1>17. CASE LossFoundElsewhere
  <2>1. wire = <<>> BY <1>17, WireOwner DEF LossFoundElsewhere, ReceiveNull
  <2> QED BY <1>k, <1>17, <2>1 DEF LossFoundElsewhere, ReceiveNull, Answered, Exists
<1> QED
  BY <1>2, <1>3, <1>4, <1>5, <1>6, <1>7, <1>8, <1>9, <1>10, <1>11, <1>12, <1>13, <1>14, <1>15,
     <1>16, <1>17 DEF Next, Step, MainStep, Environment

(* With BAR, a message that was handed to a GET is handed to another one    *)
(* only after a failure that spared it: redis has refused its DEL, or the   *)
(* process that had read it crashed or ended without its connection.  This  *)
(* is so for any number of threads and keys, and through any number of      *)
(* restarts, none of which makes the history forget (get(), do_redis_del).  *)
THEOREM BurnOnce == Spec => []RereadOnlyIfSpared
<1>1. ASSUME Init PROVE BurnInv
  <2>1. ~Answered BY <1>1 DEF Init, RaiInit, Answered
  <2>2. \A k \in Keys : served[k] = "unread"
    BY <1>1, Zenon DEF Init
  <2>3. "unread" \notin Handed /\ "unread" # "twice" BY DEF Handed
  <2> QED BY <2>1, <2>2, <2>3, Zenon DEF BurnInv
<1>2. BurnInv => RereadOnlyIfSpared BY DEF BurnInv, RereadOnlyIfSpared
<1> QED BY Invariant, BurnStep, <1>1, <1>2, PTL DEF Spec

-----------------------------------------------------------------------------
(* The refinement: WebstoreNode implements MessageStore.                    *)

(* Names for the pieces of an operation.                                    *)
NoOp     == [st |-> "idle", req |-> NoReq, code |-> 0, page |-> NoVal]
Opened(r)  == [st |-> "open", req |-> r, code |-> 0, page |-> NoVal]
Done(r, a) == [st |-> "done", req |-> r, code |-> a.code, page |-> a.page]

OthersStay(t) == \A u \in Threads \ {t} : OpOf(u)' = OpOf(u)
OpsStay       == \A u \in Threads : OpOf(u)' = OpOf(u)

(* A step that changes the operation of one client.                         *)
LEMMA OneOp ==
  ASSUME NEW t \in Threads, OthersStay(t)
  PROVE  [u \in Threads |-> OpOf(u)]' = [[u \in Threads |-> OpOf(u)] EXCEPT ![t] = OpOf(t)']
BY DEF OthersStay

(* The answer to t, as the store gives it.                                  *)
LEMMA Answers ==
  ASSUME NEW t \in Threads, NEW r, NEW a, NEW b, NEW st \in {"open", "done"}, OthersStay(t),
         OpOf(t) = [st |-> st, req |-> r, code |-> b.code, page |-> b.page],
         OpOf(t)' = Done(r, a)
  PROVE  Store!Answer(t, a.code, a.page)
<1> DEFINE f == [u \in Threads |-> OpOf(u)]
           h == [f[t] EXCEPT !.st = "done", !.code = a.code, !.page = a.page]
<1>1. f[t] = [st |-> st, req |-> r, code |-> b.code, page |-> b.page] OBVIOUS
<1>2. f' = [f EXCEPT ![t] = OpOf(t)'] BY OneOp
<1>3. Store!Answer(t, a.code, a.page) <=>
        f' = [f EXCEPT ![t].st = "done", ![t].code = a.code, ![t].page = a.page]
  BY DEF Store!Answer
<1>4. t \in DOMAIN f OBVIOUS
<1> HIDE DEF f
<1>5. h = Done(r, a)
  <2>1. PICK o : o = f[t] OBVIOUS
  <2>2. PICK x : x = [o EXCEPT !.st = "done"] OBVIOUS
  <2>3. PICK y : y = [x EXCEPT !.code = a.code] OBVIOUS
  <2>4. x = [st |-> "done", req |-> r, code |-> b.code, page |-> b.page] BY <1>1, <2>1, <2>2
  <2>5. y = [st |-> "done", req |-> r, code |-> a.code, page |-> b.page] BY <2>3, <2>4
  <2>6. [y EXCEPT !.page = a.page] = Done(r, a) BY <2>5 DEF Done
  <2>7. [y EXCEPT !.page = a.page]
          = [o EXCEPT !.st = "done", !.code = a.code, !.page = a.page]
    BY <2>2, <2>3
  <2> QED BY <2>1, <2>6, <2>7
<1>6. [f EXCEPT ![t].st = "done", ![t].code = a.code, ![t].page = a.page] = [f EXCEPT ![t] = h]
  BY <1>4
<1> QED BY <1>2, <1>3, <1>5, <1>6

(* A request begins.                                                       *)
LEMMA Begins ==
  ASSUME NEW t \in Threads, NEW r \in Request, OthersStay(t), UNCHANGED <<rt, db, LimboOf>>,
         OpOf(t) = NoOp, OpOf(t)' = Opened(r)
  PROVE  Store!Next
<1> DEFINE f == [u \in Threads |-> OpOf(u)]
           h == [f[t] EXCEPT !.st = "open", !.req = r]
<1>1. f[t] = NoOp OBVIOUS
<1>2. f' = [f EXCEPT ![t] = OpOf(t)'] BY OneOp
<1>3. /\ f[t].st = "idle"
      /\ f' = [f EXCEPT ![t].st = "open", ![t].req = r]
  <2>1. t \in DOMAIN f OBVIOUS
  <2> HIDE DEF f
  <2>2. h = Opened(r)
    <3>1. PICK o : o = f[t] OBVIOUS
    <3>2. PICK x : x = [o EXCEPT !.st = "open"] OBVIOUS
    <3>3. x = [st |-> "open", req |-> NoReq, code |-> 0, page |-> NoVal]
      BY <1>1, <3>1, <3>2 DEF NoOp
    <3>4. [x EXCEPT !.req = r] = Opened(r) BY <3>3 DEF Opened
    <3>5. [x EXCEPT !.req = r] = [o EXCEPT !.st = "open", !.req = r] BY <3>2
    <3> QED BY <3>1, <3>4, <3>5
  <2>3. [f EXCEPT ![t].st = "open", ![t].req = r] = [f EXCEPT ![t] = h] BY <2>1
  <2>4. f[t].st = "idle" BY <1>1 DEF NoOp
  <2>5. [f EXCEPT ![t].st = "open", ![t].req = r] = [f EXCEPT ![t] = OpOf(t)'] BY <2>2, <2>3
  <2> QED BY <1>2, <2>4, <2>5
<1>4. Store!Begin(t)
  <2>1. r \in Store!Request BY DEF Store!Request, Request
  <2>2. f[t].st = "idle" BY <1>3
  <2>3. \E q \in Store!Request : f' = [f EXCEPT ![t].st = "open", ![t].req = q]
    BY <1>3, <2>1, Zenon
  <2> QED BY <2>2, <2>3, Zenon DEF Store!Begin
<1> QED BY <1>4 DEF Store!Next

(* The client gets its answer.                                             *)
LEMMA Returns ==
  ASSUME NEW t \in Threads, NEW r, NEW a, OthersStay(t), UNCHANGED <<rt, db, LimboOf>>,
         OpOf(t) = Done(r, a), OpOf(t)' = NoOp
  PROVE  Store!Next
<1> DEFINE f == [u \in Threads |-> OpOf(u)]
<1>1. f[t].st = "done" BY DEF Done
<1>2. f' = [f EXCEPT ![t] = NoOp] BY OneOp
<1>3. Store!Return(t)
  BY <1>1, <1>2 DEF Store!Return, Store!NoOp, NoOp
<1> QED BY <1>3 DEF Store!Next

(* Nothing happens for the store.                                          *)
LEMMA Stutters ==
  ASSUME OpsStay, UNCHANGED <<rt, db, LimboOf>>
  PROVE  UNCHANGED Store!vars
BY DEF Store!vars, OpsStay

(* A write in limbo is given up.                                           *)
LEMMA Forgets ==
  ASSUME OpsStay, UNCHANGED <<rt, db>>, LimboOf' \subseteq LimboOf
  PROVE  Store!Next
<1>1. Store!Forget
  BY DEF Store!Forget, Store!Forgetting, OpsStay
<1> QED BY <1>1 DEF Store!Next
(* The removal of the message under k, as the store remembers it.           *)
Removal(k) == [key |-> k, entry |-> NoEntry]

(* An open request is open in the store.                                   *)
LEMMA OpenIs ==
  ASSUME NEW t \in Threads, NEW r, OpOf(t) = Opened(r)
  PROVE  /\ [u \in Threads |-> OpOf(u)][t].req = r
         /\ [u \in Threads |-> OpOf(u)][t].st = "open"
         /\ Store!Open(t, r.kind)
BY DEF Store!Open, Opened

(* A GET takes effect and is answered.                                     *)
LEMMA Gets ==
  ASSUME NEW t \in Threads, NEW r, NEW a, OthersStay(t), UNCHANGED rt,
         OpOf(t) = Opened(r), OpOf(t)' = Done(r, a), r.kind = "GET",
         \/ /\ Exists(db, r.key) /\ a.code = 200 /\ a.page = db[r.key].val
            /\ db' = IF rt.bar /\ ~Faulty THEN Expired(db, r.key) ELSE db
            /\ LimboOf' \subseteq LimboOf \cup (IF rt.bar /\ Faulty THEN {Removal(r.key)} ELSE {})
         \/ /\ ~Exists(db, r.key) /\ a.code = 404 /\ a.page = NoVal
            /\ UNCHANGED <<db, LimboOf>>
  PROVE  Store!Next
<1>1. Store!Answer(t, a.code, a.page)
  <2>1. OpOf(t) = [st |-> "open", req |-> r, code |-> NoOp.code, page |-> NoOp.page]
    BY DEF Opened, NoOp
  <2> QED BY <2>1, Answers
<1>2. /\ Store!Open(t, "GET") /\ [u \in Threads |-> OpOf(u)][t].req = r BY OpenIs
<1>3. Store!AnswerGet(t)
  <2>1. CASE Exists(db, r.key)
    BY <1>1, <1>2, <2>1
       DEF Store!AnswerGet, Store!Holds, Store!Written, Store!Burn, Store!Forgetting, Removal,
           Exists, Expired
  <2>2. CASE ~Exists(db, r.key)
    BY <1>1, <1>2, <2>2 DEF Store!AnswerGet, Store!Holds, Exists
  <2> QED BY <2>1, <2>2
<1> QED BY <1>3 DEF Store!Next

(* A POST takes effect and is answered.                                    *)
LEMMA Posts ==
  ASSUME NEW t \in Threads, NEW r, NEW a, OthersStay(t), UNCHANGED <<rt, LimboOf>>,
         OpOf(t) = Opened(r), OpOf(t)' = Done(r, a), r.kind = "POST", r.val \in Vals,
         rt.expiration \in Nat,
         a = Status(IF rt.immutable /\ Exists(db, r.key) THEN 304 ELSE 200),
         db' = IF rt.immutable /\ Exists(db, r.key)
               THEN db ELSE [db EXCEPT ![r.key] = [val |-> r.val, ttl |-> rt.expiration]]
  PROVE  Store!Next
<1>1. Store!Answer(t, a.code, a.page)
  <2>1. OpOf(t) = [st |-> "open", req |-> r, code |-> NoOp.code, page |-> NoOp.page]
    BY DEF Opened, NoOp
  <2> QED BY <2>1, Answers
<1>2. /\ Store!Open(t, "POST") /\ [u \in Threads |-> OpOf(u)][t].req = r BY OpenIs
<1>3. [val |-> r.val, ttl |-> rt.expiration] # NoEntry
  BY RedisAssumption
<1>4. Store!AnswerPost(t)
  BY <1>1, <1>2, <1>3
     DEF Store!AnswerPost, Store!Holds, Store!Written, Store!WriteOf, Store!Message, Exists, Status
<1> QED BY <1>4 DEF Store!Next

(* A request is refused.                                                   *)
LEMMA Refuses ==
  ASSUME NEW t \in Threads, NEW r, NEW a, OthersStay(t), UNCHANGED <<rt, db, LimboOf>>, Faulty,
         OpOf(t) = Opened(r), OpOf(t)' = Done(r, a),
         a = Status(IF r.kind = "GET" THEN 404 ELSE 417), r.kind \in {"GET", "POST"}
  PROVE  Store!Next
<1>1. Store!Answer(t, a.code, a.page)
  <2>1. OpOf(t) = [st |-> "open", req |-> r, code |-> NoOp.code, page |-> NoOp.page]
    BY DEF Opened, NoOp
  <2> QED BY <2>1, Answers
<1>2. Store!Open(t, r.kind) BY OpenIs
<1>3. Store!Refuse(t)
  BY <1>1, <1>2 DEF Store!Refuse, Status
<1> QED BY <1>3 DEF Store!Next

(* A request fails, or its answer is lost.                                 *)
LEMMA Fails ==
  ASSUME NEW t \in Threads, NEW r, NEW b, NEW st \in {"open", "done"}, OthersStay(t),
         UNCHANGED <<rt, db>>, Faulty,
         OpOf(t) = [st |-> st, req |-> r, code |-> b.code, page |-> b.page],
         OpOf(t)' = Done(r, Status(503)),
         LimboOf' \subseteq LimboOf \cup
           (IF st = "open" /\ r.kind = "POST"
            THEN {[key |-> r.key, entry |-> [val |-> r.val, ttl |-> rt.expiration]]} ELSE {})
  PROVE  Store!Next
<1> DEFINE f == [u \in Threads |-> OpOf(u)]
<1>1. Store!Answer(t, 503, NoVal)
  <2>1. Status(503).code = 503 /\ Status(503).page = NoVal BY DEF Status
  <2>2. Store!Answer(t, Status(503).code, Status(503).page) BY Answers
  <2> QED BY <2>1, <2>2
<1>2. f[t].st = st /\ f[t].req = r OBVIOUS
<1>3. Store!Fail(t)
  BY <1>1, <1>2 DEF Store!Fail, Store!Forgetting, Store!Open, Store!WriteOf, Store!Message
<1> QED BY <1>3 DEF Store!Next

(* A write in limbo takes effect.                                          *)
LEMMA Lates ==
  ASSUME OpsStay, UNCHANGED rt, NEW w \in LimboOf, LimboOf' \subseteq LimboOf,
         db' = IF rt.immutable /\ w.entry # NoEntry /\ Exists(db, w.key)
               THEN db ELSE [db EXCEPT ![w.key] = w.entry]
  PROVE  Store!Next
<1>1. Store!Late
  BY DEF Store!Late, Store!Forgetting, Store!Written, Store!Holds, OpsStay, Exists
<1> QED BY <1>1 DEF Store!Next

(* A message expires.                                                      *)
LEMMA Expires ==
  ASSUME OpsStay, UNCHANGED <<rt, LimboOf>>, NEW k \in Keys, Exists(db, k), db[k].ttl > 0,
         db' = Expired(db, k)
  PROVE  Store!Next
<1>1. Store!Expire
  BY DEF Store!Expire, Store!Holds, OpsStay, Exists, Expired
<1> QED BY <1>1 DEF Store!Next

-----------------------------------------------------------------------------
(* What redis does is done for the thread that waits.                       *)

ProcessRests == UNCHANGED <<pc, req, res, rt, ctx, link, orphans, mainpc>>

ExecutedFor(t) ==
  /\ t \in Threads /\ pc[t] \in Calling
  /\ Alive /\ ~Answered /\ Answered'
  /\ Head(wire').reply = ReplyTo(db, Issued(t))
  /\ db' = Effect(db, Issued(t))
  /\ ProcessRests

(* redis executes the command of the thread that waits, and answers it.    *)
LEMMA Executed ==
  ASSUME IInv, Execute
  PROVE  \E t : ExecutedFor(t)
<1>1. PICK i \in 1..Len(wire) : RedisExecutes(i) BY DEF Execute
<1>2. /\ i = 1 /\ Len(wire) = 1 /\ wire # <<>> /\ Alive /\ wire[1] \in Item
      /\ wire[1].by \in Threads /\ pc[wire[1].by] \in Calling /\ Head(wire) = wire[1]
      /\ wire[1].cmd = Issued(wire[1].by)
      /\ wire[1].reply = Pending
  BY <1>1, FirstIsOnly, WireOwner DEF RedisExecutes, FirstPending
<1> DEFINE t == wire[1].by
<1>3. /\ Issued(t) \in Command /\ Issued(t).op # "INCR"
      /\ Issued(t).op = "SET" => Issued(t).val \in Vals
  BY <1>2, IssuedTyped
<1>4. ReplyTo(db, Issued(t)) # Pending
  BY <1>3, RedisTyped, RaiAssumption DEF IInv, TypeOK, RaiTypeOK
<1>5. wire' # <<>> /\ Head(wire').reply = ReplyTo(db, Issued(t)) /\ db' = Effect(db, Issued(t))
  BY <1>1, <1>2 DEF RedisExecutes, Item
<1>6. ExecutedFor(t)
  BY <1>1, <1>2, <1>4, <1>5
     DEF ExecutedFor, Execute, RedisExecutes, processVars, handlerVars, Answered, ProcessRests
<1> QED BY <1>6

RefusedFor(t) ==
  /\ t \in Threads /\ pc[t] \in Calling
  /\ Alive /\ ~Answered /\ Answered'
  /\ Head(wire').reply = Plain("ERROR")
  /\ ProcessRests /\ UNCHANGED db

(* redis refuses the command of the thread that waits.                     *)
LEMMA RefusedOne ==
  ASSUME IInv, Refuse
  PROVE  \E t : RefusedFor(t)
<1>1. PICK i \in 1..Len(wire) : RedisRefuses(i) BY DEF Refuse
<1>2. /\ i = 1 /\ Len(wire) = 1 /\ wire # <<>> /\ Alive /\ wire[1] \in Item
      /\ wire[1].by \in Threads /\ pc[wire[1].by] \in Calling /\ Head(wire) = wire[1]
      /\ wire[1].reply = Pending
  BY <1>1, FirstIsOnly, WireOwner DEF RedisRefuses, FirstPending
<1> DEFINE t == wire[1].by
<1>4. Plain("ERROR") # Pending
  BY RaiAssumption DEF Plain, Reply, ReplyType
<1>5. wire' # <<>> /\ Head(wire').reply = Plain("ERROR")
  BY <1>1, <1>2 DEF RedisRefuses, Item
<1>6. RefusedFor(t)
  BY <1>1, <1>2, <1>4, <1>5
     DEF RefusedFor, Refuse, RedisRefuses, processVars, handlerVars, Answered, ProcessRests
<1> QED BY <1>6

(* A thread outside of its critical section, and one around which nothing   *)
(* changes.                                                                 *)
Still(u) == pc'[u] = pc[u] /\ req'[u] = req[u] /\ res'[u] = res[u]

(* A thread outside of its critical section is not in the middle of a request. *)
LEMMA Outside ==
  ASSUME NEW u \in Threads, pc[u] \notin Busy
  PROVE  /\ ~Burning(u) /\ ~Replied(u)
         /\ Still(u) => OpOf(u)' = OpOf(u) /\ ~Burning(u)'
<1> USE DEF Busy, Burning, Replied
<1>1. ~Burning(u) /\ ~Replied(u) OBVIOUS
<1>2. ASSUME Still(u) PROVE OpOf(u)' = OpOf(u) /\ ~Burning(u)'
  <2>1. ~Burning(u)' /\ ~Replied(u)' /\ pc'[u] \notin Busy BY <1>2 DEF Still
  <2>2. NotYet(u)' <=> NotYet(u) BY <1>2, <1>1, <2>1 DEF Still, NotYet
  <2>3. AnswerOf(u)' = AnswerOf(u) BY <1>2, <1>1, <2>1 DEF Still, AnswerOf
  <2> QED BY <1>2, <2>1, <2>2, <2>3 DEF OpOf, Still
<1> QED BY <1>1, <1>2

(* A thread is where it was, with what it sees of redis.                   *)
LEMMA Around ==
  ASSUME NEW u \in Threads, UNCHANGED <<db, wire, ctx, link, rt>>, Still(u)
  PROVE  /\ OpOf(u)' = OpOf(u) /\ (Burning(u)' <=> Burning(u))
         /\ AnswerOf(u)' = AnswerOf(u)
<1>1. /\ Alive' <=> Alive
      /\ Answered' <=> Answered
      /\ Head(wire') = Head(wire)
  BY DEF Alive, Answered
<1>2. (Replied(u)' <=> Replied(u)) /\ ReplyNow(u)' = ReplyNow(u)
  BY <1>1 DEF Replied, ReplyNow, Still, ResultOf, GetResult, PostResult
<1>3. Burning(u)' <=> Burning(u) BY <1>1, <1>2 DEF Burning, Still
<1>4. NotYet(u)' <=> NotYet(u) BY <1>1, <1>3 DEF NotYet, Still, Exists
<1>5. AnswerOf(u)' = AnswerOf(u) BY <1>2 DEF AnswerOf, Still
<1> QED BY <1>3, <1>4, <1>5 DEF OpOf, Still

(* When one thread is in its critical section, no other burns.              *)
LEMMA OnlyOne ==
  ASSUME IInv, NEW t \in Threads, pc[t] \in Busy, NEW u \in Threads \ {t}
  PROVE  /\ pc[u] \notin Busy /\ ~Burning(u)
         /\ Still(u) => OpOf(u)' = OpOf(u) /\ ~Burning(u)'
BY OneBusy, Outside
-----------------------------------------------------------------------------
(* StoreInv is preserved.                                                   *)

(* A GET that redis has answered, with what it has found.                   *)
LEMMA PageFound ==
  ASSUME IInv, NEW t, ExecutedFor(t), pc[t] = "reply",
         ReplyNow(t)'.page # NoVal
  PROVE  /\ req[t].kind = "GET" /\ Exists(db, req[t].key) /\ db' = db
         /\ ReplyNow(t)' = [code |-> 200, page |-> db[req[t].key].val]
<1>1. /\ req[t] \in Request /\ req'[t] = req[t]
      /\ Head(wire').reply = ReplyTo(db, CommandOf(req[t]))
      /\ db' = Effect(db, CommandOf(req[t]))
  BY DEF ExecutedFor, ProcessRests, IInv, RequestInv, InHandler, Busy, Issued
<1>2. ReplyNow(t)' = ResultOf(req[t], ReplyTo(db, CommandOf(req[t])))
  BY <1>1 DEF ReplyNow, ResultOf, GetResult, PostResult
<1>3. req[t].kind = "GET"
  BY <1>1, <1>2 DEF ResultOf, PostResult, Status, Request
<1>4. CommandOf(req[t]) = Get(req[t].key) BY <1>3 DEF CommandOf
<1>5. db' = db BY <1>1, <1>4 DEF Effect, Get, SetApplies
<1>6. Exists(db, req[t].key) /\ ReplyTo(db, Get(req[t].key)).type = "STRING"
        /\ ReplyTo(db, Get(req[t].key)).val = db[req[t].key].val
  <2>1. ReplyNow(t)' = GetResult(ReplyTo(db, Get(req[t].key))) BY <1>2, <1>3, <1>4 DEF ResultOf
  <2>2. CASE Exists(db, req[t].key) BY <2>2 DEF ReplyTo, Get
  <2>3. CASE ~Exists(db, req[t].key)
    BY <2>1, <2>3 DEF ReplyTo, Get, GetResult, Status, Plain
  <2> QED BY <2>2, <2>3
<1> QED BY <1>2, <1>3, <1>4, <1>5, <1>6 DEF ResultOf, GetResult

(* A thread at rest has no request, before and after.                      *)
LEMMA RestStep == IInv /\ RestInv /\ [Next]_vars => RestInv'
<1> SUFFICES ASSUME IInv, RestInv, [Next]_vars PROVE RestInv' OBVIOUS
<1>0. /\ pc \in [Threads -> InHandler \cup {"idle", "respond", "closed"}]
      /\ req \in [Threads -> Request \cup {NoReq}]
      /\ mainpc = "exited" => \A t \in Threads : pc[t] = "closed"
  BY DEF IInv, TypeOK, StopInv
<1>1. ASSUME NEW t \in Threads, EnterNode(t) \/ nodecfg(t) \/ Step(t) PROVE RestInv'
  <2>1. \A u \in Threads \ {t} : pc'[u] = pc[u] /\ req'[u] = req[u]
    BY <1>0, <1>1
       DEF EnterNode, nodecfg, get, post, Finish, Accept, Step, LockRai, SendCmd, TakeReply,
           ReplyLost, SendDel, DelReply, DelLost, UnlockRai, Respond, CloseIdle
  <2>2. rt' = rt
    BY <1>1
       DEF EnterNode, nodecfg, Step, LockRai, SendCmd, TakeReply,
           ReplyLost, SendDel, DelReply, DelLost, UnlockRai, Respond, CloseIdle
  <2>3. /\ pc'[t] \in {"idle", "closed"} => req'[t] = NoReq
        /\ pc'[t] \in {"del", "delreply"} => rt.bar
    BY <1>0, <1>1
       DEF EnterNode, nodecfg, get, post, Finish, Accept, Step, LockRai, SendCmd, TakeReply,
           ReplyLost, SendDel, DelReply, DelLost, UnlockRai, Respond, CloseIdle, RestInv
  <2> QED BY <2>1, <2>2, <2>3 DEF RestInv
<1>2. CASE MainStep \/ Execute \/ Refuse \/ Break \/ OrphanRuns \/ Expire \/ Signal
             \/ LossFoundElsewhere \/ UNCHANGED vars
  <2>1. UNCHANGED <<pc, req, rt>>
    BY <1>2 DEF MainStep, LeaveMainLoop, DaemonStopped, Disconnect, Execute, Refuse, Break,
           OrphanRuns, Expire, Signal, LossFoundElsewhere, processVars, handlerVars, vars
  <2> QED BY <2>1 DEF RestInv
<1>3. CASE Crash BY <1>3 DEF Crash, RestInv
<1>4. CASE Restart BY <1>0, <1>4 DEF Restart, RestInv
<1> QED BY <1>1, <1>2, <1>3, <1>4 DEF Next, Environment

(* Without failures, the connection to redis stays.                        *)
LEMMA ReliableStep == IInv /\ ReliableInv /\ [Next]_vars => ReliableInv'
<1> SUFFICES ASSUME IInv, ReliableInv, [Next]_vars, ~Faulty
             PROVE  orphans' = {} /\ (mainpc' # "exited" => Alive')
  BY DEF ReliableInv, Faulty
<1>0. /\ orphans = {} /\ (mainpc # "exited" => Alive) /\ MayFail = {}
      /\ mainpc = "exited" => \A t \in Threads : pc[t] = "closed"
  BY DEF ReliableInv, Faulty, IInv, StopInv
<1>1. ASSUME NEW t \in Threads, EnterNode(t) \/ nodecfg(t) \/ Step(t)
      PROVE  UNCHANGED <<orphans, mainpc, ctx, link>>
  <2>1. CASE ReplyLost(t) \/ DelLost(t)
    BY <1>0, <2>1 DEF ReplyLost, DelLost, ReceiveNull
  <2> QED
    BY <1>0, <1>1, <2>1
       DEF EnterNode, nodecfg, Step, LockRai, SendCmd, TakeReply, SendDel, DelReply,
           UnlockRai, Respond, CloseIdle, raiVars
<1>2. CASE LeaveMainLoop \/ DaemonStopped \/ Execute \/ Expire \/ Signal \/ UNCHANGED vars
  BY <1>0, <1>2
     DEF LeaveMainLoop, DaemonStopped, Execute, RedisExecutes, Expire, KeyExpires, Signal, raiVars,
         processVars, vars, Alive
<1>3. CASE Refuse \/ Break \/ Crash BY <1>0, <1>3 DEF Refuse, Break, Crash
<1>4. CASE OrphanRuns BY <1>0, <1>4 DEF OrphanRuns
<1>5. CASE Disconnect BY <1>0, <1>5 DEF Disconnect, rai_disconnect
<1>6. CASE Restart BY <1>0, <1>6 DEF Restart, rai_connect, Alive
<1>7. CASE LossFoundElsewhere
  BY <1>0, <1>7 DEF LossFoundElsewhere, ReceiveNull
<1> QED
  BY <1>0, <1>1, <1>2, <1>3, <1>4, <1>5, <1>6, <1>7 DEF Next, MainStep, Environment, Alive

(* A request is answered at once, or accepted.                              *)
LEMMA Entered ==
  ASSUME NEW t \in Threads, EnterNode(t) \/ nodecfg(t)
  PROVE  (\E code : Finish(t, code)) \/ (\E r : Accept(t, r))
<1>1. CASE nodecfg(t) BY <1>1 DEF nodecfg
<1>2. CASE EnterNode(t)
  <2>1. CASE shutdown BY <1>2, <2>1, Zenon DEF EnterNode
  <2>2. CASE ~shutdown
    <3>1. PICK n \in Nodes, w \in Urls :
            get(t, n, w) \/ (\E b \in Bodies : post(t, n, w, b)) \/ Finish(t, 405)
      BY <1>2, <2>2 DEF EnterNode
    <3>2. CASE get(t, n, w) BY <3>2, Zenon DEF get
    <3>3. CASE \E b \in Bodies : post(t, n, w, b) BY <3>3, Zenon DEF post
    <3>4. CASE Finish(t, 405) BY <3>4, Zenon
    <3> QED BY <3>1, <3>2, <3>3, <3>4
  <2> QED BY <2>1, <2>2
<1> QED BY <1>1, <1>2

(* The steps of a thread that talks to nobody.                              *)
LEMMA Beside ==
  ASSUME IInv, NEW u \in Threads,
         EnterNode(u) \/ nodecfg(u) \/ LockRai(u) \/ UnlockRai(u) \/ Respond(u) \/ CloseIdle(u)
  PROVE  /\ UNCHANGED <<db, wire, ctx, link, rt, orphans>>
         /\ \A v \in Threads \ {u} : Still(v)
         /\ pc'[u] \in {"idle", "lock", "respond", "closed", "cmd"}
<1>0. /\ pc \in [Threads -> InHandler \cup {"idle", "respond", "closed"}]
      /\ req \in [Threads -> Request \cup {NoReq}]
      /\ res \in [Threads -> [code: Codes, page: Vals \cup {NoVal}]]
  BY DEF IInv, TypeOK
<1> USE DEF raiVars, Still
<1>1. CASE EnterNode(u) \/ nodecfg(u)
  <2>1. UNCHANGED <<db, wire, ctx, link, rt, orphans>> BY <1>1 DEF EnterNode, nodecfg
  <2>2. (\E code : Finish(u, code)) \/ (\E r : Accept(u, r)) BY <1>1, Entered
  <2> QED BY <1>0, <2>1, <2>2 DEF Finish, Accept
<1>3. CASE LockRai(u) BY <1>0, <1>3 DEF LockRai
<1>4. CASE UnlockRai(u) BY <1>0, <1>4 DEF UnlockRai
<1>5. CASE Respond(u) BY <1>0, <1>5 DEF Respond
<1>6. CASE CloseIdle(u) BY <1>0, <1>6 DEF CloseIdle
<1> QED BY <1>1, <1>3, <1>4, <1>5, <1>6

(* Without failures, a page to be burnt is the message in redis, before and after. *)
LEMMA PageStep == IInv /\ StoreInv /\ [Next]_vars => PageInv'
<1> SUFFICES ASSUME IInv, StoreInv, [Next]_vars, ~Faulty, NEW t \in Threads, Burning(t)',
                    Exists(db', req'[t].key)
             PROVE  AnswerOf(t)' = [code |-> 200, page |-> db'[req'[t].key].val]
  BY DEF PageInv, Faulty
<1>0. /\ MayFail = {} /\ orphans = {} /\ (mainpc # "exited" => Alive)
      /\ pc \in [Threads -> InHandler \cup {"idle", "respond", "closed"}]
      /\ res \in [Threads -> [code: Codes, page: Vals \cup {NoVal}]]
      /\ Burning(t) /\ Exists(db, req[t].key) =>
           AnswerOf(t) = [code |-> 200, page |-> db[req[t].key].val]
      /\ mainpc \in {"joined", "exited"} => \A u \in Threads : pc[u] = "closed"
      /\ db \in Database
  BY DEF StoreInv, PageInv, ReliableInv, Faulty, IInv, TypeOK, RaiTypeOK, StopInv
<1>1. ASSUME UNCHANGED <<db, wire, ctx, link, rt>>, Still(t)
      PROVE  AnswerOf(t)' = [code |-> 200, page |-> db'[req'[t].key].val]
  BY <1>0, <1>1, Around DEF Still
<1>2. ASSUME NEW u \in Threads,
             EnterNode(u) \/ nodecfg(u) \/ LockRai(u) \/ UnlockRai(u) \/ Respond(u) \/ CloseIdle(u)
      PROVE  AnswerOf(t)' = [code |-> 200, page |-> db'[req'[t].key].val]
  <2>1. /\ UNCHANGED <<db, wire, ctx, link, rt>>
        /\ \A v \in Threads \ {u} : Still(v)
        /\ pc'[u] \in {"idle", "lock", "respond", "closed", "cmd"}
    BY <1>2, Beside
  <2>2. t # u BY <2>1 DEF Burning, Replied
  <2> QED BY <1>1, <2>1, <2>2
<1>3. ASSUME NEW u \in Threads,
             SendCmd(u) \/ TakeReply(u) \/ ReplyLost(u) \/ SendDel(u) \/ DelReply(u) \/ DelLost(u)
      PROVE  AnswerOf(t)' = [code |-> 200, page |-> db'[req'[t].key].val]
  <2>1. /\ \A v \in Threads \ {u} : Still(v)
        /\ UNCHANGED <<db, req, rt>> /\ pc[u] \in Busy
    BY <1>0, <1>3 DEF SendCmd, TakeReply, ReplyLost, SendDel, DelReply, DelLost, Still, Busy
  <2>2. t = u BY <2>1, OnlyOne
  <2>3. CASE SendCmd(t)
    <3>1. wire = <<>> BY <2>3, WireFree DEF SendCmd, Busy, Calling
    <3>2. ~Answered' BY <2>3, <3>1 DEF SendCmd, Send, Answered
    <3> QED BY <1>0, <2>3, <3>2 DEF SendCmd, Burning, Replied
  <2>4. CASE TakeReply(t)
    <3>1. Replied(t) BY <2>4 DEF TakeReply, Receive, Replied
    <3>2. pc'[t] \in {"del", "unlock"} /\ res'[t] = ReplyNow(t)
      BY <1>0, <2>4 DEF TakeReply, ReplyNow
    <3>3. pc'[t] = "del" /\ rt.bar BY <2>1, <3>2 DEF Burning, Replied
    <3>4. ReplyNow(t).page # NoVal BY <1>0, <2>4, <3>3 DEF TakeReply, ReplyNow
    <3>5. Burning(t) BY <3>1, <3>3, <3>4 DEF Burning
    <3>6. AnswerOf(t)' = AnswerOf(t) BY <3>1, <3>2, <3>3 DEF AnswerOf, Replied
    <3> QED BY <1>0, <2>1, <3>5, <3>6
  <2>5. CASE SendDel(t)
    <3>1. pc[t] = "del" /\ pc'[t] = "delreply" /\ res' = res BY <1>0, <2>5 DEF SendDel
    <3>2. Burning(t) BY <2>1, <3>1 DEF Burning, Replied
    <3>3. AnswerOf(t)' = AnswerOf(t) BY <3>1 DEF AnswerOf, Replied
    <3> QED BY <1>0, <2>1, <3>2, <3>3
  <2>6. CASE ReplyLost(t) \/ DelReply(t) \/ DelLost(t)
    <3>1. pc'[t] = "unlock" BY <1>0, <2>6 DEF ReplyLost, DelReply, DelLost
    <3> QED BY <3>1 DEF Burning, Replied
  <2> QED BY <1>3, <2>2, <2>3, <2>4, <2>5, <2>6
<1>4. CASE Execute
  <2>1. PICK u : ExecutedFor(u) BY <1>4, Executed
  <2>2. u \in Threads /\ pc[u] \in Busy /\ pc[u] \in Calling /\ \A v \in Threads : Still(v)
    BY <2>1 DEF ExecutedFor, Calling, Busy, ProcessRests, Still
  <2>3. t = u BY <2>2, OnlyOne
  <2>4. pc[t] = "reply" /\ pc'[t] = "reply"
    BY <2>1, <2>2, <2>3 DEF ExecutedFor, ProcessRests, Burning, Replied, Calling
  <2>5. ReplyNow(t)'.page # NoVal /\ Replied(t)' BY <2>4 DEF Burning
  <2>6. ReplyNow(t)' = [code |-> 200, page |-> db[req[t].key].val] /\ db' = db
    BY <2>1, <2>3, <2>4, <2>5, PageFound
  <2>7. req'[t] = req[t] BY <2>2 DEF Still
  <2> QED BY <2>5, <2>6, <2>7 DEF AnswerOf
<1>5. CASE Expire
  <2>1. PICK k \in Keys : KeyExpires(k) BY <1>5 DEF Expire
  <2>2. UNCHANGED <<wire, ctx, link, rt>> /\ Still(t)
    BY <1>5, <2>1 DEF Expire, KeyExpires, processVars, handlerVars, Still
  <2>3. /\ Alive' <=> Alive
        /\ Answered' <=> Answered
        /\ Head(wire') = Head(wire)
    BY <2>2 DEF Alive, Answered
  <2>4. (Replied(t)' <=> Replied(t)) /\ ReplyNow(t)' = ReplyNow(t)
    BY <2>2, <2>3 DEF Replied, ReplyNow, Still, ResultOf, GetResult, PostResult
  <2>5. Burning(t) /\ AnswerOf(t)' = AnswerOf(t)
    BY <2>2, <2>3, <2>4 DEF Burning, AnswerOf, Still
  <2>6. req[t].key = req'[t].key /\ db'[req[t].key] = db[req[t].key] /\ Exists(db, req[t].key)
    BY <1>0, <2>1, <2>2 DEF KeyExpires, Expired, Exists, Still, Database
  <2> QED BY <1>0, <2>5, <2>6
<1>6. CASE LeaveMainLoop \/ DaemonStopped \/ Signal \/ UNCHANGED vars
  BY <1>1, <1>6 DEF LeaveMainLoop, DaemonStopped, Signal, vars, raiVars, handlerVars, Still
<1>7. CASE Disconnect \/ Restart
  <2>1. pc'[t] \in {"idle", "closed"} BY <1>0, <1>7 DEF Disconnect, Restart, handlerVars
  <2> QED BY <2>1 DEF Burning, Replied
<1>8. CASE Refuse \/ Break \/ Crash BY <1>0, <1>8 DEF Refuse, Break, Crash
<1>9. CASE OrphanRuns BY <1>0, <1>9 DEF OrphanRuns
<1>10. CASE LossFoundElsewhere
  BY <1>0, <1>10 DEF LossFoundElsewhere, ReceiveNull
<1> QED
  BY <1>2, <1>3, <1>4, <1>5, <1>6, <1>7, <1>8, <1>9, <1>10 DEF Next, Step, MainStep, Environment
-----------------------------------------------------------------------------
(* What is in limbo.                                                        *)
Left(c) ==
  [key |-> c.key, entry |-> IF c.op = "DEL" THEN NoEntry ELSE [val |-> c.val, ttl |-> c.ttl]]

(* A write in limbo is one in redis' input or a removal that is to come.   *)
LEMMA LimboHas ==
  ASSUME NEW w
  PROVE  w \in LimboOf <=>
           /\ Faulty
           /\ \/ \E c \in orphans : w = Left(c)
              \/ \E u \in Threads : Burning(u) /\ w = Removal(req[u].key)
BY DEF LimboOf, Left, Removal

(* The same after a step.                                                  *)
LEMMA LimboHasNext ==
  ASSUME NEW w
  PROVE  w \in LimboOf' <=>
           /\ Faulty
           /\ \/ \E c \in orphans' : w = Left(c)
              \/ \E u \in Threads : Burning(u)' /\ w = Removal(req'[u].key)
BY DEF LimboOf, Left, Removal, Faulty

(* Nothing gets into limbo that was not there.                             *)
LEMMA LimboShrinks ==
  ASSUME orphans' \subseteq orphans,
         \A u \in Threads : Burning(u)' => Burning(u) /\ req'[u] = req[u]
  PROVE  LimboOf' \subseteq LimboOf
BY LimboHas, LimboHasNext

(* Limbo is what it was.                                                   *)
LEMMA LimboStays ==
  ASSUME UNCHANGED orphans,
         \A u \in Threads : /\ Burning(u)' <=> Burning(u)
                            /\ Burning(u) => req'[u] = req[u]
  PROVE  UNCHANGED LimboOf
<1>1. LimboOf' \subseteq LimboOf BY LimboShrinks
<1>2. \A w : w \in LimboOf => w \in LimboOf' BY LimboHas, LimboHasNext
<1> QED BY <1>1, <1>2

-----------------------------------------------------------------------------
(* Every step of the handlers is one of the store, or none.                 *)
Refined == Store!Next \/ UNCHANGED Store!vars

(* A request is open until redis has executed its command.                  *)
LEMMA OpAt ==
  ASSUME IInv, RestInv, NEW t \in Threads
  PROVE  /\ req[t] = NoReq => OpOf(t) = NoOp
         /\ pc[t] \in {"idle", "closed"} => OpOf(t) = NoOp
         /\ pc[t] \in InHandler => req[t] \in Request /\ req[t] # NoReq
         /\ req[t] # NoReq =>
              OpOf(t) = IF NotYet(t) THEN Opened(req[t]) ELSE Done(req[t], AnswerOf(t))
BY NoReqAssumption DEF OpOf, NoOp, Opened, Done, IInv, RequestInv, RestInv

(* The steps of a thread that talks to nobody.                             *)
LEMMA BesideRefines ==
  ASSUME IInv, StoreInv, NEW t \in Threads, RestInv', IInv',
         EnterNode(t) \/ nodecfg(t) \/ LockRai(t) \/ UnlockRai(t) \/ Respond(t) \/ CloseIdle(t)
  PROVE  Refined
<1>0. /\ pc \in [Threads -> InHandler \cup {"idle", "respond", "closed"}]
      /\ req \in [Threads -> Request \cup {NoReq}]
      /\ res \in [Threads -> [code: Codes, page: Vals \cup {NoVal}]]
      /\ RestInv
  BY DEF IInv, TypeOK, StoreInv
<1>1. /\ UNCHANGED <<db, wire, ctx, link, rt, orphans>>
      /\ \A v \in Threads \ {t} : Still(v)
      /\ pc'[t] \in {"idle", "lock", "respond", "closed", "cmd"}
  BY Beside
<1>2. pc[t] \in {"idle", "lock", "unlock", "respond"}
  BY DEF EnterNode, nodecfg, MayRun, LockRai, UnlockRai, Respond, CloseIdle
<1>3. OthersStay(t) /\ \A v \in Threads \ {t} : Burning(v)' <=> Burning(v)
  BY <1>1, Around DEF OthersStay
<1>4. ~Burning(t) /\ ~Burning(t)' BY <1>1, <1>2 DEF Burning, Replied
<1>5. UNCHANGED LimboOf BY <1>1, <1>3, <1>4, LimboStays DEF Still
<1>6. ASSUME OpOf(t)' = OpOf(t) PROVE Refined
  <2>1. OpsStay BY <1>3, <1>6 DEF OpsStay, OthersStay
  <2> QED BY <1>1, <1>5, <2>1, Stutters DEF Refined
<1>7. NotYet(t) <=> pc[t] = "lock" BY <1>2, <1>4 DEF NotYet
<1>8. NotYet(t)' <=> pc'[t] \in {"lock", "cmd"} BY <1>1, <1>4 DEF NotYet
<1>9. AnswerOf(t) = res[t] /\ AnswerOf(t)' = res'[t] BY <1>1, <1>2 DEF AnswerOf, Replied
<1>10. /\ req'[t] = NoReq => OpOf(t)' = NoOp
       /\ pc'[t] \in InHandler => req'[t] \in Request /\ req'[t] # NoReq
       /\ req'[t] # NoReq =>
            OpOf(t)' = IF NotYet(t)' THEN Opened(req'[t]) ELSE Done(req'[t], AnswerOf(t)')
  BY NoReqAssumption DEF OpOf, NoOp, Opened, Done, IInv, RequestInv
<1>11. CASE pc[t] = "idle"
  <2>1. OpOf(t) = NoOp /\ req[t] = NoReq BY <1>0, <1>11, OpAt DEF RestInv
  <2>2. (pc'[t] = "lock" \/ req'[t] = req[t])
    <3>1. CASE EnterNode(t) \/ nodecfg(t)
      <4>1. (\E code : Finish(t, code)) \/ (\E r : Accept(t, r))
        BY <3>1, Entered
      <4> QED BY <1>0, <4>1 DEF Finish, Accept
    <3>2. CASE CloseIdle(t) BY <3>2 DEF CloseIdle
    <3> QED BY <1>11, <3>1, <3>2 DEF LockRai, UnlockRai, Respond
  <2>3. CASE req'[t] = req[t] BY <1>6, <1>10, <2>1, <2>3
  <2>4. CASE pc'[t] = "lock"
    <3>1. req'[t] \in Request /\ OpOf(t)' = Opened(req'[t])
      BY <1>8, <1>10, <2>4 DEF InHandler
    <3>2. PICK r : r = req'[t] OBVIOUS
    <3> QED BY <1>1, <1>3, <1>5, <2>1, <3>1, <3>2, Begins DEF Refined
  <2> QED BY <2>2, <2>3, <2>4
<1>12. CASE pc[t] = "lock"
  <2>1. pc'[t] = "cmd" /\ req' = req
    BY <1>0, <1>12 DEF EnterNode, nodecfg, MayRun, LockRai, UnlockRai, Respond, CloseIdle
  <2>2. OpOf(t) = Opened(req[t]) /\ OpOf(t)' = Opened(req[t])
    BY <1>0, <1>7, <1>8, <1>10, <1>12, <2>1, OpAt DEF InHandler
  <2> QED BY <1>6, <2>2
<1>13. CASE pc[t] = "unlock"
  <2>1. pc'[t] = "respond" /\ req' = req /\ res' = res
    BY <1>0, <1>13 DEF EnterNode, nodecfg, MayRun, LockRai, UnlockRai, Respond, CloseIdle
  <2>2. req[t] # NoReq BY <1>0, <1>13, OpAt DEF InHandler, Busy
  <2>3. OpOf(t) = Done(req[t], res[t]) /\ OpOf(t)' = Done(req[t], res[t])
    BY <1>0, <1>7, <1>8, <1>9, <1>10, <1>13, <2>1, <2>2, OpAt
  <2> QED BY <1>6, <2>3
<1>14. CASE pc[t] = "respond"
  <2>1. req'[t] = NoReq
    BY <1>0, <1>14 DEF EnterNode, nodecfg, MayRun, LockRai, UnlockRai, Respond, CloseIdle
  <2>2. OpOf(t)' = NoOp BY <1>10, <2>1
  <2>3. CASE req[t] = NoReq BY <1>0, <1>6, <2>2, <2>3, OpAt
  <2>4. CASE req[t] # NoReq
    <3>1. OpOf(t) = Done(req[t], res[t]) BY <1>0, <1>7, <1>9, <1>14, <2>4, OpAt
    <3>2. PICK r, a : r = req[t] /\ a = res[t] OBVIOUS
    <3> QED BY <1>1, <1>3, <1>5, <2>2, <3>1, <3>2, Returns DEF Refined
  <2> QED BY <2>3, <2>4
<1> QED BY <1>2, <1>11, <1>12, <1>13, <1>14
(* The steps of a thread in its critical section.                           *)
LEMMA BusyRefines ==
  ASSUME IInv, StoreInv, NEW t \in Threads,
         SendCmd(t) \/ TakeReply(t) \/ ReplyLost(t) \/ SendDel(t) \/ DelReply(t) \/ DelLost(t)
  PROVE  Refined
<1>0. /\ pc \in [Threads -> InHandler \cup {"idle", "respond", "closed"}]
      /\ res \in [Threads -> [code: Codes, page: Vals \cup {NoVal}]]
      /\ RestInv
      /\ mainpc = "exited" => \A u \in Threads : pc[u] = "closed"
      /\ ~Faulty => (mainpc # "exited" => Alive)
  BY DEF IInv, TypeOK, StoreInv, StopInv, ReliableInv
<1>1. /\ \A v \in Threads \ {t} : Still(v)
      /\ UNCHANGED <<db, req, rt, orphans>>
      /\ pc[t] \in {"cmd", "reply", "del", "delreply"}
  BY <1>0 DEF SendCmd, TakeReply, ReplyLost, SendDel, DelReply, DelLost, Still
<1>2. pc[t] \in Busy /\ pc[t] \in InHandler BY <1>1 DEF Busy, InHandler
<1>3. OthersStay(t) /\ \A v \in Threads \ {t} : ~Burning(v) /\ ~Burning(v)'
  BY <1>1, <1>2, OnlyOne DEF OthersStay
<1>4. ASSUME Burning(t)' => Burning(t) PROVE LimboOf' \subseteq LimboOf
  BY <1>1, <1>3, <1>4, LimboShrinks
<1>5. ASSUME Burning(t)' <=> Burning(t) PROVE UNCHANGED LimboOf
  BY <1>1, <1>3, <1>5, LimboStays
<1>6. ASSUME OpOf(t)' = OpOf(t) PROVE OpsStay
  BY <1>3, <1>6 DEF OpsStay, OthersStay
<1>7. /\ req[t] # NoReq /\ req'[t] = req[t]
      /\ OpOf(t) = IF NotYet(t) THEN Opened(req[t]) ELSE Done(req[t], AnswerOf(t))
  BY <1>0, <1>1, <1>2, OpAt
<1>8. OpOf(t)' = IF NotYet(t)' THEN Opened(req[t]) ELSE Done(req[t], AnswerOf(t)')
  BY <1>7 DEF OpOf, Opened, Done
<1>9. CASE SendCmd(t)
  <2>1. wire = <<>> BY <1>9, WireFree DEF SendCmd, Busy, Calling
  <2>2. ~Answered' /\ (Alive' <=> Alive)
    BY <1>9, <2>1 DEF SendCmd, Send, Answered, Alive
  <2>3. pc[t] = "cmd" /\ pc'[t] = "reply" BY <1>0, <1>9 DEF SendCmd
  <2>4. ~Burning(t) /\ ~Burning(t)' /\ ~Replied(t)' BY <2>2, <2>3 DEF Burning, Replied
  <2>5. UNCHANGED LimboOf BY <1>5, <2>4
  <2>6. OpOf(t) = Opened(req[t]) BY <1>7, <2>3 DEF NotYet
  <2>7. CASE Alive
    <3>1. OpOf(t)' = Opened(req[t]) BY <1>8, <2>2, <2>3, <2>7 DEF NotYet
    <3> QED BY <1>1, <1>6, <2>5, <2>6, <3>1, Stutters DEF Refined
  <2>8. CASE ~Alive
    <3>1. Faulty BY <1>0, <2>3, <2>8
    <3>2. OpOf(t)' = Done(req[t], Status(503))
      BY <1>8, <2>2, <2>3, <2>4, <2>8 DEF NotYet, AnswerOf
    <3>3. PICK r : r = req[t] OBVIOUS
    <3>4. OpOf(t) = [st |-> "open", req |-> r, code |-> NoOp.code, page |-> NoOp.page]
      BY <2>6, <3>3 DEF Opened, NoOp
    <3> QED BY <1>1, <1>3, <2>5, <3>1, <3>2, <3>3, <3>4, Fails DEF Refined
  <2> QED BY <2>7, <2>8
<1>10. CASE TakeReply(t)
  <2>1. pc[t] = "reply" /\ Replied(t) /\ Alive /\ Answered
    BY <1>10 DEF TakeReply, Receive, Replied
  <2>2. /\ res'[t] = ReplyNow(t)
        /\ pc'[t] = IF ReplyNow(t).page # NoVal /\ rt.bar THEN "del" ELSE "unlock"
    BY <1>0, <1>10 DEF TakeReply, ReplyNow
  <2>3. Burning(t)' <=> Burning(t) BY <1>1, <2>1, <2>2 DEF Burning, Replied
  <2>4. UNCHANGED LimboOf BY <1>5, <2>3
  <2>5. NotYet(t)' <=> NotYet(t) BY <1>1, <1>7, <2>1, <2>2, <2>3 DEF NotYet
  <2>6. AnswerOf(t)' = AnswerOf(t) BY <2>1, <2>2 DEF AnswerOf, Replied
  <2>7. OpOf(t)' = OpOf(t) BY <1>7, <1>8, <2>5, <2>6
  <2> QED BY <1>1, <1>6, <2>4, <2>7, Stutters DEF Refined
<1>11. CASE ReplyLost(t)
  <2>1. pc[t] = "reply" /\ pc'[t] = "unlock" /\ ~Alive /\ res'[t] = Status(503)
    BY <1>0, <1>11 DEF ReplyLost, ReceiveNull
  <2>2. ~Burning(t) /\ ~Burning(t)' /\ ~Replied(t) /\ ~Replied(t)'
    BY <2>1 DEF Burning, Replied
  <2>3. UNCHANGED LimboOf BY <1>5, <2>2
  <2>4. ~NotYet(t) /\ ~NotYet(t)' BY <2>1, <2>2 DEF NotYet
  <2>5. AnswerOf(t)' = AnswerOf(t) BY <2>1, <2>2 DEF AnswerOf
  <2>6. OpOf(t)' = OpOf(t) BY <1>7, <1>8, <2>4, <2>5
  <2> QED BY <1>1, <1>6, <2>3, <2>6, Stutters DEF Refined
<1>12. CASE SendDel(t)
  <2>1. pc[t] = "del" /\ pc'[t] = "delreply" /\ res' = res BY <1>0, <1>12 DEF SendDel
  <2>2. wire = <<>> BY <1>12, WireFree DEF SendDel, Busy, Calling
  <2>3. ~Answered' /\ (Alive' <=> Alive)
    BY <1>12, <2>2 DEF SendDel, Send, Answered, Alive
  <2>4. Burning(t)' <=> rt.bar /\ Alive BY <1>1, <2>1, <2>3 DEF Burning, Replied
  <2>5. Burning(t) <=> rt.bar BY <2>1 DEF Burning, Replied
  <2>6. NotYet(t)' <=> NotYet(t)
    <3>1. ~Faulty => Alive BY <1>0, <2>1
    <3> QED BY <1>1, <1>7, <2>1, <2>4, <2>5, <3>1 DEF NotYet, Faulty
  <2>7. AnswerOf(t)' = AnswerOf(t) BY <2>1 DEF AnswerOf, Replied
  <2>8. OpOf(t)' = OpOf(t) BY <1>7, <1>8, <2>6, <2>7
  <2>9. LimboOf' \subseteq LimboOf BY <1>4, <2>4, <2>5
  <2> QED BY <1>1, <1>6, <2>8, <2>9, Forgets DEF Refined
<1>13. CASE DelReply(t) \/ DelLost(t)
  <2>1. pc[t] = "delreply" /\ pc'[t] = "unlock" /\ res' = res /\ (Alive => Answered)
    BY <1>0, <1>13 DEF DelReply, DelLost, Receive, ReceiveNull
  <2>2. ~Burning(t) /\ ~Burning(t)' BY <2>1 DEF Burning, Replied
  <2>3. UNCHANGED LimboOf BY <1>5, <2>2
  <2>4. ~NotYet(t) /\ ~NotYet(t)' BY <2>1, <2>2 DEF NotYet
  <2>5. AnswerOf(t)' = AnswerOf(t) BY <2>1 DEF AnswerOf, Replied
  <2>6. OpOf(t)' = OpOf(t) BY <1>7, <1>8, <2>4, <2>5
  <2> QED BY <1>1, <1>6, <2>3, <2>6, Stutters DEF Refined
<1> QED BY <1>9, <1>10, <1>11, <1>12, <1>13

(* redis executes a command.                                                *)
LEMMA ExecuteRefines ==
  ASSUME IInv, StoreInv, Execute
  PROVE  Refined
<1>1. PICK t : ExecutedFor(t) BY Executed
<1>2. /\ t \in Threads /\ pc[t] \in Calling /\ pc[t] \in Busy /\ pc[t] \in InHandler
      /\ Alive /\ Alive' /\ ~Answered /\ Answered'
      /\ \A v \in Threads : Still(v)
      /\ UNCHANGED <<rt, orphans, pc, req, res, ctx, link>>
  BY <1>1 DEF ExecutedFor, Calling, Busy, InHandler, ProcessRests, Still, Alive
<1>0. /\ db \in Database /\ RestInv /\ rt \in Settings
      /\ req[t] \in Request /\ (req[t].kind = "POST" => req[t].val \in Vals)
      /\ pc[t] = "delreply" => req[t].kind = "GET"
  BY <1>2 DEF IInv, TypeOK, RaiTypeOK, StoreInv, RequestInv
<1>3. OthersStay(t) /\ \A v \in Threads \ {t} : ~Burning(v) /\ ~Burning(v)'
  BY <1>2, OnlyOne DEF OthersStay
<1>4. ASSUME Burning(t)' <=> Burning(t) PROVE UNCHANGED LimboOf
  BY <1>2, <1>3, <1>4, LimboStays
<1>5. ASSUME OpOf(t)' = OpOf(t) PROVE OpsStay
  BY <1>3, <1>5 DEF OpsStay, OthersStay
<1>7. /\ req[t] # NoReq /\ req'[t] = req[t]
      /\ OpOf(t) = IF NotYet(t) THEN Opened(req[t]) ELSE Done(req[t], AnswerOf(t))
  BY <1>0, <1>2, OpAt
<1>8. OpOf(t)' = IF NotYet(t)' THEN Opened(req[t]) ELSE Done(req[t], AnswerOf(t)')
  BY <1>7 DEF OpOf, Opened, Done
<1>9. PICK r : r = req[t] OBVIOUS
<1>k. r.key \in Keys BY <1>0, <1>9 DEF Request
<1>10. CASE pc[t] = "reply"
  <2>1. /\ Head(wire').reply = ReplyTo(db, CommandOf(r)) /\ db' = Effect(db, CommandOf(r))
    BY <1>1, <1>9, <1>10 DEF ExecutedFor, Issued
  <2>2. Replied(t)' /\ ~Replied(t) /\ ReplyNow(t)' = ResultOf(r, ReplyTo(db, CommandOf(r)))
    BY <1>2, <1>7, <1>9, <1>10, <2>1
       DEF Replied, ReplyNow, ResultOf, GetResult, PostResult
  <2>3. ~Burning(t) /\ (Burning(t)' <=> rt.bar /\ ReplyNow(t)'.page # NoVal)
    BY <1>2, <1>10, <2>2 DEF Burning
  <2>4. OpOf(t) = Opened(r) BY <1>2, <1>7, <1>9, <1>10 DEF NotYet
  <2>5. NotYet(t)' <=> ~Faulty /\ Burning(t)' /\ Exists(db', r.key)
    BY <1>2, <1>7, <1>9, <1>10 DEF NotYet, Faulty
  <2>6. AnswerOf(t)' = ReplyNow(t)' BY <2>2 DEF AnswerOf
  <2>7. CASE r.kind = "GET"
    <3>1. CommandOf(r) = Get(r.key) /\ db' = db
      BY <2>1, <2>7 DEF CommandOf, Effect, Get, SetApplies
    <3>2. CASE Exists(db, r.key)
      <4>1. ReplyNow(t)' = [code |-> 200, page |-> db[r.key].val] /\ db[r.key].val # NoVal
        BY <1>0, <1>k, <2>2, <2>7, <3>1, <3>2, RedisAssumption
           DEF ResultOf, GetResult, ReplyTo, Get, Database, Exists
      <4>2. Burning(t)' <=> rt.bar BY <2>3, <4>1
      <4>3. CASE rt.bar /\ ~Faulty
        <5>1. OpOf(t)' = Opened(r) BY <1>8, <1>9, <2>5, <3>1, <3>2, <4>2, <4>3
        <5>2. LimboOf = {} /\ LimboOf' = {} BY <4>3 DEF LimboOf, Faulty
        <5> QED BY <1>2, <1>5, <2>4, <3>1, <5>1, <5>2, Stutters DEF Refined
      <4>4. CASE ~(rt.bar /\ ~Faulty)
        <5>1. OpOf(t)' = Done(r, ReplyNow(t)') BY <1>8, <1>9, <2>5, <2>6, <4>2, <4>4
        <5>2. PICK a : a = ReplyNow(t)' OBVIOUS
        <5>3. LimboOf' \subseteq
                LimboOf \cup (IF rt.bar /\ Faulty THEN {Removal(r.key)} ELSE {})
          <6>1. \A w : w \in LimboOf' => w \in LimboOf \/ (Faulty /\ rt.bar /\ w = Removal(r.key))
            BY <1>2, <1>3, <1>7, <1>9, <4>2, LimboHas, LimboHasNext
          <6> QED BY <6>1
        <5>4. a.code = 200 /\ a.page = db[r.key].val BY <4>1, <5>2
        <5> QED BY <1>2, <1>3, <2>4, <2>7, <3>1, <3>2, <4>4, <5>1, <5>2, <5>3, <5>4, Gets
                DEF Refined
      <4> QED BY <4>3, <4>4
    <3>3. CASE ~Exists(db, r.key)
      <4>1. ReplyNow(t)' = Status(404)
        BY <2>2, <2>7, <3>1, <3>3 DEF ResultOf, GetResult, ReplyTo, Get, Plain
      <4>2. ~Burning(t)' BY <2>3, <4>1 DEF Status
      <4>3. UNCHANGED LimboOf BY <1>4, <2>3, <4>2
      <4>4. OpOf(t)' = Done(r, Status(404)) BY <1>8, <1>9, <2>5, <2>6, <4>1, <4>2
      <4>5. PICK a : a = Status(404) OBVIOUS
      <4>6. a.code = 404 /\ a.page = NoVal BY <4>5 DEF Status
      <4> QED BY <1>2, <1>3, <2>4, <2>7, <3>1, <3>3, <4>3, <4>4, <4>5, <4>6, Gets DEF Refined
    <3> QED BY <3>2, <3>3
  <2>8. CASE r.kind = "POST"
    <3>1. CommandOf(r) = Set(r.key, r.val, rt.expiration, rt.immutable)
      BY <2>8 DEF CommandOf
    <3>2. /\ r.val \in Vals /\ rt.expiration \in Nat
      BY <1>0, <1>9, <2>8, NodeAssumption
    <3>3. PICK a : a = Status(IF rt.immutable /\ Exists(db, r.key) THEN 304 ELSE 200) OBVIOUS
    <3>4. ReplyNow(t)' = a
      BY <2>2, <2>8, <3>1, <3>3
         DEF ResultOf, PostResult, ReplyTo, Set, SetApplies, Plain, Exists
    <3>5. db' = IF rt.immutable /\ Exists(db, r.key)
                THEN db ELSE [db EXCEPT ![r.key] = [val |-> r.val, ttl |-> rt.expiration]]
      BY <2>1, <3>1 DEF Effect, Set, SetApplies
    <3>6. ~Burning(t)' BY <2>3, <3>3, <3>4 DEF Status
    <3>7. UNCHANGED LimboOf BY <1>4, <2>3, <3>6
    <3>8. OpOf(t)' = Done(r, a) BY <1>8, <1>9, <2>5, <2>6, <3>4, <3>6
    <3> QED BY <1>2, <1>3, <2>4, <2>8, <3>2, <3>3, <3>5, <3>7, <3>8, Posts DEF Refined
  <2> QED BY <1>0, <1>9, <2>7, <2>8 DEF Request
<1>11. CASE pc[t] = "delreply"
  <2>1. db' = Expired(db, r.key)
    BY <1>1, <1>9, <1>11 DEF ExecutedFor, Issued, Effect, Del, SetApplies, Expired
  <2>2. ~Burning(t)' /\ (Burning(t) <=> rt.bar)
    BY <1>2, <1>11 DEF Burning, Replied
  <2>3. AnswerOf(t) = res[t] /\ AnswerOf(t)' = res[t]
    BY <1>2, <1>11 DEF AnswerOf, Replied
  <2>4. ~NotYet(t)' BY <1>2, <1>11, <2>2 DEF NotYet
  <2>5. OpOf(t)' = Done(r, res[t]) BY <1>8, <1>9, <2>3, <2>4
  <2>6. rt.bar BY <1>0, <1>2, <1>11 DEF RestInv
  <2>7. CASE ~Faulty /\ Exists(db, r.key)
    <3>1. OpOf(t) = Opened(r) BY <1>7, <1>9, <1>11, <2>2, <2>6, <2>7 DEF NotYet
    <3>2. res[t] = [code |-> 200, page |-> db[r.key].val]
      BY <1>2, <1>9, <2>2, <2>3, <2>6, <2>7 DEF StoreInv, PageInv
    <3>3. LimboOf' = {} BY <2>7 DEF LimboOf, Faulty
    <3>4. PICK a : a = res[t] OBVIOUS
    <3>5. a.code = 200 /\ a.page = db[r.key].val BY <3>2, <3>4
    <3>6. LimboOf' \subseteq LimboOf \cup (IF rt.bar /\ Faulty THEN {Removal(r.key)} ELSE {})
      BY <3>3
    <3> QED BY <1>0, <1>2, <1>3, <1>9, <1>11, <2>1, <2>5, <2>6, <2>7, <3>1, <3>4, <3>5, <3>6, Gets
            DEF Refined
  <2>8. CASE ~Faulty /\ ~Exists(db, r.key)
    <3>1. OpOf(t) = Done(r, res[t]) BY <1>7, <1>9, <1>11, <2>3, <2>8 DEF NotYet
    <3>2. LimboOf = {} /\ LimboOf' = {} BY <2>8 DEF LimboOf, Faulty
    <3>3. db' = db BY <1>0, <2>1, <2>8 DEF Expired, Exists, Database
    <3> QED BY <1>2, <1>5, <2>5, <3>1, <3>2, <3>3, Stutters DEF Refined
  <2>9. CASE Faulty
    <3>1. OpOf(t) = Done(r, res[t]) BY <1>7, <1>9, <1>11, <2>3, <2>9 DEF NotYet
    <3>2. LimboOf' \subseteq LimboOf BY <1>2, <1>3, <2>2, LimboShrinks
    <3>3. Removal(r.key) \in LimboOf BY <1>2, <1>9, <2>2, <2>6, <2>9, LimboHas
    <3>4. PICK w : w = Removal(r.key) OBVIOUS
    <3>5. db' = IF rt.immutable /\ w.entry # NoEntry /\ Exists(db, w.key)
                THEN db ELSE [db EXCEPT ![w.key] = w.entry]
      BY <2>1, <3>4 DEF Removal, Expired
    <3> QED BY <1>2, <1>5, <2>5, <3>1, <3>2, <3>3, <3>4, <3>5, Lates DEF Refined
  <2> QED BY <2>7, <2>8, <2>9
<1> QED BY <1>2, <1>10, <1>11 DEF Calling
(* redis answers with an error.                                             *)
LEMMA RefuseRefines ==
  ASSUME IInv, StoreInv, Refuse
  PROVE  Refined
<1>1. PICK t : RefusedFor(t) BY RefusedOne
<1>2. /\ t \in Threads /\ pc[t] \in Calling /\ pc[t] \in Busy /\ pc[t] \in InHandler
      /\ Alive /\ Alive' /\ ~Answered /\ Answered' /\ Head(wire').reply = Plain("ERROR")
      /\ \A v \in Threads : Still(v)
      /\ UNCHANGED <<db, rt, orphans, pc, req, res, ctx, link>>
      /\ Faulty
  BY <1>1 DEF RefusedFor, Calling, Busy, InHandler, ProcessRests, Still, Alive, Refuse, Faulty
<1>0. RestInv /\ req[t] \in Request
  BY <1>2 DEF IInv, StoreInv, RequestInv
<1>3. OthersStay(t) /\ \A v \in Threads \ {t} : ~Burning(v) /\ ~Burning(v)'
  BY <1>2, OnlyOne DEF OthersStay
<1>5. ASSUME OpOf(t)' = OpOf(t) PROVE OpsStay
  BY <1>3, <1>5 DEF OpsStay, OthersStay
<1>7. /\ req[t] # NoReq /\ req'[t] = req[t]
      /\ OpOf(t) = IF NotYet(t) THEN Opened(req[t]) ELSE Done(req[t], AnswerOf(t))
  BY <1>0, <1>2, OpAt
<1>8. OpOf(t)' = IF NotYet(t)' THEN Opened(req[t]) ELSE Done(req[t], AnswerOf(t)')
  BY <1>7 DEF OpOf, Opened, Done
<1>9. PICK r : r = req[t] OBVIOUS
<1>10. CASE pc[t] = "reply"
  <2>1. PICK a : a = Status(IF r.kind = "GET" THEN 404 ELSE 417) OBVIOUS
  <2>2. Replied(t)' /\ ~Replied(t) /\ ReplyNow(t)' = a
    BY <1>2, <1>7, <1>9, <1>10, <2>1
       DEF Replied, ReplyNow, ResultOf, GetResult, PostResult, Plain
  <2>3. ~Burning(t) /\ ~Burning(t)' BY <1>2, <1>10, <2>1, <2>2 DEF Burning, Status
  <2>4. OpOf(t) = Opened(r) BY <1>2, <1>7, <1>9, <1>10 DEF NotYet
  <2>5. OpOf(t)' = Done(r, a)
    <3>1. ~NotYet(t)' BY <1>2, <1>10, <2>3 DEF NotYet
    <3>2. AnswerOf(t)' = a BY <2>2 DEF AnswerOf
    <3> QED BY <1>8, <1>9, <3>1, <3>2
  <2>6. UNCHANGED LimboOf BY <1>2, <1>3, <2>3, LimboStays
  <2>7. r.kind \in {"GET", "POST"} BY <1>0, <1>9 DEF Request
  <2> QED BY <1>2, <1>3, <2>1, <2>4, <2>5, <2>6, <2>7, Refuses DEF Refined
<1>11. CASE pc[t] = "delreply"
  <2>1. ~Burning(t)' BY <1>2, <1>11 DEF Burning, Replied
  <2>2. ~NotYet(t) /\ ~NotYet(t)' BY <1>2, <1>11 DEF NotYet, Faulty
  <2>3. AnswerOf(t)' = AnswerOf(t) BY <1>2, <1>11 DEF AnswerOf, Replied
  <2>4. OpOf(t)' = OpOf(t) BY <1>7, <1>8, <2>2, <2>3
  <2>5. LimboOf' \subseteq LimboOf BY <1>2, <1>3, <2>1, LimboShrinks
  <2> QED BY <1>2, <1>5, <2>4, <2>5, Forgets DEF Refined
<1> QED BY <1>2, <1>10, <1>11 DEF Calling

(* What is left in redis' input when the connection goes away is the write  *)
(* of the thread that waits.                                                *)
LEMMA UnexecutedIs ==
  ASSUME IInv, NEW c \in Unexecuted
  PROVE  \E t \in Threads : /\ pc[t] \in Calling /\ pc[t] \in Busy
                            /\ Alive /\ ~Answered
                            /\ c = Issued(t) /\ c.op # "GET"
<1>1. PICK i \in 1..Len(wire) : c = wire[i].cmd /\ wire[i].cmd.op # "GET" /\ wire[i].reply = Pending
  BY DEF Unexecuted
<1>2. /\ i = 1 /\ wire # <<>> /\ Alive /\ Head(wire) = wire[1] /\ wire[1].by \in Threads
      /\ pc[wire[1].by] \in Calling /\ wire[1].cmd = Issued(wire[1].by)
  BY <1>1, FirstIsOnly, WireOwner
<1> QED BY <1>1, <1>2 DEF Answered, Calling, Busy

(* It is the write of an open POST, or a removal that is in limbo already.  *)
LEMMA UnexecutedLeft ==
  ASSUME IInv, StoreInv, Faulty, NEW c \in Unexecuted
  PROVE  \/ Left(c) \in LimboOf
         \/ \E t \in Threads :
              /\ pc[t] = "reply" /\ Alive /\ ~Answered /\ req[t].kind = "POST"
              /\ Left(c) = [key |-> req[t].key,
                            entry |-> [val |-> req[t].val, ttl |-> rt.expiration]]
<1>1. PICK t \in Threads : /\ pc[t] \in Calling /\ pc[t] \in Busy
                           /\ Alive /\ ~Answered
                           /\ c = Issued(t) /\ c.op # "GET"
  BY UnexecutedIs
<1>2. CASE pc[t] = "reply"
  <2>1. req[t] \in Request BY <1>1 DEF IInv, RequestInv, InHandler
  <2>2. req[t].kind = "POST" BY <1>1, <1>2, <2>1 DEF Issued, CommandOf, Get, Request
  <2>3. c = Set(req[t].key, req[t].val, rt.expiration, rt.immutable)
    BY <1>1, <1>2, <2>2 DEF Issued, CommandOf
  <2> QED BY <1>1, <1>2, <2>2, <2>3 DEF Left, Set
<1>3. CASE pc[t] = "delreply"
  <2>1. Burning(t) BY <1>1, <1>3 DEF Burning, StoreInv, RestInv
  <2>2. Left(c) = Removal(req[t].key) BY <1>1, <1>3 DEF Issued, Left, Removal, Del
  <2> QED BY <2>1, <2>2, LimboHas
<1> QED BY <1>1, <1>2, <1>3 DEF Calling

(* The connection goes away.                                                *)
LEMMA BreakRefines ==
  ASSUME IInv, StoreInv, Break
  PROVE  Refined
<1>1. /\ Faulty /\ ~Alive' /\ ~Answered' /\ orphans' = orphans \cup Unexecuted
      /\ UNCHANGED <<db, rt, pc, req, res, ctx>>
      /\ \A v \in Threads : Still(v)
  BY DEF Break, ConnectionBreaks, processVars, handlerVars, Faulty, Alive, Answered, Still
<1>2. \A v \in Threads : Burning(v)' => Burning(v) /\ req'[v] = req[v]
  BY <1>1 DEF Burning, Replied
<1>3. \A w : w \in LimboOf' => w \in LimboOf \/ \E c \in Unexecuted : w = Left(c)
  BY <1>1, <1>2, LimboHas, LimboHasNext
<1>4. \A v \in Threads : ~Replied(v)' /\ (NotYet(v)' <=> pc[v] \in {"lock", "cmd"})
  BY <1>1 DEF Replied, NotYet, Faulty
<1>5. CASE \E t \in Threads : pc[t] = "reply" /\ Alive
  <2>1. PICK t \in Threads : pc[t] = "reply" /\ Alive BY <1>5
  <2>2. pc[t] \in Busy /\ pc[t] \in InHandler BY <2>1 DEF Busy, InHandler
  <2>3. OthersStay(t) BY <1>1, <2>2, OnlyOne DEF OthersStay
  <2>4. /\ req[t] # NoReq /\ req'[t] = req[t]
        /\ OpOf(t) = IF NotYet(t) THEN Opened(req[t]) ELSE Done(req[t], AnswerOf(t))
    BY <1>1, <2>2, OpAt DEF StoreInv
  <2>5. OpOf(t)' = IF NotYet(t)' THEN Opened(req[t]) ELSE Done(req[t], AnswerOf(t)')
    BY <2>4 DEF OpOf, Opened, Done
  <2>6. OpOf(t)' = Done(req[t], Status(503))
    <3>1. ~NotYet(t)' BY <1>4, <2>1
    <3>2. AnswerOf(t)' = Status(503) BY <1>1, <1>4, <2>1 DEF AnswerOf
    <3> QED BY <2>5, <3>1, <3>2
  <2>7. PICK r, b, st : r = req[t] /\ b = (IF Answered THEN AnswerOf(t) ELSE NoOp)
                          /\ st = (IF Answered THEN "done" ELSE "open")
    OBVIOUS
  <2>8. OpOf(t) = [st |-> st, req |-> r, code |-> b.code, page |-> b.page]
    <3>1. NotYet(t) <=> ~Answered BY <1>1, <2>1 DEF NotYet, Faulty
    <3> QED BY <2>4, <2>7, <3>1 DEF Opened, Done, NoOp
  <2>9. LimboOf' \subseteq LimboOf \cup
           (IF st = "open" /\ r.kind = "POST"
            THEN {[key |-> r.key, entry |-> [val |-> r.val, ttl |-> rt.expiration]]} ELSE {})
    <3>1. ASSUME NEW c \in Unexecuted
          PROVE  \/ Left(c) \in LimboOf
                 \/ /\ st = "open" /\ r.kind = "POST"
                    /\ Left(c) = [key |-> r.key, entry |-> [val |-> r.val, ttl |-> rt.expiration]]
      <4>1. CASE Left(c) \in LimboOf BY <4>1
      <4>2. CASE Left(c) \notin LimboOf
        <5>1. PICK u \in Threads :
                /\ pc[u] = "reply" /\ Alive /\ ~Answered /\ req[u].kind = "POST"
                /\ Left(c) = [key |-> req[u].key,
                              entry |-> [val |-> req[u].val, ttl |-> rt.expiration]]
          BY <1>1, <4>2, UnexecutedLeft
        <5>2. u = t BY <2>2, <5>1, OneBusy DEF Busy
        <5> QED BY <2>7, <5>1, <5>2
      <4> QED BY <4>1, <4>2
    <3> QED BY <1>3, <3>1
  <2>10. st \in {"open", "done"} BY <2>7
  <2>11. OpOf(t)' = Done(r, Status(503)) BY <2>6, <2>7
  <2> QED BY <1>1, <2>3, <2>8, <2>9, <2>10, <2>11, Fails DEF Refined
<1>6. CASE ~\E t \in Threads : pc[t] = "reply" /\ Alive
  <2>1. ASSUME NEW u \in Threads PROVE OpOf(u)' = OpOf(u)
    <3>1. ~Replied(u) /\ (NotYet(u) <=> pc[u] \in {"lock", "cmd"})
      BY <1>1, <1>6 DEF Replied, NotYet, Faulty
    <3>2. AnswerOf(u)' = AnswerOf(u) BY <1>1, <1>4, <3>1 DEF AnswerOf
    <3> QED BY <1>1, <1>4, <3>1, <3>2 DEF OpOf
  <2>2. LimboOf' \subseteq LimboOf
    <3>1. \A c \in Unexecuted : Left(c) \in LimboOf BY <1>1, <1>6, UnexecutedLeft
    <3> QED BY <1>3, <3>1
  <2> QED BY <1>1, <2>1, <2>2, Forgets DEF Refined, OpsStay
<1> QED BY <1>5, <1>6

(* With failures, nothing depends on what redis holds.                      *)
LEMMA DbAround ==
  ASSUME Faulty, NEW u \in Threads, UNCHANGED <<wire, ctx, link, rt>>, Still(u)
  PROVE  OpOf(u)' = OpOf(u) /\ (Burning(u)' <=> Burning(u))
<1>1. /\ Alive' <=> Alive
      /\ Answered' <=> Answered
      /\ Head(wire') = Head(wire)
  BY DEF Alive, Answered
<1>2. (Replied(u)' <=> Replied(u)) /\ ReplyNow(u)' = ReplyNow(u)
  BY <1>1 DEF Replied, ReplyNow, Still, ResultOf, GetResult, PostResult
<1>3. Burning(u)' <=> Burning(u) BY <1>1, <1>2 DEF Burning, Still
<1>4. NotYet(u)' <=> NotYet(u) BY <1>1, <1>3 DEF NotYet, Still, Faulty
<1>5. AnswerOf(u)' = AnswerOf(u) BY <1>2 DEF AnswerOf, Still
<1> QED BY <1>3, <1>4, <1>5 DEF OpOf, Still

(* redis executes or drops a command of a connection that is gone.          *)
LEMMA OrphanRefines ==
  ASSUME IInv, StoreInv, OrphanRuns
  PROVE  Refined
<1>1. PICK c \in orphans : OrphanExecutes(c) \/ OrphanIsLost(c) BY DEF OrphanRuns
<1>2. /\ Faulty /\ UNCHANGED <<wire, ctx, link, rt, req>> /\ orphans' \subseteq orphans
      /\ \A u \in Threads : Still(u)
  BY <1>1
     DEF OrphanRuns, OrphanExecutes, OrphanIsLost, processVars, handlerVars, Still, StoreInv,
         ReliableInv
<1>3. OpsStay /\ LimboOf' \subseteq LimboOf
  BY <1>2, DbAround, LimboShrinks DEF OpsStay
<1>4. CASE OrphanIsLost(c) BY <1>2, <1>3, <1>4, Forgets DEF OrphanIsLost, Refined
<1>5. CASE OrphanExecutes(c)
  <2>1. PICK w : w = Left(c) OBVIOUS
  <2>2. w \in LimboOf BY <1>2, <2>1, LimboHas
  <2>3. /\ c \in Command /\ c.op \in {"SET", "DEL"}
        /\ c.op = "SET" => c.val \in Vals /\ c.nx = rt.immutable
    BY DEF IInv, OrphanInv, TypeOK, RaiTypeOK
  <2>4. db' = Effect(db, c) BY <1>5 DEF OrphanExecutes
  <2>5. db' = IF rt.immutable /\ w.entry # NoEntry /\ Exists(db, w.key)
              THEN db ELSE [db EXCEPT ![w.key] = w.entry]
    <3>1. CASE c.op = "SET"
      <4>1. w = [key |-> c.key, entry |-> [val |-> c.val, ttl |-> c.ttl]]
        BY <2>1, <3>1 DEF Left
      <4>2. w.entry # NoEntry BY <2>3, <3>1, <4>1, RedisAssumption DEF Command
      <4> QED BY <2>3, <2>4, <3>1, <4>1, <4>2 DEF Effect, SetApplies
    <3>2. CASE c.op = "DEL"
      <4>1. w = Removal(c.key) BY <2>1, <3>2 DEF Left, Removal
      <4> QED BY <2>4, <3>2, <4>1 DEF Effect, SetApplies, Removal
    <3> QED BY <2>3, <3>1, <3>2
  <2> QED BY <1>2, <1>3, <2>2, <2>5, Lates DEF Refined
<1> QED BY <1>1, <1>4, <1>5
(* A key's time to live runs out.                                           *)
LEMMA ExpireRefines ==
  ASSUME IInv, StoreInv, Expire
  PROVE  Refined
<1>1. PICK k \in Keys : KeyExpires(k) BY DEF Expire
<1>2. /\ UNCHANGED <<wire, ctx, link, rt, req, pc, res, orphans>>
      /\ \A u \in Threads : Still(u)
      /\ Exists(db, k) /\ db[k].ttl > 0 /\ db' = Expired(db, k)
  BY <1>1 DEF Expire, KeyExpires, processVars, handlerVars, Still
<1>0. db \in Database /\ RestInv BY DEF IInv, TypeOK, RaiTypeOK, StoreInv
<1>3. /\ Alive' <=> Alive
      /\ Answered' <=> Answered
      /\ Head(wire') = Head(wire)
  BY <1>2 DEF Alive, Answered
<1>4. \A u \in Threads : /\ Replied(u)' <=> Replied(u)
                         /\ Burning(u)' <=> Burning(u)
                         /\ AnswerOf(u)' = AnswerOf(u)
  <2> SUFFICES ASSUME NEW u \in Threads
               PROVE  /\ Replied(u)' <=> Replied(u)
                      /\ Burning(u)' <=> Burning(u)
                      /\ AnswerOf(u)' = AnswerOf(u)
    OBVIOUS
  <2>1. (Replied(u)' <=> Replied(u)) /\ ReplyNow(u)' = ReplyNow(u)
    BY <1>2, <1>3 DEF Replied, ReplyNow, ResultOf, GetResult, PostResult
  <2> QED BY <1>2, <1>3, <2>1 DEF Burning, AnswerOf
<1>5. UNCHANGED LimboOf BY <1>2, <1>4, LimboStays
<1>6. CASE Faulty
  <2>1. OpsStay BY <1>2, <1>6, DbAround DEF OpsStay
  <2> QED BY <1>2, <1>5, <2>1, Expires DEF Refined
<1>7. CASE ~Faulty /\ \E t \in Threads : Burning(t) /\ req[t].key = k
  <2>1. PICK t \in Threads : Burning(t) /\ req[t].key = k BY <1>7
  <2>2. pc[t] \in Busy /\ pc[t] \in InHandler /\ rt.bar
    BY <2>1 DEF Burning, Replied, Busy, InHandler
  <2>3. OthersStay(t) BY <1>2, <2>2, OnlyOne DEF OthersStay
  <2>4. /\ req[t] # NoReq /\ req'[t] = req[t] /\ req[t] \in Request
        /\ OpOf(t) = IF NotYet(t) THEN Opened(req[t]) ELSE Done(req[t], AnswerOf(t))
    BY <1>0, <1>2, <2>2, OpAt
  <2>5. OpOf(t)' = IF NotYet(t)' THEN Opened(req[t]) ELSE Done(req[t], AnswerOf(t)')
    BY <2>4 DEF OpOf, Opened, Done
  <2>6. NotYet(t) BY <1>2, <1>7, <2>1 DEF NotYet
  <2>7. ~NotYet(t)'
    <3>1. ~Exists(db', req'[t].key) BY <1>0, <1>2, <2>1, <2>4 DEF Exists, Expired, Database
    <3>2. /\ pc'[t] \notin {"lock", "cmd"}
          /\ pc'[t] = "reply" /\ Alive' => Answered'
      BY <1>2, <1>3, <2>1 DEF Burning, Replied
    <3> QED BY <3>1, <3>2 DEF NotYet
  <2>8. req[t].kind = "GET"
    <3>1. CASE Replied(t)
      <4>1. ReplyNow(t).page # NoVal BY <2>1, <3>1 DEF Burning, Replied
      <4> QED BY <2>4, <4>1 DEF ReplyNow, ResultOf, PostResult, Status, Request
    <3>2. CASE ~Replied(t)
      <4>1. pc[t] \in {"del", "delreply"} BY <2>1, <3>2 DEF Burning
      <4> QED BY <4>1 DEF IInv, RequestInv
    <3> QED BY <3>1, <3>2
  <2>9. AnswerOf(t) = [code |-> 200, page |-> db[req[t].key].val]
    BY <1>2, <1>7, <2>1 DEF StoreInv, PageInv
  <2>10. PICK r, a : r = req[t] /\ a = AnswerOf(t) OBVIOUS
  <2>11. OpOf(t) = Opened(r) /\ OpOf(t)' = Done(r, a)
    BY <1>4, <2>4, <2>5, <2>6, <2>7, <2>10
  <2>12. Exists(db, r.key) /\ a.code = 200 /\ a.page = db[r.key].val
    BY <1>2, <2>1, <2>9, <2>10
  <2>13. /\ db' = IF rt.bar /\ ~Faulty THEN Expired(db, r.key) ELSE db
         /\ LimboOf' \subseteq LimboOf \cup (IF rt.bar /\ Faulty THEN {Removal(r.key)} ELSE {})
    BY <1>2, <1>5, <1>7, <2>1, <2>2, <2>10
  <2> QED BY <1>2, <2>3, <2>8, <2>10, <2>11, <2>12, <2>13, Gets DEF Refined
<1>8. CASE ~Faulty /\ \A t \in Threads : Burning(t) => req[t].key # k
  <2>1. ASSUME NEW u \in Threads PROVE OpOf(u)' = OpOf(u)
    <3>1. Burning(u) => (Exists(db', req'[u].key) <=> Exists(db, req[u].key))
      BY <1>0, <1>2, <1>8 DEF Exists, Expired, Database
    <3>2. NotYet(u)' <=> NotYet(u) BY <1>2, <1>3, <1>4, <3>1 DEF NotYet
    <3> QED BY <1>2, <1>4, <3>2 DEF OpOf
  <2>2. OpsStay BY <2>1 DEF OpsStay
  <2> QED BY <1>2, <1>5, <2>2, Expires DEF Refined
<1> QED BY <1>6, <1>7, <1>8

(* The main thread, and a new process.                                      *)
LEMMA MainRefines ==
  ASSUME IInv, StoreInv, MainStep \/ Signal \/ Restart \/ UNCHANGED vars
  PROVE  Refined
<1>1. CASE LeaveMainLoop \/ DaemonStopped \/ Signal \/ UNCHANGED vars
  <2>1. /\ UNCHANGED <<db, wire, ctx, link, rt, orphans, req>>
        /\ \A u \in Threads : Still(u)
    BY <1>1 DEF LeaveMainLoop, DaemonStopped, Signal, vars, raiVars, handlerVars, Still
  <2>2. OpsStay /\ UNCHANGED LimboOf BY <2>1, Around, LimboStays DEF OpsStay
  <2> QED BY <2>1, <2>2, Stutters DEF Refined
<1>2. CASE Disconnect \/ Restart
  <2>1. \A u \in Threads : pc[u] = "closed" /\ req[u] = NoReq
    BY <1>2 DEF Disconnect, Restart, IInv, StopInv, StoreInv, RestInv
  <2>2. /\ UNCHANGED <<db, rt, orphans, req>>
        /\ \A u \in Threads : pc'[u] \in {"idle", "closed"}
    BY <1>2, <2>1 DEF Disconnect, Restart, rai_disconnect, rai_connect, handlerVars
  <2>3. \A u \in Threads : OpOf(u) = NoOp /\ OpOf(u)' = NoOp
    BY <2>1, <2>2 DEF OpOf, NoOp
  <2>4. \A u \in Threads : ~Burning(u) /\ ~Burning(u)'
    BY <2>1, <2>2 DEF Burning, Replied
  <2>5. UNCHANGED LimboOf BY <2>2, <2>4, LimboStays
  <2> QED BY <2>2, <2>3, <2>5, Stutters DEF Refined, OpsStay
<1> QED BY <1>1, <1>2 DEF MainStep

(* The process dies.                                                        *)
LEMMA CrashRefines ==
  ASSUME IInv, StoreInv, Crash
  PROVE  Refined
<1>1. /\ Faulty /\ orphans' = orphans \cup Unexecuted /\ UNCHANGED <<db, rt>>
      /\ \A u \in Threads : pc'[u] = "closed" /\ req'[u] = NoReq
  BY DEF Crash, RaiCrash, Faulty
<1>2. \A u \in Threads : OpOf(u)' = NoOp /\ ~Burning(u)'
  BY <1>1 DEF OpOf, NoOp, Burning, Replied
<1>3. \A w : w \in LimboOf' => w \in LimboOf \/ \E c \in Unexecuted : w = Left(c)
  BY <1>1, <1>2, LimboHas, LimboHasNext
<1> DEFINE f == [u \in Threads |-> OpOf(u)]
           late == {Store!WriteOf(f[c].req) : c \in {d \in Threads : Store!Open(d, "POST")}}
<1>4. ASSUME NEW c \in Unexecuted PROVE Left(c) \in LimboOf \/ Left(c) \in late
  <2>1. CASE Left(c) \in LimboOf BY <2>1
  <2>2. CASE Left(c) \notin LimboOf
    <3>1. PICK t \in Threads :
            /\ pc[t] = "reply" /\ Alive /\ ~Answered /\ req[t].kind = "POST"
            /\ Left(c) = [key |-> req[t].key,
                          entry |-> [val |-> req[t].val, ttl |-> rt.expiration]]
      BY <1>1, <2>2, UnexecutedLeft
    <3>2. req[t] # NoReq /\ NotYet(t)
      BY <3>1, OpAt DEF InHandler, Busy, StoreInv, NotYet
    <3>3. OpOf(t) = Opened(req[t]) BY <3>1, <3>2, OpAt DEF StoreInv
    <3>4. Store!Open(t, "POST") /\ f[t].req = req[t] BY <3>1, <3>3, OpenIs DEF Opened
    <3>5. Left(c) = Store!WriteOf(f[t].req)
      BY <3>1, <3>4 DEF Store!WriteOf, Store!Message
    <3> HIDE DEF f
    <3> QED BY <3>4, <3>5
  <2> QED BY <2>1, <2>2
<1>5. LimboOf' \subseteq LimboOf \cup late BY <1>3, <1>4
<1>6. f' = [c \in Threads |-> NoOp] BY <1>2
<1>7. Store!Crash
  BY <1>1, <1>5, <1>6 DEF Store!Crash, Store!Forgetting, Store!NoOp, NoOp
<1> QED BY <1>7 DEF Store!Next, Refined

(* The clients see nothing of a loss that another thread finds: what was on *)
(* the wire is gone already.                                                *)
LEMMA ElsewhereRefines ==
  ASSUME IInv, LossFoundElsewhere
  PROVE  Refined
<1>1. /\ UNCHANGED <<db, wire, link, rt, orphans, req, pc, res>> /\ ~Alive /\ ~Alive'
      /\ \A u \in Threads : Still(u)
  BY DEF LossFoundElsewhere, ReceiveNull, handlerVars, Alive, Still
<1>2. \A u \in Threads : ~Replied(u) /\ ~Replied(u)' /\ (Burning(u)' <=> Burning(u))
  BY <1>1 DEF Replied, Burning
<1>3. OpsStay BY <1>1, <1>2 DEF OpsStay, OpOf, NotYet, AnswerOf
<1>4. UNCHANGED LimboOf BY <1>1, <1>2, LimboStays
<1> QED BY <1>1, <1>3, <1>4, Stutters DEF Refined

(* The initial states are initial states of the store.                     *)
LEMMA InitRefines == Init => StoreInv /\ Store!Init
<1> SUFFICES ASSUME Init PROVE StoreInv /\ Store!Init OBVIOUS
<1> USE DEF Init, RaiInit
<1>1. \A t \in Threads : pc[t] = "idle" /\ req[t] = NoReq OBVIOUS
<1>2. \A t \in Threads : OpOf(t) = NoOp /\ ~Burning(t)
  BY <1>1 DEF OpOf, NoOp, Burning, Replied
<1>3. StoreInv BY <1>1, <1>2 DEF StoreInv, RestInv, ReliableInv, PageInv, Alive
<1>4. LimboOf = {} BY <1>2, LimboHas
<1>5. [t \in Threads |-> OpOf(t)] = [t \in Threads |-> NoOp] BY <1>2
<1> QED BY <1>3, <1>4, <1>5 DEF Store!Init, Store!NoOp, NoOp, EmptyDb

(* Every behaviour of the handlers is one of the store, for any number of   *)
(* connections, keys and messages and in every configuration, with or       *)
(* without failures: a POST or a GET takes effect once, between its request *)
(* and its answer, and answers what the store held then (get(),             *)
(* do_redis_post() and do_redis_del together).                              *)
THEOREM Implements == Spec => ImplementsStore
<1>1. IInv /\ StoreInv /\ [Next]_vars => StoreInv'
  BY RestStep, ReliableStep, PageStep DEF StoreInv
<1>2. Spec => []StoreInv
  BY Invariant, InitRefines, <1>1, PTL DEF Spec
<1>3. IInv /\ IInv' /\ StoreInv /\ StoreInv' /\ [Next]_vars => [Store!Next]_Store!vars
  <2> SUFFICES ASSUME IInv, IInv', StoreInv, StoreInv', [Next]_vars PROVE Refined
    BY DEF Refined
  <2>1. RestInv' BY DEF StoreInv
  <2> QED
    BY <2>1, BesideRefines, BusyRefines, ExecuteRefines, RefuseRefines, BreakRefines,
       OrphanRefines, ExpireRefines, ElsewhereRefines, MainRefines, CrashRefines
       DEF Next, Step, Environment
<1> QED
  BY Invariant, InitRefines, <1>2, <1>3, PTL DEF Spec, ImplementsStore, Store!Spec
=============================================================================
