------------------------------ MODULE AllowIp ------------------------------
(***************************************************************************)
(* allow_ip, check_ip and save_ip (webstore_conn.c), called through        *)
(* ws_addr_check (webstore_uhd.c) by the one thread that accepts           *)
(* connections.  It counts the connections of an address in a redis key    *)
(* that expires after REQPERIOD: first SET .. EX, then INCR.  The keys are *)
(* the addresses and their strings are counts.                             *)
(***************************************************************************)
EXTENDS Rai

CONSTANTS
  Listener,      \* the accepting thread
  Localhost,     \* 127.0.0.1, an address that is not limited
  ReqPeriod,     \* REQPERIOD, in ticks
  ReqCount       \* REQCOUNT

ASSUME AllowIpAssumption ==
  /\ Listener \in Threads
  /\ Localhost \in Keys
  /\ ReqPeriod \in Nat \ {0}
  /\ ReqCount \in Nat \ {0}
  /\ 1..ReqCount \subseteq Vals

VARIABLES
  multithreaded, \* g_rt.multithreaded
  pc,        \* where the listener is in allow_ip
  ip,        \* the address it is deciding on
  retval,    \* check_ip's answer so far
  found,     \* save_ip's argument: the counter existed
  shutdown   \* g_shutdown

allowVars == <<multithreaded, pc, ip, retval, found, shutdown>>

AllowTypeOK ==
  /\ RaiTypeOK
  /\ multithreaded \in BOOLEAN
  /\ pc \in {"idle", "lock", "get", "getreply", "save", "savereply", "unlock", "decide"}
  /\ ip \in Keys
  /\ retval \in BOOLEAN
  /\ found \in BOOLEAN
  /\ shutdown \in BOOLEAN

(* The listener is not in allow_ip, and its variables are gone.             *)
NoDecision     == ip = Localhost /\ retval = TRUE /\ found = FALSE
ForgetDecision == ip' = Localhost /\ retval' = TRUE /\ found' = FALSE

AllowInit ==
  /\ RaiInit
  /\ multithreaded \in BOOLEAN
  /\ pc = "idle"
  /\ NoDecision
  /\ shutdown = FALSE

-----------------------------------------------------------------------------
(* ws_addr_check: localhost is accepted without a look at redis.            *)
ws_addr_check(c) ==
  /\ pc = "idle"
  /\ IF c = Localhost
     THEN UNCHANGED <<pc, ip, retval, found>>
     ELSE /\ pc' = "lock"
          /\ ip' = c
          /\ retval' = TRUE
          /\ found' = FALSE
  /\ UNCHANGED <<raiVars, multithreaded, shutdown>>

(* allow_ip                                                                 *)

(* Variant, to see OwnReply and ImplementsStore of Webstore fail: the       *)
(* accepting thread calls redis without the mutex.                          *)
LockRai_NoMutex ==
  /\ pc = "lock"
  /\ pc' = "get"
  /\ UNCHANGED <<raiVars, ip, retval, found, shutdown, multithreaded>>

LockRai ==
  /\ pc = "lock"
  /\ IF multithreaded THEN rai_lock(Listener) ELSE UNCHANGED owner
  /\ pc' = "get"
  /\ UNCHANGED <<db, ctx, link, wire, orphans, ip, retval, found, shutdown, multithreaded>>

(* check_ip                                                                 *)
SendGet ==
  /\ pc = "get"
  /\ Send(Listener, Get(ip))
  /\ pc' = "getreply"
  /\ UNCHANGED <<db, owner, ctx, link, orphans, ip, retval, found, shutdown, multithreaded>>

(* Variant, to see OnlyRefusedCountsExceed and TypeOK fail: one connection  *)
(* too many.                                                                *)
CheckCount_OffByOne ==
  /\ pc = "getreply"
  /\ Receive
  /\ LET r    == Head(wire).reply
         pass == r.type = "NIL" \/ (r.type = "STRING" /\ r.val <= ReqCount)
     IN  /\ retval' = pass
         /\ found' = (r.type = "STRING")
         /\ pc' = IF pass THEN "save" ELSE "unlock"
  /\ UNCHANGED <<db, owner, ctx, link, orphans, ip, shutdown, multithreaded>>

(* Variant, to see OnlyLastingCountersLockOut fail: an address without a    *)
(* counter is denied.                                                       *)
CheckCount_DeniesNew ==
  /\ pc = "getreply"
  /\ Receive
  /\ LET r    == Head(wire).reply
         pass == r.type = "STRING" /\ r.val < ReqCount
     IN  /\ retval' = pass
         /\ found' = (r.type = "STRING")
         /\ pc' = IF pass THEN "save" ELSE "unlock"
  /\ UNCHANGED <<db, owner, ctx, link, orphans, ip, shutdown, multithreaded>>

(* Variant, to see CountsOnlyAccepted fail: connections that find a counter *)
(* are counted before they are judged.                                      *)
CheckCount_CountsFirst ==
  /\ pc = "getreply"
  /\ Receive
  /\ LET r == Head(wire).reply
     IN  /\ retval' = (r.type = "NIL" \/ (r.type = "STRING" /\ r.val < ReqCount))
         /\ found' = (r.type = "STRING")
         /\ pc' = IF r.type = "ERROR" THEN "unlock" ELSE "save"
  /\ UNCHANGED <<db, owner, ctx, link, orphans, ip, shutdown, multithreaded>>

CheckCount ==
  /\ pc = "getreply"
  /\ Receive
  /\ LET r    == Head(wire).reply
         pass == r.type = "NIL" \/ (r.type = "STRING" /\ r.val < ReqCount)
     IN  /\ retval' = pass
         /\ found' = (r.type = "STRING")
         /\ pc' = IF pass THEN "save" ELSE "unlock"
  /\ UNCHANGED <<db, owner, ctx, link, orphans, ip, shutdown, multithreaded>>

(* Variant, to see RedisLossStops of Webstore fail: the connection is       *)
(* denied and the server goes on.                                           *)
CheckLost_NoShutdown ==
  /\ pc = "getreply"
  /\ ReceiveNull
  /\ retval' = FALSE
  /\ pc' = "unlock"
  /\ UNCHANGED <<db, owner, link, wire, orphans, ip, found, shutdown, multithreaded>>

(* A NULL reply to the GET denies the connection.                           *)
CheckLost ==
  /\ pc = "getreply"
  /\ ReceiveNull
  /\ shutdown' = TRUE
  /\ retval' = FALSE
  /\ pc' = "unlock"
  /\ UNCHANGED <<db, owner, link, wire, orphans, ip, found, multithreaded>>

(* save_ip                                                                  *)
CountCommand == IF found THEN Incr(ip) ELSE Set(ip, 1, ReqPeriod, FALSE)

SendCount ==
  /\ pc = "save"
  /\ Send(Listener, CountCommand)
  /\ pc' = "savereply"
  /\ UNCHANGED <<db, owner, ctx, link, orphans, ip, retval, found, shutdown, multithreaded>>

(* Whatever the reply is, also an error, the connection is allowed.         *)
CountReply ==
  /\ pc = "savereply"
  /\ Receive
  /\ pc' = "unlock"
  /\ UNCHANGED <<db, owner, ctx, link, orphans, ip, retval, found, shutdown, multithreaded>>

CountLost ==
  /\ pc = "savereply"
  /\ ReceiveNull
  /\ shutdown' = TRUE
  /\ pc' = "unlock"
  /\ UNCHANGED <<db, owner, link, wire, orphans, ip, retval, found, multithreaded>>

(* Variant, to see ShutdownCompletes of Webstore fail: an early return      *)
(* keeps the mutex when the connection is denied.                           *)
UnlockRai_NotDenied ==
  /\ pc = "unlock"
  /\ IF multithreaded /\ retval THEN rai_unlock(Listener) ELSE UNCHANGED owner
  /\ pc' = "decide"
  /\ UNCHANGED <<db, ctx, link, wire, orphans, ip, retval, found, shutdown, multithreaded>>

UnlockRai ==
  /\ pc = "unlock"
  /\ IF multithreaded THEN rai_unlock(Listener) ELSE UNCHANGED owner
  /\ pc' = "decide"
  /\ UNCHANGED <<db, ctx, link, wire, orphans, ip, retval, found, shutdown, multithreaded>>

(* uhd_client_connect hands the answer to MHD.                              *)
Answer ==
  /\ pc = "decide"
  /\ pc' = "idle"
  /\ ForgetDecision
  /\ UNCHANGED <<raiVars, shutdown, multithreaded>>

allow_ip ==
  LockRai \/ SendGet \/ CheckCount \/ CheckLost \/ SendCount \/ CountReply \/ CountLost
    \/ UnlockRai
=============================================================================
