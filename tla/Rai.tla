-------------------------------- MODULE Rai --------------------------------
(***************************************************************************)
(* src/src/rai.c and the hiredis context inside it: one connection to      *)
(* redis and one mutex, shared by every thread of the server.  A blocking  *)
(* redisCommand is two steps, Send and then Receive or ReceiveNull.  Replies *)
(* come back in the order of the commands whoever sent them, so what a     *)
(* thread receives is the oldest reply on the wire.  A hiredis context     *)
(* that met an error stays in error: it never reconnects.                  *)
(*                                                                         *)
(* The operators are action fragments; the modules that EXTEND this one    *)
(* give their actions the rest of the state.                               *)
(***************************************************************************)
EXTENDS Redis, Sequences

CONSTANTS
  Threads,   \* the threads that use the context
  NoOwner,   \* the mutex is free
  Pending    \* redis has not executed the command yet

ASSUME RaiAssumption == NoOwner \notin Threads /\ Pending \notin Reply

VARIABLES
  db,        \* the redis database
  owner,     \* r->rl: the thread that holds the mutex, or NoOwner
  ctx,       \* r->c: "none" (NULL), "ok", or "err" (c->err is set)
  link,      \* "up" or "down": the connection to redis
  wire,      \* commands sent and not yet answered to a thread, oldest first
  orphans    \* writes left in redis' input by a connection that is gone

raiVars == <<db, owner, ctx, link, wire, orphans>>

Item == [by: Threads, cmd: Command, reply: Reply \cup {Pending}]

RaiTypeOK ==
  /\ db \in Database
  /\ owner \in Threads \cup {NoOwner}
  /\ ctx \in {"none", "ok", "err"}
  /\ link \in {"up", "down"}
  /\ wire \in Seq(Item)
  /\ orphans \subseteq Command

RaiInit ==
  /\ db = EmptyDb
  /\ owner = NoOwner
  /\ ctx = "ok"
  /\ link = "up"
  /\ wire = <<>>
  /\ orphans = {}

-----------------------------------------------------------------------------
(* The mutex.                                                               *)

rai_lock(t) == owner = NoOwner /\ owner' = t

rai_unlock(t) == owner' = NoOwner

(* rai_disconnect: it takes the mutex, frees the context, releases it.      *)
rai_disconnect ==
  /\ owner = NoOwner
  /\ ctx' = "none"
  /\ link' = "down"
  /\ UNCHANGED <<owner, db, wire, orphans>>

(* rai_connect in a new process: a new mutex and a new connection.          *)
rai_connect ==
  /\ ctx = "none"
  /\ ctx' = "ok"
  /\ link' = "up"
  /\ owner' = NoOwner
  /\ UNCHANGED <<db, wire, orphans>>

-----------------------------------------------------------------------------
(* redisCommand, from the thread's side.                                    *)

Alive == ctx = "ok" /\ link = "up"

Send(t, c) ==
  wire' = IF Alive
          THEN Append(wire, [by |-> t, cmd |-> c, reply |-> Pending])
          ELSE wire

Answered == wire # <<>> /\ Head(wire).reply # Pending

Receive == Alive /\ Answered /\ wire' = Tail(wire)

(* redisCommand returns NULL: the connection is gone or was already found   *)
(* to be gone.                                                              *)
ReceiveNull == ~Alive /\ ctx' = "err"

-----------------------------------------------------------------------------
(* The other end of the connection.                                         *)

FirstPending(i) ==
  /\ wire[i].reply = Pending
  /\ \A j \in 1..(i - 1) : wire[j].reply # Pending

(* redis executes the oldest command it has not executed.                   *)
RedisExecutes(i) ==
  /\ FirstPending(i)
  /\ wire' = [wire EXCEPT ![i].reply = ReplyTo(db, wire[i].cmd)]
  /\ db' = Effect(db, wire[i].cmd)
  /\ UNCHANGED <<owner, ctx, link, orphans>>

(* redis answers with an error and does nothing (out of memory, a replica,  *)
(* a failed background save, still loading).                                *)
RedisRefuses(i) ==
  /\ FirstPending(i)
  /\ wire' = [wire EXCEPT ![i].reply = Plain("ERROR")]
  /\ UNCHANGED <<db, owner, ctx, link, orphans>>

(* Writes that were sent and not executed when the connection went away:    *)
(* redis may have them in its input buffer and execute them later.          *)
Unexecuted ==
  {wire[i].cmd : i \in {j \in 1..Len(wire) : /\ wire[j].reply = Pending
                                             /\ wire[j].cmd.op # "GET"}}

ConnectionBreaks ==
  /\ link = "up"
  /\ link' = "down"
  /\ wire' = <<>>
  /\ orphans' = orphans \cup Unexecuted
  /\ UNCHANGED <<db, owner, ctx>>

(* The process is gone, and with it the mutex, the context and the socket.  *)
RaiCrash ==
  /\ owner' = NoOwner
  /\ ctx' = "none"
  /\ link' = "down"
  /\ wire' = <<>>
  /\ orphans' = orphans \cup Unexecuted
  /\ UNCHANGED db

OrphanExecutes(c) ==
  /\ db' = Effect(db, c)
  /\ orphans' = orphans \ {c}
  /\ UNCHANGED <<owner, ctx, link, wire>>

OrphanIsLost(c) ==
  /\ orphans' = orphans \ {c}
  /\ UNCHANGED <<db, owner, ctx, link, wire>>

KeyExpires(k) ==
  /\ Exists(db, k)
  /\ db[k].ttl > 0
  /\ db' = Expired(db, k)
  /\ UNCHANGED <<owner, ctx, link, wire, orphans>>

(* One tick of redis' clock, where times to live are counted in ticks.      *)
KeysAge ==
  /\ db' = [k \in Keys |-> Aged(db[k])]
  /\ UNCHANGED <<owner, ctx, link, wire, orphans>>
=============================================================================
