------------------------------- MODULE Redis -------------------------------
(***************************************************************************)
(* The redis server, as the code in src/ uses it: a map from keys to       *)
(* strings, each with an optional time to live, and the four commands the  *)
(* server sends (GET, SET [EX n] [NX], DEL, INCR).  The server itself is   *)
(* not part of the repository; these are pure operators on a database d.   *)
(***************************************************************************)
EXTENDS Integers

CONSTANTS
  Keys,      \* the keys the commands name
  Vals,      \* the strings redis holds under them
  NoVal,     \* "no string": the val field of a command or reply without one
  NoEntry    \* what a database holds for a key that does not exist

ASSUME RedisAssumption == NoVal \notin Vals /\ NoEntry \notin [val: Vals, ttl: Nat]

-----------------------------------------------------------------------------
(* Commands.  ttl = 0 stands for a SET without EX.                          *)

Command == [op: {"GET", "SET", "DEL", "INCR"}, key: Keys,
            val: Vals \cup {NoVal}, ttl: Nat, nx: BOOLEAN]

Get(k)  == [op |-> "GET",  key |-> k, val |-> NoVal, ttl |-> 0, nx |-> FALSE]
Del(k)  == [op |-> "DEL",  key |-> k, val |-> NoVal, ttl |-> 0, nx |-> FALSE]
Incr(k) == [op |-> "INCR", key |-> k, val |-> NoVal, ttl |-> 0, nx |-> FALSE]
Set(k, v, ttl, nx) ==
  [op |-> "SET", key |-> k, val |-> v, ttl |-> ttl, nx |-> nx]

(* The reply types the code tells apart (REDIS_REPLY_...).                  *)
ReplyType == {"STRING", "NIL", "STATUS", "INTEGER", "ERROR"}
Reply     == [type: ReplyType, val: Vals \cup {NoVal}]

Plain(type) == [type |-> type, val |-> NoVal]

-----------------------------------------------------------------------------
Database == [Keys -> [val: Vals, ttl: Nat] \cup {NoEntry}]
EmptyDb  == [k \in Keys |-> NoEntry]

Exists(d, k) == d[k] # NoEntry

(* SET with NX leaves a key that exists as it is.                           *)
SetApplies(d, c) == c.op = "SET" /\ ~(c.nx /\ Exists(d, c.key))

(* INCR creates a missing key, without a time to live, and keeps the time   *)
(* to live of an existing one.                                              *)
Incremented(e) ==
  IF e = NoEntry THEN [val |-> 1, ttl |-> 0] ELSE [e EXCEPT !.val = @ + 1]

Effect(d, c) ==
  CASE SetApplies(d, c) -> [d EXCEPT ![c.key] = [val |-> c.val, ttl |-> c.ttl]]
    [] c.op = "DEL"     -> [d EXCEPT ![c.key] = NoEntry]
    [] c.op = "INCR"    -> [d EXCEPT ![c.key] = Incremented(@)]
    [] OTHER            -> d

ReplyTo(d, c) ==
  CASE c.op = "GET" /\ Exists(d, c.key) -> [type |-> "STRING", val |-> d[c.key].val]
    [] c.op = "GET" /\ ~Exists(d, c.key) -> Plain("NIL")
    [] c.op = "SET" /\ SetApplies(d, c)  -> Plain("STATUS")
    [] c.op = "SET" /\ ~SetApplies(d, c) -> Plain("NIL")
    [] OTHER                             -> Plain("INTEGER")

(* The time to live of k has run out.                                       *)
Expired(d, k) == [d EXCEPT ![k] = NoEntry]

(* One tick passes for an entry.                                            *)
Aged(e) ==
  CASE e = NoEntry -> NoEntry
    [] e # NoEntry /\ e.ttl = 0 -> e
    [] e # NoEntry /\ e.ttl = 1 -> NoEntry
    [] OTHER -> [e EXCEPT !.ttl = @ - 1]
=============================================================================
