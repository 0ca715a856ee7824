---------------------------- MODULE MessageStore ----------------------------
(***************************************************************************)
(* What the store promises its clients, without threads, locks, commands   *)
(* or a process: a map from tokens to messages on which every POST and GET *)
(* takes effect at one moment between the request and its answer.          *)
(*                                                                         *)
(* When nothing fails, a GET in burn-after-reading mode removes the message *)
(* in the same moment.  When redis or the process may fail (Faulty):       *)
(*   - an answer of 503 says nothing: the write may have taken effect, may *)
(*     take effect later (it is then in limbo), or never;                   *)
(*   - the removal of a message that was read is in limbo too;              *)
(*   - redis may refuse, which is 417 to a POST and 404 to a GET.           *)
(***************************************************************************)
EXTENDS Integers

CONSTANTS Clients, Keys, Vals, NoVal, NoEntry, NoReq, Settings, Faulty

VARIABLES
  rt,      \* the configuration
  store,   \* token -> [val, ttl] or NoEntry
  op,      \* client -> its request, its state and its answer
  limbo    \* writes that may take effect at any time, or never

vars == <<rt, store, op, limbo>>

Request == [kind: {"GET", "POST"}, key: Keys, val: Vals \cup {NoVal}]
Entry   == [val: Vals, ttl: Nat]
Write   == [key: Keys, entry: Entry \cup {NoEntry}]

NoOp == [st |-> "idle", req |-> NoReq, code |-> 0, page |-> NoVal]

Init ==
  /\ rt \in Settings
  /\ store = [k \in Keys |-> NoEntry]
  /\ op = [c \in Clients |-> NoOp]
  /\ limbo = {}

Holds(k)    == store[k] # NoEntry
Message(r)  == [val |-> r.val, ttl |-> rt.expiration]
Burn(k)     == [key |-> k, entry |-> NoEntry]
WriteOf(r)  == [key |-> r.key, entry |-> Message(r)]

(* An immutable message is not overwritten; any message may be removed.     *)
Written(w) ==
  IF rt.immutable /\ w.entry # NoEntry /\ Holds(w.key)
  THEN store ELSE [store EXCEPT ![w.key] = w.entry]

Open(c, kind) == op[c].st = "open" /\ op[c].req.kind = kind

Answer(c, code, page) ==
  op' = [op EXCEPT ![c].st = "done", ![c].code = code, ![c].page = page]

Forgetting(writes) == limbo' \in SUBSET (limbo \cup writes)

-----------------------------------------------------------------------------
Begin(c) ==
  /\ op[c].st = "idle"
  /\ \E r \in Request : op' = [op EXCEPT ![c].st = "open", ![c].req = r]
  /\ UNCHANGED <<rt, store, limbo>>

AnswerGet(c) ==
  /\ Open(c, "GET")
  /\ LET k == op[c].req.key
     IN  IF Holds(k)
         THEN /\ Answer(c, 200, store[k].val)
              /\ store' = IF rt.bar /\ ~Faulty THEN Written(Burn(k)) ELSE store
              /\ Forgetting(IF rt.bar /\ Faulty THEN {Burn(k)} ELSE {})
         ELSE /\ Answer(c, 404, NoVal)
              /\ UNCHANGED <<store, limbo>>
  /\ UNCHANGED rt

AnswerPost(c) ==
  /\ Open(c, "POST")
  /\ LET r == op[c].req
     IN  /\ Answer(c, IF rt.immutable /\ Holds(r.key) THEN 304 ELSE 200, NoVal)
         /\ store' = Written(WriteOf(r))
  /\ UNCHANGED <<rt, limbo>>

Refuse(c) ==
  /\ Faulty
  /\ \/ Open(c, "GET") /\ Answer(c, 404, NoVal)
     \/ Open(c, "POST") /\ Answer(c, 417, NoVal)
  /\ UNCHANGED <<rt, store, limbo>>

(* An answer can be lost as long as the client has not got it.              *)
Fail(c) ==
  /\ Faulty
  /\ op[c].st \in {"open", "done"}
  /\ Answer(c, 503, NoVal)
  /\ Forgetting(IF Open(c, "POST") THEN {WriteOf(op[c].req)} ELSE {})
  /\ UNCHANGED <<rt, store>>

Return(c) ==
  /\ op[c].st = "done"
  /\ op' = [op EXCEPT ![c] = NoOp]
  /\ UNCHANGED <<rt, store, limbo>>

Late ==
  /\ \E w \in limbo : store' = Written(w)
  /\ Forgetting({})
  /\ UNCHANGED <<rt, op>>

Forget == Forgetting({}) /\ UNCHANGED <<rt, store, op>>

Expire ==
  /\ \E k \in Keys : /\ Holds(k)
                     /\ store[k].ttl > 0
                     /\ store' = [store EXCEPT ![k] = NoEntry]
  /\ UNCHANGED <<rt, op, limbo>>

Crash ==
  /\ Faulty
  /\ op' = [c \in Clients |-> NoOp]
  /\ Forgetting({WriteOf(op[c].req) : c \in {d \in Clients : Open(d, "POST")}})
  /\ UNCHANGED <<rt, store>>

Next ==
  \/ \E c \in Clients :
       Begin(c) \/ AnswerGet(c) \/ AnswerPost(c) \/ Refuse(c) \/ Fail(c) \/ Return(c)
  \/ Late \/ Forget \/ Expire \/ Crash

Spec == Init /\ [][Next]_vars
=============================================================================
