---------------------------- MODULE WebstoreConn ----------------------------
(***************************************************************************)
(* The connection limiter over time: the listener of AllowIp alone with    *)
(* its redis, and the history of its decisions.  Time passes in ticks,     *)
(* also between the GET of check_ip and the write of save_ip.              *)
(***************************************************************************)
EXTENDS AllowIp

CONSTANT MayFail  \* a subset of {"break", "refuse"}

ASSUME ConnAssumption == Threads = {Listener}

VARIABLES
  verdict,   \* the last answer to each address, "none" while it waits
  recent,    \* history: connections accepted from each address, by how many
             \* ticks ago (counted up to RecentBound)
  uncounted  \* history: addresses whose count redis refused to write

history == <<verdict, recent, uncounted>>
vars    == <<raiVars, allowVars, history>>

Ages        == 0..(ReqPeriod - 1)
RecentBound == 2 * ReqCount + 1

(* Every variable keeps its type: no address has more recent connections    *)
(* than the bound of this model, and no counter stands above REQCOUNT.      *)
TypeOK ==
  /\ AllowTypeOK
  /\ verdict \in [Keys -> {"none", "accept", "deny"}]
  /\ recent \in [Keys -> [Ages -> 0..RecentBound]]
  /\ uncounted \subseteq Keys \ {Localhost}

Init ==
  /\ AllowInit
  /\ verdict = [c \in Keys |-> "none"]
  /\ recent = [c \in Keys |-> [g \in Ages |-> 0]]
  /\ uncounted = {}

-----------------------------------------------------------------------------
Connect(c) ==
  /\ ws_addr_check(c)
  /\ verdict' = [verdict EXCEPT ![c] = IF c = Localhost THEN "accept" ELSE "none"]
  /\ UNCHANGED <<recent, uncounted>>

Judge ==
  /\ allow_ip
  /\ uncounted' = IF pc = "savereply" /\ Answered /\ Head(wire).reply.type = "ERROR"
                  THEN uncounted \cup {ip} ELSE uncounted
  /\ UNCHANGED <<verdict, recent>>

Decide ==
  /\ Answer
  /\ verdict' = [verdict EXCEPT ![ip] = IF retval THEN "accept" ELSE "deny"]
  /\ recent' = IF retval
               THEN [recent EXCEPT ![ip][0] = IF @ < RecentBound THEN @ + 1 ELSE @]
               ELSE recent
  /\ UNCHANGED uncounted

ListenerStep == Judge \/ Decide

-----------------------------------------------------------------------------
Execute == \E i \in 1..Len(wire) : RedisExecutes(i) /\ UNCHANGED <<allowVars, history>>

Refuse ==
  /\ "refuse" \in MayFail
  /\ \E i \in 1..Len(wire) : RedisRefuses(i)
  /\ UNCHANGED <<allowVars, history>>

Break == "break" \in MayFail /\ ConnectionBreaks /\ UNCHANGED <<allowVars, history>>

OrphanRuns ==
  /\ \E c \in orphans : OrphanExecutes(c) \/ OrphanIsLost(c)
  /\ UNCHANGED <<allowVars, history>>

(* One tick: keys come closer to their end, connections grow older.         *)
Tick ==
  /\ KeysAge
  /\ recent' = [c \in Keys |-> [g \in Ages |-> IF g = 0 THEN 0 ELSE recent[c][g - 1]]]
  /\ UNCHANGED <<allowVars, verdict, uncounted>>

Next ==
  \/ \E c \in Keys : Connect(c)
  \/ ListenerStep
  \/ Execute \/ Refuse \/ Break \/ OrphanRuns
  \/ Tick

Spec == Init /\ [][Next]_vars

(* The listener runs, redis answers, and time passes.                       *)
FairSpec ==
  Spec /\ WF_vars(ListenerStep) /\ WF_vars(Execute) /\ WF_vars(Tick)

-----------------------------------------------------------------------------
(* The connections of the last n ticks, by n.                               *)
Sums(f) ==
  LET sum[n \in 0..ReqPeriod] == IF n = 0 THEN 0 ELSE sum[n - 1] + f[n - 1]
  IN  sum

Window(c) == Sums(recent[c])[ReqPeriod]

(* In no REQPERIOD ticks are more than twice REQCOUNT connections accepted  *)
(* from an address: REQCOUNT on a counter that is about to expire and       *)
(* REQCOUNT on the next (check_ip and save_ip), also when the counter       *)
(* expires between the two and when redis is lost on the way.  Whoever      *)
(* exceeds that is an address whose count redis has refused to write:       *)
(* save_ip looks at no error reply.                                         *)
OnlyRefusedCountsExceed ==
  \A c \in Keys \ {Localhost} : Window(c) > 2 * ReqCount => c \in uncounted

(* Counted connections were accepted: a counter that expires never stands   *)
(* above the number of connections accepted from its address in the last    *)
(* REQPERIOD ticks (save_ip runs only after check_ip has let the address    *)
(* in).  Not claimed while that address is being decided on, once the       *)
(* connection to redis is lost, or for a counter that INCR has made anew,   *)
(* which never expires.                                                     *)
CountsOnlyAccepted ==
  \A c \in Keys :
    Alive /\ Exists(db, c) /\ (pc = "idle" \/ ip # c) /\ db[c].ttl > 0 =>
      db[c].val <= Window(c)

-----------------------------------------------------------------------------
(* Why they hold: the inductive invariant.  A counter with ttl ticks to go  *)
(* was made ReqPeriod - ttl ticks ago.  What was accepted after that tick   *)
(* is in it, and what is in it was accepted in that tick or after; what was *)
(* accepted earlier is in counters that have ended, of which one can reach  *)
(* into the window.                                                         *)

Value(c)  == IF Exists(db, c) THEN db[c].val ELSE 0
Age(c)    == ReqPeriod - db[c].ttl

(* check_ip has let the address in; its count is in redis, but not yet in   *)
(* the history.                                                             *)
Passed(c)  == ip = c /\ retval /\ pc \in {"save", "savereply", "unlock", "decide"}
Counted(c) ==
  /\ ip = c /\ retval
  /\ \/ pc \in {"unlock", "decide"}
     \/ pc = "savereply" /\ Answered /\ Head(wire).reply.type # "ERROR"

OneIf(b) == IF b THEN 1 ELSE 0

CounterInv ==
  db \in [Keys -> [val: 1..ReqCount, ttl: 0..ReqPeriod] \cup {NoEntry}]

(* While there is a connection to redis.                                    *)
UpperInv(c) ==
  c \notin uncounted =>
    /\ Window(c) + OneIf(Counted(c)) <= Value(c) + ReqCount
    /\ Exists(db, c) /\ db[c].ttl > 0 =>
         Sums(recent[c])[Age(c)] + OneIf(Counted(c)) <= db[c].val

LowerInv(c) ==
  Exists(db, c) /\ db[c].ttl > 0 =>
    db[c].val <= Sums(recent[c])[Age(c) + 1] + OneIf(Counted(c))

(* What check_ip has seen only gets less until save_ip has counted.         *)
RoomInv ==
  /\ pc = "getreply" /\ Answered =>
       LET r == Head(wire).reply
       IN  /\ r.type = "NIL" => ~Exists(db, ip)
           /\ r.type = "STRING" =>
                r.val \in 1..ReqCount /\ (Exists(db, ip) => db[ip].val = r.val)
  /\ pc \in {"save", "savereply"} => retval
  /\ pc \in {"save", "savereply"} /\ ~Counted(ip) /\ Exists(db, ip) =>
       found /\ db[ip].val < ReqCount

(* Without a connection at most the one that passed is still accepted.      *)
LastInv(c) == c \notin uncounted => Window(c) + OneIf(Passed(c)) <= 2 * ReqCount

WireInv ==
  wire # <<>> =>
    /\ wire = <<[by |-> Listener, reply |-> wire[1].reply,
                 cmd |-> IF pc = "getreply" THEN Get(ip) ELSE CountCommand]>>
    /\ wire[1].reply \in Reply \cup {Pending}
    /\ pc \in {"getreply", "savereply"}
    /\ Alive

(* At most one count is left in redis' input.                               *)
OrphanInv ==
  /\ Alive => orphans = {}
  /\ \A a, b \in orphans : a = b
  /\ \A a \in orphans :
       \E c \in Keys : a = Set(c, 1, ReqPeriod, FALSE) \/ (a = Incr(c) /\ Value(c) < ReqCount)

TypeInv ==
  /\ multithreaded \in BOOLEAN
  /\ owner \in Threads \cup {NoOwner}
  /\ ctx \in {"none", "ok", "err"} /\ link \in {"up", "down"}
  /\ pc \in {"idle", "lock", "get", "getreply", "save", "savereply", "unlock", "decide"}
  /\ ip \in Keys
  /\ pc # "idle" => ip # Localhost
  /\ retval \in BOOLEAN /\ found \in BOOLEAN /\ shutdown \in BOOLEAN
  /\ verdict \in [Keys -> {"none", "accept", "deny"}]
  /\ recent \in [Keys -> [Ages -> 0..RecentBound]]
  /\ uncounted \subseteq Keys \ {Localhost}

IInv ==
  /\ TypeInv /\ CounterInv /\ WireInv /\ OrphanInv
  /\ IF Alive THEN RoomInv /\ \A c \in Keys : UpperInv(c) /\ LowerInv(c)
              ELSE \A c \in Keys : LastInv(c)

-----------------------------------------------------------------------------
(* An address that keeps connecting is accepted again and again             *)
(* (README.md:68-71: REQPERIOD and REQCOUNT "will allow each IP address" so *)
(* many connections in a window; check_ip denies only on a full counter).   *)
NeverLockedOut ==
  \A c \in Keys :
    []<><<Connect(c)>>_vars => []<>(verdict[c] = "accept")

(* redis answers, without an error, and the counter of the address has an   *)
(* end.                                                                     *)
Serving(c) ==
  /\ Alive
  /\ Answered => Head(wire).reply.type # "ERROR"
  /\ Exists(db, c) => db[c].ttl > 0

(* Nothing else locks an address out: while the server has its redis, redis *)
(* refuses nothing and no counter of the address has lost its time to live  *)
(* (the INCR of save_ip on a key that has expired since check_ip saw it),   *)
(* an address that keeps connecting is accepted again and again, however    *)
(* its counter fills and expires in between.                                *)
OnlyLastingCountersLockOut ==
  \A c \in Keys :
    /\ []<><<Connect(c)>>_vars
    /\ []Serving(c)
    => []<>(verdict[c] = "accept")
=============================================================================
