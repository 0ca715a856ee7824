------------------------- MODULE WebstoreConnProofs -------------------------
(***************************************************************************)
(* Proofs about WebstoreConn, for any addresses, any REQPERIOD and         *)
(* REQCOUNT, any number of connections and failures at any point.          *)
(***************************************************************************)
EXTENDS WebstoreConn, WellFoundedInduction, TLAPS

-----------------------------------------------------------------------------
(* Sums.                                                                    *)

(* Induction, on a set of numbers: one that has 0 and the successor of each *)
(* of its numbers below m has all numbers up to m.                          *)
LEMMA Reaches ==
  ASSUME NEW m \in Nat, NEW S, 0 \in S, \A n \in 0..m : n \in S /\ n < m => n + 1 \in S
  PROVE  0..m \subseteq S
<1> DEFINE T == {n \in Nat : n <= m /\ n \notin S}
<1> SUFFICES ASSUME T # {} PROVE FALSE OBVIOUS
<1>1. T \subseteq Nat OBVIOUS
<1>2. \E n \in T : \A k \in T : ~(<<k, n>> \in OpToRel(<, Nat))
  <2> HIDE DEF T
  <2> QED BY <1>1, NatLessThanWellFounded, WFMin
<1>3. PICK n \in T : \A k \in T : ~(<<k, n>> \in OpToRel(<, Nat)) BY <1>2
<1>4. \A k \in T : ~(k < n) BY <1>1, <1>3 DEF OpToRel
<1>5. n # 0 /\ n - 1 \in Nat /\ n - 1 < n /\ n - 1 \notin T /\ n <= m BY <1>4
<1>6. n - 1 \in S /\ n - 1 \in 0..m BY <1>5
<1> QED BY <1>5, <1>6

(* There is a function that adds up (Sums is not empty words).              *)
LEMMA SumsExist ==
  ASSUME NEW f
  PROVE  \E h : h = [n \in 0..ReqPeriod |-> IF n = 0 THEN 0 ELSE h[n - 1] + f[n - 1]]
<1> USE AllowIpAssumption
<1> DEFINE Adds(h, m) ==
             DOMAIN h = 0..m /\ \A n \in 0..m : h[n] = IF n = 0 THEN 0 ELSE h[n - 1] + f[n - 1]
           S == {m \in 0..ReqPeriod : \E h : h = [n \in 0..m |-> h[n]] /\ Adds(h, m)}
<1>1. 0 \in S
  <2> DEFINE h == [n \in 0..0 |-> 0]
  <2>1. h = [n \in 0..0 |-> h[n]] /\ Adds(h, 0) OBVIOUS
  <2> HIDE DEF h
  <2> QED BY <2>1
<1>2. ASSUME NEW m \in 0..ReqPeriod, m \in S, m < ReqPeriod PROVE m + 1 \in S
  <2>1. PICK h : Adds(h, m) BY <1>2
  <2> DEFINE g == [n \in 0..(m + 1) |-> IF n = m + 1 THEN h[m] + f[m] ELSE h[n]]
  <2>2. \A n \in 0..m : h[n] = IF n = 0 THEN 0 ELSE h[n - 1] + f[n - 1] BY <2>1
  <2>3. \A n \in 0..(m + 1) : g[n] = IF n = 0 THEN 0 ELSE g[n - 1] + f[n - 1]
    <3> TAKE n \in 0..(m + 1)
    <3>1. CASE n = m + 1 BY <3>1
    <3>2. CASE n # m + 1 /\ n # 0 BY <2>2, <3>2
    <3>3. CASE n = 0 BY <2>2, <3>3
    <3> QED BY <3>1, <3>2, <3>3
  <2>4. DOMAIN g = 0..(m + 1) /\ g = [n \in 0..(m + 1) |-> g[n]] OBVIOUS
  <2> HIDE DEF g
  <2>5. m + 1 \in 0..ReqPeriod BY <1>2
  <2> QED BY <2>3, <2>4, <2>5
<1>3. ReqPeriod \in S
  <2> HIDE DEF S
  <2>1. 0..ReqPeriod \subseteq S BY <1>1, <1>2, Reaches
  <2> QED BY <2>1
<1>4. PICK h : h = [n \in 0..ReqPeriod |-> h[n]] /\ Adds(h, ReqPeriod) BY <1>3
<1>5. \A n \in 0..ReqPeriod : h[n] = IF n = 0 THEN 0 ELSE h[n - 1] + f[n - 1] BY <1>4
<1>6. h = [n \in 0..ReqPeriod |-> IF n = 0 THEN 0 ELSE h[n - 1] + f[n - 1]]
  BY <1>4, <1>5
<1> QED BY <1>6

(* What Sums(f) is at each place.                                           *)
LEMMA SumsAt ==
  ASSUME NEW f
  PROVE  /\ Sums(f)[0] = 0
         /\ \A n \in 1..ReqPeriod : Sums(f)[n] = Sums(f)[n - 1] + f[n - 1]
<1> DEFINE sum[n \in 0..ReqPeriod] == IF n = 0 THEN 0 ELSE sum[n - 1] + f[n - 1]
<1>1. sum = [n \in 0..ReqPeriod |-> IF n = 0 THEN 0 ELSE sum[n - 1] + f[n - 1]]
  BY SumsExist
<1>2. Sums(f) = sum BY DEF Sums
<1> HIDE DEF sum
<1>3. \A n \in 0..ReqPeriod : sum[n] = IF n = 0 THEN 0 ELSE sum[n - 1] + f[n - 1]
  BY <1>1
<1> QED BY <1>2, <1>3, AllowIpAssumption

(* Sums of numbers are numbers, and longer sums are no smaller.             *)
LEMMA SumsGrow ==
  ASSUME NEW f \in [Ages -> Nat]
  PROVE  /\ \A n \in 0..ReqPeriod : Sums(f)[n] \in Nat
         /\ \A n \in 1..ReqPeriod : Sums(f)[n - 1] <= Sums(f)[n] /\ f[0] <= Sums(f)[n]
         /\ \A n \in 0..ReqPeriod : Sums(f)[n] <= Sums(f)[ReqPeriod]
<1> USE AllowIpAssumption DEF Ages
<1> DEFINE s == Sums(f)
<1>0. s[0] = 0 /\ \A n \in 1..ReqPeriod : s[n] = s[n - 1] + f[n - 1] BY SumsAt
<1> HIDE DEF s
<1>1. \A n \in 0..ReqPeriod : s[n] \in Nat
  <2> DEFINE S == {n \in 0..ReqPeriod : s[n] \in Nat}
  <2>1. 0 \in S BY <1>0
  <2>2. ASSUME NEW n \in 0..ReqPeriod, n \in S, n < ReqPeriod PROVE n + 1 \in S
    BY <1>0, <2>2
  <2> HIDE DEF S
  <2>3. 0..ReqPeriod \subseteq S BY <2>1, <2>2, Reaches
  <2> QED BY <2>3 DEF S
<1>2. \A n \in 1..ReqPeriod : s[n - 1] <= s[n] BY <1>0, <1>1
<1>3. \A n \in 1..ReqPeriod : f[0] <= s[n]
  <2> DEFINE S == {n \in 0..ReqPeriod : n = 0 \/ f[0] <= s[n]}
  <2>1. 0 \in S OBVIOUS
  <2>2. ASSUME NEW n \in 0..ReqPeriod, n \in S, n < ReqPeriod PROVE n + 1 \in S
    <3>1. s[n + 1] = s[n] + f[n] /\ s[n] \in Nat /\ f[n] \in Nat BY <1>0, <1>1, <2>2
    <3> QED BY <1>0, <2>2, <3>1
  <2> HIDE DEF S
  <2>3. 0..ReqPeriod \subseteq S BY <2>1, <2>2, Reaches
  <2> QED BY <2>3 DEF S
<1>4. \A n \in 0..ReqPeriod : s[n] <= s[ReqPeriod]
  <2> TAKE m \in 0..ReqPeriod
  <2> DEFINE S == {n \in 0..ReqPeriod : n >= m => s[m] <= s[n]}
  <2>1. 0 \in S BY <1>1
  <2>2. ASSUME NEW n \in 0..ReqPeriod, n \in S, n < ReqPeriod PROVE n + 1 \in S
    <3>1. s[n] <= s[n + 1] /\ s[n] \in Nat /\ s[n + 1] \in Nat /\ s[m] \in Nat
      BY <1>1, <1>2, <2>2
    <3> QED BY <2>2, <3>1
  <2> HIDE DEF S
  <2>3. 0..ReqPeriod \subseteq S BY <2>1, <2>2, Reaches
  <2> QED BY <2>3 DEF S
<1> QED BY <1>1, <1>2, <1>3, <1>4 DEF s

(* A tick: all connections are one tick older, the oldest are forgotten.    *)
LEMMA SumsAge ==
  ASSUME NEW f \in [Ages -> Nat], NEW g,
         g = [a \in Ages |-> IF a = 0 THEN 0 ELSE f[a - 1]]
  PROVE  \A n \in 1..ReqPeriod : Sums(g)[n] = Sums(f)[n - 1]
<1> USE AllowIpAssumption DEF Ages
<1> DEFINE s == Sums(f)
           t == Sums(g)
           S == {n \in 0..ReqPeriod : n = 0 \/ t[n] = s[n - 1]}
<1>0. /\ s[0] = 0 /\ \A n \in 1..ReqPeriod : s[n] = s[n - 1] + f[n - 1]
      /\ t[0] = 0 /\ \A n \in 1..ReqPeriod : t[n] = t[n - 1] + g[n - 1]
  BY SumsAt
<1> HIDE DEF s, t
<1>1. 0 \in S OBVIOUS
<1>2. ASSUME NEW n \in 0..ReqPeriod, n \in S, n < ReqPeriod PROVE n + 1 \in S
  <2>1. CASE n = 0
    <3>1. t[1] = t[0] + g[0] /\ g[0] = 0 BY <1>0
    <3>2. t[1] = s[0] BY <1>0, <3>1
    <3> QED BY <1>2, <2>1, <3>2
  <2>2. CASE n # 0
    <3>1. t[n + 1] = t[n] + g[n] /\ g[n] = f[n - 1] BY <1>0, <1>2, <2>2
    <3>2. t[n] = s[n - 1] /\ s[n] = s[n - 1] + f[n - 1] BY <1>0, <1>2, <2>2
    <3> QED BY <1>2, <2>2, <3>1, <3>2
  <2> QED BY <2>1, <2>2
<1> HIDE DEF S
<1>3. 0..ReqPeriod \subseteq S BY <1>1, <1>2, Reaches
<1> QED BY <1>3 DEF S, s, t

(* A connection more, in this tick.                                         *)
LEMMA SumsPlus ==
  ASSUME NEW f \in [Ages -> Nat], NEW x \in Nat
  PROVE  /\ Sums([f EXCEPT ![0] = x])[0] = 0
         /\ \A n \in 1..ReqPeriod : Sums([f EXCEPT ![0] = x])[n] = Sums(f)[n] + x - f[0]
<1> USE AllowIpAssumption DEF Ages
<1> DEFINE g == [f EXCEPT ![0] = x]
           s == Sums(f)
           t == Sums(g)
           S == {n \in 0..ReqPeriod : n = 0 \/ t[n] = s[n] + x - f[0]}
<1>0. /\ s[0] = 0 /\ \A n \in 1..ReqPeriod : s[n] = s[n - 1] + f[n - 1]
      /\ t[0] = 0 /\ \A n \in 1..ReqPeriod : t[n] = t[n - 1] + g[n - 1]
  BY SumsAt
<1>a. \A n \in 0..ReqPeriod : s[n] \in Nat BY SumsGrow
<1>b. g[0] = x /\ \A a \in Ages \ {0} : g[a] = f[a] OBVIOUS
<1> HIDE DEF s, t, g
<1>1. 0 \in S OBVIOUS
<1>2. ASSUME NEW n \in 0..ReqPeriod, n \in S, n < ReqPeriod PROVE n + 1 \in S
  <2>1. CASE n = 0
    <3>1. t[1] = t[0] + g[0] /\ s[1] = s[0] + f[0] BY <1>0
    <3>2. f[0] \in Nat OBVIOUS
    <3>3. t[1] = s[1] + x - f[0] BY <1>0, <1>b, <3>1, <3>2
    <3> QED BY <1>2, <2>1, <3>3
  <2>2. CASE n # 0
    <3>0. n + 1 \in 1..ReqPeriod /\ (n + 1) - 1 = n /\ n \in Ages \ {0} BY <1>2, <2>2
    <3>1. t[n + 1] = t[n] + f[n] /\ s[n + 1] = s[n] + f[n] BY <1>0, <1>b, <3>0
    <3>2. t[n] = s[n] + x - f[0] /\ f[n] \in Nat /\ f[0] \in Nat /\ s[n] \in Nat
      BY <1>2, <1>a, <2>2
    <3>3. t[n + 1] = s[n + 1] + x - f[0] BY <3>1, <3>2
    <3> QED BY <1>2, <3>3
  <2> QED BY <2>1, <2>2
<1> HIDE DEF S
<1>3. 0..ReqPeriod \subseteq S BY <1>1, <1>2, Reaches
<1>4. t[0] = 0 /\ \A n \in 1..ReqPeriod : t[n] = s[n] + x - f[0] BY <1>0, <1>3 DEF S
<1> QED BY <1>4 DEF s, t, g

(* Nothing adds up to nothing.                                              *)
LEMMA SumsNone ==
  \A n \in 0..ReqPeriod : Sums([a \in Ages |-> 0])[n] = 0
<1> USE AllowIpAssumption DEF Ages
<1> DEFINE f == [a \in Ages |-> 0]
           s == Sums(f)
           S == {n \in 0..ReqPeriod : s[n] = 0}
<1>0. s[0] = 0 /\ \A n \in 1..ReqPeriod : s[n] = s[n - 1] + f[n - 1] BY SumsAt
<1>1. \A a \in Ages : f[a] = 0 OBVIOUS
<1> HIDE DEF s, f
<1>2. 0 \in S BY <1>0
<1>3. ASSUME NEW n \in 0..ReqPeriod, n \in S, n < ReqPeriod PROVE n + 1 \in S
  BY <1>0, <1>1, <1>3
<1> HIDE DEF S
<1>4. 0..ReqPeriod \subseteq S BY <1>2, <1>3, Reaches
<1> QED BY <1>4 DEF S, s, f

-----------------------------------------------------------------------------
(* The connection to redis.                                                 *)

(* What check_ip and save_ip wait for.                                      *)
Awaited == IF pc = "getreply" THEN Get(ip) ELSE CountCommand

(* One command at most is on the wire, the one that allow_ip waits for.     *)
LEMMA OneOnWire ==
  ASSUME WireInv, wire # <<>>
  PROVE  /\ Len(wire) = 1 /\ Head(wire) = wire[1] /\ Tail(wire) = <<>>
         /\ wire[1].by = Listener /\ wire[1].cmd = Awaited
         /\ wire[1].reply \in Reply \cup {Pending}
         /\ wire = <<[by |-> Listener, reply |-> wire[1].reply, cmd |-> Awaited]>>
         /\ pc \in {"getreply", "savereply"} /\ Alive
<1> DEFINE it == [by |-> Listener, reply |-> wire[1].reply, cmd |-> Awaited]
<1>1. wire = <<it>> /\ wire[1].reply \in Reply \cup {Pending}
      /\ pc \in {"getreply", "savereply"} /\ Alive
  BY DEF WireInv, Awaited
<1>2. wire[1] = it /\ Len(wire) = 1 /\ Head(wire) = it /\ Tail(wire) = <<>>
  <2> HIDE DEF it
  <2> QED BY <1>1
<1>3. it.by = Listener /\ it.cmd = Awaited OBVIOUS
<1> QED
  <2> HIDE DEF it
  <2>1. wire[1].by = Listener /\ wire[1].cmd = Awaited BY <1>2, <1>3
  <2> QED BY <1>1, <1>2, <2>1 DEF it

(* allow_ip sends over an empty wire.                                       *)
LEMMA Sending ==
  ASSUME WireInv, pc \notin {"getreply", "savereply"}, NEW c, Send(Listener, c)
  PROVE  /\ wire = <<>> /\ ~Answered'
         /\ \/ ~Alive /\ wire' = <<>>
            \/ /\ Alive
               /\ wire' = <<[by |-> Listener, reply |-> Pending, cmd |-> c]>>
               /\ wire'[1].reply = Pending
<1>1. wire = <<>> BY DEF WireInv
<1>2. CASE ~Alive BY <1>1, <1>2 DEF Send, Answered
<1>3. CASE Alive
  <2> DEFINE it == [by |-> Listener, cmd |-> c, reply |-> Pending]
  <2>1. wire' = <<it>> BY <1>1, <1>3 DEF Send
  <2>2. wire'[1] = it /\ Head(wire') = it
    <3> HIDE DEF it
    <3> QED BY <2>1
  <2>3. it.reply = Pending /\ it = [by |-> Listener, reply |-> Pending, cmd |-> c] OBVIOUS
  <2>4. wire'[1].reply = Pending /\ Head(wire').reply = Pending
    <3> HIDE DEF it
    <3> QED BY <2>2, <2>3
  <2>5. ~Answered' BY <2>4 DEF Answered
  <2>6. wire' = <<[by |-> Listener, reply |-> Pending, cmd |-> c]>>
    <3> HIDE DEF it
    <3> QED BY <2>1, <2>3
  <2> QED BY <1>1, <1>3, <2>4, <2>5, <2>6
<1> QED BY <1>2, <1>3

(* redis answers the one command on the wire.                               *)
LEMMA Answering ==
  ASSUME WireInv, NEW i \in 1..Len(wire), NEW r, r # Pending,
         FirstPending(i), wire' = [wire EXCEPT ![i].reply = r]
  PROVE  /\ i = 1 /\ wire # <<>> /\ ~Answered /\ Alive
         /\ wire[i].cmd = Awaited /\ pc \in {"getreply", "savereply"}
         /\ wire' = <<[by |-> Listener, reply |-> r, cmd |-> Awaited]>>
         /\ wire'[1].reply = r /\ Head(wire').reply = r /\ Answered' /\ wire' # <<>>
<1>0. wire # <<>> OBVIOUS
<1>a. /\ Len(wire) = 1 /\ Head(wire) = wire[1] /\ wire[1].cmd = Awaited /\ Alive
      /\ pc \in {"getreply", "savereply"}
  BY <1>0, OneOnWire
<1>b. wire = <<[by |-> Listener, reply |-> wire[1].reply, cmd |-> Awaited]>>
  BY <1>0, OneOnWire
<1>1. /\ i = 1 /\ Head(wire) = wire[1] /\ wire[1].cmd = Awaited /\ Alive
      /\ pc \in {"getreply", "savereply"}
  BY <1>a
<1>2. ~Answered
  <2>1. Head(wire) = wire[1] /\ i = 1 BY <1>1
  <2>2. wire[1].reply = Pending BY <2>1 DEF FirstPending
  <2> QED BY <2>1, <2>2 DEF Answered
<1> DEFINE it == [by |-> Listener, reply |-> wire[1].reply, cmd |-> Awaited]
           new == [by |-> Listener, reply |-> r, cmd |-> Awaited]
<1>3. wire = <<it>> BY <1>b
<1>4. [it EXCEPT !.reply = r] = new /\ new.reply = r OBVIOUS
<1>5. wire' = [<<it>> EXCEPT ![1] = [it EXCEPT !.reply = r]]
  <2>1. it = wire[1] BY <1>3
  <2> HIDE DEF it
  <2> QED BY <1>1, <1>3, <2>1
<1>6. wire' = <<new>> /\ wire'[1] = new /\ Head(wire') = new /\ wire' # <<>>
  <2> HIDE DEF it, new
  <2> QED BY <1>4, <1>5
<1>7. wire'[1].reply = r /\ Head(wire').reply = r
  <2> HIDE DEF new
  <2> QED BY <1>4, <1>6
<1> QED BY <1>0, <1>1, <1>2, <1>6, <1>7 DEF Answered

(* Receiving takes the reply off the wire.                                  *)
LEMMA Receiving ==
  ASSUME WireInv, Receive
  PROVE  /\ wire' = <<>> /\ Alive /\ Answered /\ ~Answered'
         /\ Head(wire) = wire[1] /\ Head(wire).reply \in Reply
         /\ pc \in {"getreply", "savereply"}
<1>1. Alive /\ Answered /\ wire # <<>> /\ wire' = Tail(wire) BY DEF Receive, Answered
<1>2. wire' = <<>> /\ Head(wire) = wire[1] /\ wire[1].reply \in Reply \cup {Pending}
      /\ pc \in {"getreply", "savereply"}
  BY <1>1, OneOnWire
<1> QED BY <1>1, <1>2 DEF Answered

-----------------------------------------------------------------------------
(* The inductive invariant holds at the start.                              *)
LEMMA InitIInv == Init => IInv
<1> SUFFICES ASSUME Init PROVE IInv OBVIOUS
<1> USE AllowIpAssumption DEF Init, AllowInit, RaiInit, NoDecision
<1>0. \A c \in Keys : recent[c] = [g \in Ages |-> 0] /\ ~Exists(db, c) /\ Value(c) = 0
  BY DEF EmptyDb, Exists, Value
<1>1. TypeInv
  <2>1. recent \in [Keys -> [Ages -> 0..RecentBound]] BY DEF RecentBound
  <2> QED BY <2>1 DEF TypeInv
<1>2. CounterInv BY DEF CounterInv, EmptyDb
<1>3. WireInv BY DEF WireInv
<1>4. OrphanInv BY DEF OrphanInv
<1>5. RoomInv BY DEF RoomInv
<1>6. ASSUME NEW c \in Keys PROVE UpperInv(c) /\ LowerInv(c)
  <2>1. Window(c) = 0 BY <1>0, SumsNone DEF Window
  <2>2. ~Counted(c) BY DEF Counted
  <2> QED BY <1>0, <2>1, <2>2 DEF UpperInv, LowerInv, OneIf
<1>7. Alive BY DEF Alive
<1> QED BY <1>1, <1>2, <1>3, <1>4, <1>5, <1>6, <1>7 DEF IInv

-----------------------------------------------------------------------------
(* One step: the types.                                                     *)

(* No step takes a variable out of its set.                                 *)
LEMMA TypeStep ==
  ASSUME TypeInv, [Next]_vars
  PROVE  TypeInv'
<1> USE AllowIpAssumption DEF TypeInv, allowVars, history, raiVars
<1>1. CASE \E c \in Keys : Connect(c)
  <2>1. PICK c \in Keys : Connect(c) BY <1>1
  <2>2. verdict' \in [Keys -> {"none", "accept", "deny"}] BY <2>1 DEF Connect
  <2>3. CASE c = Localhost BY <2>1, <2>2, <2>3 DEF Connect, ws_addr_check
  <2>4. CASE c # Localhost BY <2>1, <2>2, <2>4 DEF Connect, ws_addr_check
  <2> QED BY <2>3, <2>4
<1>2. CASE Judge
  <2>0. UNCHANGED <<verdict, recent, ip, multithreaded, link>> /\ allow_ip
    BY <1>2 DEF Judge, allow_ip, LockRai, SendGet, CheckCount, CheckLost, SendCount, CountReply,
                CountLost, UnlockRai
  <2>1. uncounted' \subseteq Keys \ {Localhost}
    <3>1. CASE pc = "savereply" BY <1>2, <3>1 DEF Judge
    <3>2. CASE pc # "savereply" BY <1>2, <3>2 DEF Judge
    <3> QED BY <3>1, <3>2
  <2>2. pc' # "idle" /\ pc # "idle" /\ pc' \in {"get", "getreply", "save", "savereply", "unlock", "decide"}
    BY <2>0 DEF allow_ip, LockRai, SendGet, CheckCount, CheckLost, SendCount, CountReply,
                CountLost, UnlockRai
  <2>3. ctx' \in {"none", "ok", "err"} /\ shutdown' \in BOOLEAN
    BY <2>0 DEF allow_ip, LockRai, SendGet, CheckCount, CheckLost, SendCount, CountReply,
                CountLost, UnlockRai, ReceiveNull
  <2>4. owner' \in Threads \cup {NoOwner}
    <3>1. CASE LockRai BY <3>1 DEF LockRai, rai_lock
    <3>2. CASE UnlockRai BY <3>2 DEF UnlockRai, rai_unlock
    <3>3. CASE ~LockRai /\ ~UnlockRai
      BY <2>0, <3>3 DEF allow_ip, SendGet, CheckCount, CheckLost, SendCount, CountReply, CountLost
    <3> QED BY <3>1, <3>2, <3>3
  <2>5. retval' \in BOOLEAN /\ found' \in BOOLEAN
    <3>1. CASE CheckCount
      <4> DEFINE r == Head(wire).reply
                 pass == r.type = "NIL" \/ (r.type = "STRING" /\ r.val < ReqCount)
                 was  == r.type = "STRING"
      <4>1. retval' = pass /\ found' = was BY <3>1 DEF CheckCount
      <4>2. pass \in BOOLEAN /\ was \in BOOLEAN OBVIOUS
      <4> HIDE DEF pass, was
      <4> QED BY <4>1, <4>2
    <3>2. CASE ~CheckCount
      BY <2>0, <3>2 DEF allow_ip, LockRai, SendGet, CheckLost, SendCount, CountReply, CountLost,
                        UnlockRai
    <3> QED BY <3>1, <3>2
  <2> QED BY <2>0, <2>1, <2>2, <2>3, <2>4, <2>5
<1>3. CASE Decide
  <2>1. verdict' \in [Keys -> {"none", "accept", "deny"}] BY <1>3 DEF Decide
  <2>2. recent' \in [Keys -> [Ages -> 0..RecentBound]]
    <3>1. CASE retval
      <4> DEFINE f == recent[ip]
                 x == IF f[0] < RecentBound THEN f[0] + 1 ELSE f[0]
      <4>1. recent' = [recent EXCEPT ![ip] = [f EXCEPT ![0] = x]]
        BY <1>3, <3>1 DEF Decide
      <4>2. f \in [Ages -> 0..RecentBound] /\ 0 \in Ages BY DEF Ages
      <4>3. x \in 0..RecentBound
        <5>1. f[0] \in 0..RecentBound /\ RecentBound \in Nat BY <4>2 DEF RecentBound
        <5> HIDE DEF f
        <5> QED BY <5>1
      <4>4. [f EXCEPT ![0] = x] \in [Ages -> 0..RecentBound]
        <5> HIDE DEF f, x
        <5> QED BY <4>2, <4>3
      <4> HIDE DEF f, x
      <4> QED BY <4>1, <4>4
    <3>2. CASE ~retval BY <1>3, <3>2 DEF Decide
    <3> QED BY <3>1, <3>2
  <2> QED BY <1>3, <2>1, <2>2 DEF Decide, Answer, ForgetDecision
<1>4. CASE Execute BY <1>4 DEF Execute, RedisExecutes
<1>5. CASE Refuse BY <1>5 DEF Refuse, RedisRefuses
<1>6. CASE Break BY <1>6 DEF Break, ConnectionBreaks
<1>7. CASE OrphanRuns BY <1>7 DEF OrphanRuns, OrphanExecutes, OrphanIsLost
<1>8. CASE Tick
  <2>1. recent' \in [Keys -> [Ages -> 0..RecentBound]]
    <3>1. \A c \in Keys : [g \in Ages |-> IF g = 0 THEN 0 ELSE recent[c][g - 1]]
                            \in [Ages -> 0..RecentBound]
      BY DEF Ages, RecentBound
    <3> QED BY <1>8, <3>1 DEF Tick
  <2> QED BY <1>8, <2>1 DEF Tick, KeysAge
<1>9. CASE UNCHANGED vars BY <1>9 DEF vars
<1> QED BY <1>1, <1>2, <1>3, <1>4, <1>5, <1>6, <1>7, <1>8, <1>9 DEF Next, ListenerStep

-----------------------------------------------------------------------------
(* One step: the connection and the counters.                               *)

(* What a counter is.                                                       *)
LEMMA Entries ==
  ASSUME CounterInv, NEW k \in Keys
  PROVE  /\ Exists(db, k) => db[k] \in [val: 1..ReqCount, ttl: 0..ReqPeriod] /\ Value(k) = db[k].val
         /\ ~Exists(db, k) => db[k] = NoEntry /\ Value(k) = 0
         /\ Value(k) \in 0..ReqCount
<1>1. db[k] \in [val: 1..ReqCount, ttl: 0..ReqPeriod] \cup {NoEntry} BY DEF CounterInv
<1>2. CASE Exists(db, k) BY <1>1, <1>2, AllowIpAssumption DEF Exists, Value
<1>3. CASE ~Exists(db, k) BY <1>3, AllowIpAssumption DEF Exists, Value
<1> QED BY <1>2, <1>3

(* A count is no "no counter".                                              *)
LEMMA CountsExist ==
  ASSUME NEW v \in 1..ReqCount, NEW t \in 0..ReqPeriod
  PROVE  [val |-> v, ttl |-> t] # NoEntry
<1>1. [val |-> v, ttl |-> t] \in [val: Vals, ttl: Nat] BY AllowIpAssumption
<1> QED BY <1>1, RedisAssumption

(* What redis answers is a reply.                                           *)
LEMMA Answers ==
  ASSUME TypeInv, CounterInv
  PROVE  ReplyTo(db, Awaited) \in Reply /\ ReplyTo(db, Awaited).type # "ERROR"
<1>1. CASE pc = "getreply"
  <2>1. Awaited = Get(ip) /\ Awaited.op = "GET" /\ Awaited.key = ip BY <1>1 DEF Awaited, Get
  <2>2. CASE Exists(db, ip)
    <3>1. db[ip].val \in Vals BY <2>2, Entries, AllowIpAssumption DEF TypeInv
    <3>2. ReplyTo(db, Awaited) = [type |-> "STRING", val |-> db[ip].val]
      BY <2>1, <2>2 DEF ReplyTo
    <3> QED BY <3>1, <3>2 DEF Reply, ReplyType
  <2>3. CASE ~Exists(db, ip)
    <3>1. ReplyTo(db, Awaited) = Plain("NIL") BY <2>1, <2>3 DEF ReplyTo
    <3> QED BY <3>1 DEF Reply, ReplyType, Plain
  <2> QED BY <2>2, <2>3
<1>2. CASE pc # "getreply"
  <2>1. Awaited.op \in {"SET", "INCR"} BY <1>2 DEF Awaited, CountCommand, Set, Incr
  <2>2. ReplyTo(db, Awaited) \in {Plain("STATUS"), Plain("NIL"), Plain("INTEGER")}
    BY <2>1 DEF ReplyTo
  <2> QED BY <2>2 DEF Reply, ReplyType, Plain
<1> QED BY <1>1, <1>2

(* redis executes what allow_ip waits for.                                  *)
LEMMA Executing ==
  ASSUME TypeInv, CounterInv, WireInv, Execute
  PROVE  /\ ~Answered /\ Alive /\ pc \in {"getreply", "savereply"}
         /\ wire' = <<[by |-> Listener, reply |-> ReplyTo(db, Awaited), cmd |-> Awaited]>>
         /\ wire'[1].reply = ReplyTo(db, Awaited) /\ Head(wire').reply = ReplyTo(db, Awaited)
         /\ Answered' /\ db' = Effect(db, Awaited)
         /\ UNCHANGED <<owner, ctx, link, orphans, allowVars, history>>
<1>1. PICK i \in 1..Len(wire) : RedisExecutes(i) /\ UNCHANGED <<allowVars, history>>
  BY DEF Execute
<1> DEFINE r == ReplyTo(db, wire[i].cmd)
<1>2. FirstPending(i) /\ wire' = [wire EXCEPT ![i].reply = r] /\ db' = Effect(db, wire[i].cmd)
      /\ UNCHANGED <<owner, ctx, link, orphans>>
  BY <1>1 DEF RedisExecutes
<1>3. wire # <<>> OBVIOUS
<1>4. Len(wire) = 1 /\ wire[1].cmd = Awaited BY <1>3, OneOnWire
<1>5. i = 1 /\ wire[i].cmd = Awaited BY <1>4
<1>6. r = ReplyTo(db, Awaited) /\ r \in Reply /\ r # Pending BY <1>5, Answers, RaiAssumption
<1> HIDE DEF r
<1>7. /\ ~Answered /\ Alive /\ pc \in {"getreply", "savereply"}
      /\ wire' = <<[by |-> Listener, reply |-> r, cmd |-> Awaited]>>
      /\ wire'[1].reply = r /\ Head(wire').reply = r /\ Answered'
  BY <1>2, <1>6, Answering
<1> QED BY <1>1, <1>2, <1>5, <1>6, <1>7

(* redis refuses what allow_ip waits for.                                   *)
LEMMA Refusing ==
  ASSUME TypeInv, CounterInv, WireInv, Refuse
  PROVE  /\ ~Answered /\ Alive /\ pc \in {"getreply", "savereply"}
         /\ wire' = <<[by |-> Listener, reply |-> Plain("ERROR"), cmd |-> Awaited]>>
         /\ wire'[1].reply = Plain("ERROR") /\ Head(wire').reply = Plain("ERROR")
         /\ Answered'
         /\ UNCHANGED <<db, owner, ctx, link, orphans, allowVars, history>>
<1>1. PICK i \in 1..Len(wire) : RedisRefuses(i) BY DEF Refuse
<1> DEFINE r == Plain("ERROR")
<1>2. FirstPending(i) /\ wire' = [wire EXCEPT ![i].reply = r]
      /\ UNCHANGED <<db, owner, ctx, link, orphans>>
  BY <1>1 DEF RedisRefuses
<1>3. r \in Reply BY DEF Plain, Reply, ReplyType
<1>4. r # Pending BY <1>3, RaiAssumption
<1> HIDE DEF r
<1>7. /\ ~Answered /\ Alive /\ pc \in {"getreply", "savereply"}
      /\ wire' = <<[by |-> Listener, reply |-> r, cmd |-> Awaited]>>
      /\ wire'[1].reply = r /\ Head(wire').reply = r /\ Answered'
  BY <1>2, <1>4, Answering
<1> QED BY <1>2, <1>7 DEF r, Refuse

(* No step puts another command on the wire.                                *)
LEMMA WireStep ==
  ASSUME TypeInv, CounterInv, WireInv, [Next]_vars
  PROVE  WireInv'
<1> USE DEF allowVars, history, raiVars
<1>a. ASSUME wire' = <<>> PROVE WireInv' BY <1>a DEF WireInv
<1>b. ASSUME UNCHANGED <<wire, pc, ip, found, ctx, link>> PROVE WireInv'
  BY <1>b DEF WireInv, Alive, CountCommand
<1>c. pc \notin {"getreply", "savereply"} => wire = <<>> BY DEF WireInv
<1>d. ~Alive => wire = <<>> BY DEF WireInv
<1>1. CASE \E c \in Keys : Connect(c) BY <1>1, <1>a, <1>c DEF Connect, ws_addr_check
<1>2. CASE Judge
  <2>0. UNCHANGED <<ip, link>> /\ allow_ip
    BY <1>2 DEF Judge, allow_ip, LockRai, SendGet, CheckCount, CheckLost, SendCount, CountReply,
                CountLost, UnlockRai
  <2>1. CASE LockRai \/ UnlockRai BY <2>1, <1>a, <1>c DEF LockRai, UnlockRai
  <2>2. CASE CheckLost \/ CountLost
    BY <2>2, <1>a, <1>d DEF CheckLost, CountLost, ReceiveNull
  <2>3. CASE CheckCount \/ CountReply
    <3>1. Receive BY <2>3 DEF CheckCount, CountReply
    <3> QED BY <3>1, <1>a, Receiving
  <2>4. CASE SendGet \/ SendCount
    <3> DEFINE c == IF pc = "get" THEN Get(ip) ELSE CountCommand
    <3>0. /\ pc \notin {"getreply", "savereply"} /\ Send(Listener, c)
          /\ pc' \in {"getreply", "savereply"} /\ UNCHANGED <<ip, found, ctx, link>>
          /\ pc' = "getreply" <=> pc = "get"
      BY <2>4 DEF SendGet, SendCount
    <3>1. c = Awaited' BY <3>0 DEF Awaited, CountCommand
    <3>2. \/ ~Alive /\ wire' = <<>>
          \/ /\ Alive
             /\ wire' = <<[by |-> Listener, reply |-> Pending, cmd |-> c]>>
             /\ wire'[1].reply = Pending
      <4> HIDE DEF c
      <4> QED BY <3>0, Sending
    <3>3. CASE wire' = <<>> BY <3>3, <1>a
    <3>4. CASE Alive /\ wire' = <<[by |-> Listener, reply |-> Pending, cmd |-> c]>>
                     /\ wire'[1].reply = Pending
      <4>1. Alive' BY <3>0, <3>4 DEF Alive
      <4>2. wire' = <<[by |-> Listener, reply |-> wire'[1].reply, cmd |-> Awaited']>>
        <5> HIDE DEF c
        <5> QED BY <3>1, <3>4
      <4> QED BY <3>0, <3>4, <4>1, <4>2 DEF WireInv, Awaited
    <3> QED BY <3>2, <3>3, <3>4
  <2> QED BY <2>0, <2>1, <2>2, <2>3, <2>4 DEF allow_ip
<1>3. CASE Decide BY <1>3, <1>a, <1>c DEF Decide, Answer
<1>4. ASSUME NEW r, r \in Reply \cup {Pending}, wire'[1].reply = r, Alive,
             pc \in {"getreply", "savereply"},
             wire' = <<[by |-> Listener, reply |-> r, cmd |-> Awaited]>>,
             UNCHANGED <<pc, ip, found, ctx, link>>
      PROVE  WireInv'
  <2>1. Awaited' = Awaited /\ Alive' BY <1>4 DEF Awaited, CountCommand, Alive
  <2>2. wire' = <<[by |-> Listener, reply |-> wire'[1].reply, cmd |-> Awaited']>> BY <1>4, <2>1
  <2> QED BY <1>4, <2>1, <2>2 DEF WireInv, Awaited
<1>5. CASE Execute BY <1>5, <1>4, Executing, Answers
<1>6. CASE Refuse
  <2>1. Plain("ERROR") \in Reply BY DEF Plain, Reply, ReplyType
  <2> QED BY <1>6, <1>4, <2>1, Refusing
<1>7. CASE Break BY <1>7, <1>a DEF Break, ConnectionBreaks
<1>8. CASE OrphanRuns BY <1>8, <1>b DEF OrphanRuns, OrphanExecutes, OrphanIsLost
<1>9. CASE Tick BY <1>9, <1>b DEF Tick, KeysAge
<1>10. CASE UNCHANGED vars BY <1>10, <1>b DEF vars
<1> QED BY <1>1, <1>2, <1>3, <1>5, <1>6, <1>7, <1>8, <1>9, <1>10 DEF Next, ListenerStep

(* What a write of save_ip does to a counter, and to the others.            *)
LEMMA Writing ==
  ASSUME CounterInv, NEW k \in Keys, NEW c,
         \/ c = Set(k, 1, ReqPeriod, FALSE)
         \/ c = Incr(k) /\ Value(k) < ReqCount,
         db' = Effect(db, c)
  PROVE  /\ CounterInv' /\ \A j \in Keys \ {k} : db'[j] = db[j]
         /\ \/ /\ c.op = "SET"
               /\ db'[k] = [val |-> 1, ttl |-> ReqPeriod]
            \/ /\ c.op = "INCR" /\ ~Exists(db, k)
               /\ db'[k] = [val |-> 1, ttl |-> 0]
            \/ /\ c.op = "INCR" /\ Exists(db, k)
               /\ db'[k] = [val |-> db[k].val + 1, ttl |-> db[k].ttl]
         /\ Exists(db, k)'
<1> USE AllowIpAssumption
<1> DEFINE e == CASE c.op = "SET" -> [val |-> 1, ttl |-> ReqPeriod]
                  [] c.op = "INCR" /\ ~Exists(db, k) -> [val |-> 1, ttl |-> 0]
                  [] OTHER -> [val |-> db[k].val + 1, ttl |-> db[k].ttl]
<1>1. c.key = k /\ c.op \in {"SET", "INCR"} BY DEF Set, Incr
<1>2. db' = [db EXCEPT ![k] = e]
  <2>1. CASE c = Set(k, 1, ReqPeriod, FALSE)
    <3>1. c.op = "SET" /\ c.key = k /\ c.val = 1 /\ c.ttl = ReqPeriod /\ c.nx = FALSE
      BY <2>1 DEF Set
    <3>2. SetApplies(db, c) BY <3>1 DEF SetApplies
    <3> QED BY <3>1, <3>2 DEF Effect
  <2>2. CASE c = Incr(k)
    <3>1. c.op = "INCR" /\ c.key = k /\ ~SetApplies(db, c) BY <2>2 DEF Incr, SetApplies
    <3>2. db' = [db EXCEPT ![k] = Incremented(@)] BY <3>1 DEF Effect
    <3>3. CASE Exists(db, k)
      <4>1. db[k] \in [val: 1..ReqCount, ttl: 0..ReqPeriod] /\ db[k] # NoEntry
        BY <3>3, Entries DEF Exists
      <4>2. Incremented(db[k]) = [val |-> db[k].val + 1, ttl |-> db[k].ttl]
        BY <4>1 DEF Incremented
      <4> QED BY <3>1, <3>2, <3>3, <4>2
    <3>4. CASE ~Exists(db, k)
      <4>1. Incremented(db[k]) = [val |-> 1, ttl |-> 0] BY <3>4 DEF Incremented, Exists
      <4> QED BY <3>1, <3>2, <3>4, <4>1
    <3> QED BY <3>3, <3>4
  <2> QED BY <2>1, <2>2
<1>3. e \in [val: 1..ReqCount, ttl: 0..ReqPeriod] /\ e # NoEntry
  <2>1. \E v \in 1..ReqCount, t \in 0..ReqPeriod : e = [val |-> v, ttl |-> t]
    <3>1. CASE c.op = "SET" BY <3>1
    <3>2. CASE c.op = "INCR" /\ ~Exists(db, k) BY <3>2
    <3>3. CASE c.op = "INCR" /\ Exists(db, k)
      <4>1. c = Incr(k) /\ Value(k) < ReqCount BY <3>3 DEF Set
      <4>2. db[k] \in [val: 1..ReqCount, ttl: 0..ReqPeriod] /\ Value(k) = db[k].val
        BY <3>3, Entries
      <4>3. db[k].val + 1 \in 1..ReqCount BY <4>1, <4>2
      <4> QED BY <3>3, <4>2, <4>3
    <3> QED BY <1>1, <3>1, <3>2, <3>3
  <2> HIDE DEF e
  <2> QED BY <2>1, CountsExist
<1>4. db \in [Keys -> [val: 1..ReqCount, ttl: 0..ReqPeriod] \cup {NoEntry}] BY DEF CounterInv
<1>5. db'[k] = e /\ (\A j \in Keys \ {k} : db'[j] = db[j]) /\ CounterInv' /\ Exists(db, k)'
  <2> HIDE DEF e
  <2> QED BY <1>2, <1>3, <1>4 DEF CounterInv, Exists
<1>6. \/ c.op = "SET" /\ e = [val |-> 1, ttl |-> ReqPeriod]
      \/ c.op = "INCR" /\ ~Exists(db, k) /\ e = [val |-> 1, ttl |-> 0]
      \/ c.op = "INCR" /\ Exists(db, k) /\ e = [val |-> db[k].val + 1, ttl |-> db[k].ttl]
  BY <1>1
<1> QED BY <1>5, <1>6

(* A tick: a counter that goes on keeps its count, one that ends is gone.   *)
LEMMA Ticking ==
  ASSUME CounterInv, KeysAge
  PROVE  /\ CounterInv'
         /\ \A k \in Keys :
              \/ ~Exists(db, k) /\ ~Exists(db, k)' /\ Value(k)' = 0
              \/ Exists(db, k) /\ db[k].ttl = 0 /\ db'[k] = db[k]
              \/ Exists(db, k) /\ db[k].ttl = 1 /\ ~Exists(db, k)' /\ Value(k)' = 0
              \/ /\ Exists(db, k) /\ db[k].ttl > 1 /\ Exists(db, k)'
                 /\ db'[k] = [val |-> db[k].val, ttl |-> db[k].ttl - 1]
<1> USE AllowIpAssumption
<1>1. db' = [k \in Keys |-> Aged(db[k])] BY DEF KeysAge
<1>2. ASSUME NEW k \in Keys
      PROVE  /\ db'[k] \in [val: 1..ReqCount, ttl: 0..ReqPeriod] \cup {NoEntry}
             /\ \/ ~Exists(db, k) /\ ~Exists(db, k)' /\ Value(k)' = 0
                \/ Exists(db, k) /\ db[k].ttl = 0 /\ db'[k] = db[k]
                \/ Exists(db, k) /\ db[k].ttl = 1 /\ ~Exists(db, k)' /\ Value(k)' = 0
                \/ /\ Exists(db, k) /\ db[k].ttl > 1 /\ Exists(db, k)'
                   /\ db'[k] = [val |-> db[k].val, ttl |-> db[k].ttl - 1]
  <2>0. db'[k] = Aged(db[k]) BY <1>1
  <2>1. CASE ~Exists(db, k)
    <3>1. db[k] = NoEntry /\ db'[k] = NoEntry BY <2>0, <2>1 DEF Exists, Aged
    <3> QED BY <2>1, <3>1 DEF Exists, Value
  <2>2. CASE Exists(db, k)
    <3>0. db[k] # NoEntry /\ db[k] \in [val: 1..ReqCount, ttl: 0..ReqPeriod]
      BY <2>2, Entries DEF Exists
    <3>1. CASE db[k].ttl = 0 BY <2>0, <2>2, <3>0, <3>1 DEF Aged
    <3>2. CASE db[k].ttl = 1
      <4>1. db'[k] = NoEntry BY <2>0, <3>0, <3>2 DEF Aged
      <4> QED BY <2>2, <3>2, <4>1 DEF Exists, Value
    <3>3. CASE db[k].ttl > 1
      <4>1. db'[k] = [db[k] EXCEPT !.ttl = db[k].ttl - 1] BY <2>0, <3>0, <3>3 DEF Aged
      <4>2. db'[k] = [val |-> db[k].val, ttl |-> db[k].ttl - 1] BY <3>0, <4>1
      <4>3. db[k].val \in 1..ReqCount /\ db[k].ttl - 1 \in 0..ReqPeriod BY <3>0, <3>3
      <4>4. db'[k] # NoEntry BY <4>2, <4>3, CountsExist
      <4> QED BY <2>2, <3>3, <4>2, <4>3, <4>4 DEF Exists
    <3> QED BY <3>0, <3>1, <3>2, <3>3
  <2> QED BY <2>1, <2>2
<1>3. CounterInv' BY <1>1, <1>2 DEF CounterInv
<1> QED BY <1>2, <1>3

(* check_ip has left room for the count that save_ip writes.                *)
LEMMA RoomToCount ==
  ASSUME TypeInv, CounterInv, RoomInv, pc \in {"save", "savereply"}, ~Counted(ip)
  PROVE  /\ \/ CountCommand = Set(ip, 1, ReqPeriod, FALSE)
            \/ CountCommand = Incr(ip) /\ Value(ip) < ReqCount
         /\ CountCommand.op = "SET" => ~Exists(db, ip)
         /\ Value(ip) < ReqCount
<1>1. Exists(db, ip) => found /\ db[ip].val < ReqCount BY DEF RoomInv
<1>2. Value(ip) < ReqCount BY <1>1, AllowIpAssumption DEF Value
<1>3. found => CountCommand.op = "INCR" BY DEF CountCommand, Incr
<1> QED BY <1>1, <1>2, <1>3 DEF CountCommand

(* A lost connection is never alive again.                                  *)
LEMMA NoRevival ==
  ASSUME TypeInv, CounterInv, WireInv, [Next]_vars, Alive'
  PROVE  Alive
<1> USE DEF Alive, allowVars, history, raiVars
<1>1. CASE \E c \in Keys : Connect(c) BY <1>1 DEF Connect, ws_addr_check
<1>2. CASE Judge
  BY <1>2 DEF Judge, allow_ip, LockRai, SendGet, CheckCount, CheckLost, SendCount, CountReply,
              CountLost, UnlockRai, ReceiveNull
<1>3. CASE Decide BY <1>3 DEF Decide, Answer
<1>4. CASE Execute BY <1>4, Executing
<1>5. CASE Refuse BY <1>5, Refusing
<1>6. CASE Break BY <1>6 DEF Break, ConnectionBreaks
<1>7. CASE OrphanRuns BY <1>7 DEF OrphanRuns, OrphanExecutes, OrphanIsLost
<1>8. CASE Tick BY <1>8 DEF Tick, KeysAge
<1>9. CASE UNCHANGED vars BY <1>9 DEF vars
<1> QED BY <1>1, <1>2, <1>3, <1>4, <1>5, <1>6, <1>7, <1>8, <1>9 DEF Next, ListenerStep

(* The counters stay within REQCOUNT, and at most one count is left in      *)
(* redis' input.                                                            *)
LEMMA CounterStep ==
  ASSUME IInv, [Next]_vars
  PROVE  CounterInv' /\ OrphanInv'
<1> USE AllowIpAssumption DEF allowVars, history, raiVars
<1>0. TypeInv /\ CounterInv /\ WireInv /\ OrphanInv /\ (Alive => RoomInv) BY DEF IInv
<1>a. ASSUME UNCHANGED db PROVE CounterInv' /\ \A c \in Keys : Value(c)' = Value(c)
  BY <1>a, <1>0 DEF CounterInv, Value, Exists
<1>b. ASSUME orphans' \subseteq orphans,
             orphans' = {} \/ \A c \in Keys : Value(c)' \in Nat /\ Value(c)' <= Value(c)
      PROVE  OrphanInv'
  <2>1. CASE orphans' = {} BY <2>1 DEF OrphanInv
  <2>2. CASE \A c \in Keys : Value(c)' \in Nat /\ Value(c)' <= Value(c)
    <3>1. Alive' => orphans' = {}
      <4>1. Alive' => Alive BY <1>0, NoRevival
      <4> QED BY <1>0, <1>b, <4>1 DEF OrphanInv
    <3>2. \A a, b \in orphans' : a = b BY <1>0, <1>b DEF OrphanInv
    <3>3. ASSUME NEW a \in orphans'
          PROVE  \E c \in Keys : \/ a = Set(c, 1, ReqPeriod, FALSE)
                                 \/ a = Incr(c) /\ Value(c)' < ReqCount
      <4>1. PICK c \in Keys : a = Set(c, 1, ReqPeriod, FALSE) \/ (a = Incr(c) /\ Value(c) < ReqCount)
        BY <1>0, <1>b, <3>3 DEF OrphanInv
      <4>2. Value(c) \in Nat BY <1>0, Entries
      <4>3. CASE a = Incr(c) /\ Value(c) < ReqCount
        <5>1. Value(c)' \in Nat /\ Value(c)' <= Value(c) BY <2>2
        <5>2. Value(c)' < ReqCount BY <4>2, <4>3, <5>1
        <5> QED BY <4>3, <5>2
      <4> QED BY <4>1, <4>3
    <3> QED BY <3>1, <3>2, <3>3 DEF OrphanInv
  <2> QED BY <1>b, <2>1, <2>2
<1>c. ASSUME UNCHANGED db, orphans' \subseteq orphans PROVE CounterInv' /\ OrphanInv'
  <2>1. \A c \in Keys : Value(c)' \in Nat /\ Value(c)' <= Value(c)
    BY <1>0, <1>a, <1>c, Entries
  <2> QED BY <1>a, <1>b, <1>c, <2>1
<1>1. CASE \E c \in Keys : Connect(c) BY <1>1, <1>c DEF Connect, ws_addr_check
<1>2. CASE Judge
  <2>1. UNCHANGED <<db, orphans>>
    BY <1>2 DEF Judge, allow_ip, LockRai, SendGet, CheckCount, CheckLost, SendCount, CountReply,
                CountLost, UnlockRai
  <2> QED BY <2>1, <1>c
<1>3. CASE Decide BY <1>3, <1>c DEF Decide, Answer
<1>4. CASE Execute
  <2>0. /\ ~Answered /\ Alive /\ pc \in {"getreply", "savereply"}
        /\ db' = Effect(db, Awaited) /\ orphans' = orphans
    BY <1>4, <1>0, Executing
  <2>1. CASE pc = "getreply"
    <3>1. Awaited.op = "GET" BY <2>1 DEF Awaited, Get
    <3>2. db' = db BY <2>0, <3>1 DEF Effect, SetApplies
    <3> QED BY <2>0, <3>2, <1>c
  <2>2. CASE pc = "savereply"
    <3>1. ~Counted(ip) BY <2>0, <2>2 DEF Counted
    <3>2. CountCommand = Set(ip, 1, ReqPeriod, FALSE) \/ (CountCommand = Incr(ip) /\ Value(ip) < ReqCount)
      BY <1>0, <2>0, <2>2, <3>1, RoomToCount
    <3>3. db' = Effect(db, CountCommand) /\ ip \in Keys BY <1>0, <2>0, <2>2 DEF Awaited, TypeInv
    <3>4. CounterInv' BY <1>0, <3>2, <3>3, Writing
    <3>5. orphans' = {} BY <1>0, <2>0 DEF OrphanInv
    <3> QED BY <1>b, <3>4, <3>5
  <2> QED BY <2>0, <2>1, <2>2
<1>5. CASE Refuse BY <1>5, <1>0, <1>c, Refusing
<1>6. CASE Break
  <2>0. UNCHANGED <<db, pc, ip, found>> /\ orphans' = orphans \cup Unexecuted /\ ~Alive'
    BY <1>6 DEF Break, ConnectionBreaks, Alive
  <2>1. CASE wire = <<>>
    <3>1. Unexecuted = {} BY <2>1 DEF Unexecuted
    <3> QED BY <2>0, <3>1, <1>c
  <2>2. CASE wire # <<>>
    <3>1. Len(wire) = 1 /\ wire[1].cmd = Awaited /\ Head(wire) = wire[1] /\ Alive
          /\ pc \in {"getreply", "savereply"}
      BY <2>2, <1>0, OneOnWire
    <3>2. ASSUME NEW a \in Unexecuted
          PROVE  /\ a = CountCommand
                 /\ \/ a = Set(ip, 1, ReqPeriod, FALSE)
                    \/ a = Incr(ip) /\ Value(ip) < ReqCount
      <4>1. PICK i \in 1..Len(wire) : wire[i].reply = Pending /\ wire[i].cmd.op # "GET" /\ a = wire[i].cmd
        BY DEF Unexecuted
      <4>2. i = 1 BY <3>1
      <4>3. a = Awaited /\ Awaited.op # "GET" /\ ~Answered BY <3>1, <4>1, <4>2 DEF Answered
      <4>4. pc = "savereply" /\ a = CountCommand BY <3>1, <4>3 DEF Awaited, Get
      <4>5. ~Counted(ip) BY <4>3, <4>4 DEF Counted
      <4> QED BY <1>0, <3>1, <4>4, <4>5, RoomToCount
    <3>3. orphans' = Unexecuted BY <1>0, <2>0, <3>1 DEF OrphanInv
    <3> PICK k \in Keys : k = ip BY <1>0 DEF TypeInv
    <3>4. Value(k)' = Value(k) BY <2>0, <1>a
    <3>5. \A a, b \in orphans' : a = b BY <3>2, <3>3
    <3>6. \A a \in orphans' :
             \E c \in Keys : a = Set(c, 1, ReqPeriod, FALSE) \/ (a = Incr(c) /\ Value(c)' < ReqCount)
      <4> TAKE a \in orphans'
      <4>1. a = Set(k, 1, ReqPeriod, FALSE) \/ (a = Incr(k) /\ Value(k) < ReqCount)
        BY <3>2, <3>3
      <4> QED BY <3>4, <4>1
    <3>7. OrphanInv' BY <2>0, <3>5, <3>6 DEF OrphanInv
    <3> QED BY <2>0, <3>7, <1>a
  <2> QED BY <2>1, <2>2
<1>7. CASE OrphanRuns
  <2>1. PICK a \in orphans : OrphanExecutes(a) \/ OrphanIsLost(a) BY <1>7 DEF OrphanRuns
  <2>2. orphans' = {} BY <1>0, <2>1 DEF OrphanInv, OrphanExecutes, OrphanIsLost
  <2>3. CASE OrphanExecutes(a)
    <3>1. PICK c \in Keys : a = Set(c, 1, ReqPeriod, FALSE) \/ (a = Incr(c) /\ Value(c) < ReqCount)
      BY <1>0 DEF OrphanInv
    <3>2. db' = Effect(db, a) BY <2>3 DEF OrphanExecutes
    <3>3. CounterInv' BY <1>0, <3>1, <3>2, Writing
    <3> QED BY <1>b, <2>2, <3>3
  <2>4. CASE OrphanIsLost(a) BY <2>2, <2>4, <1>c DEF OrphanIsLost
  <2> QED BY <2>1, <2>3, <2>4
<1>8. CASE Tick
  <2>0. KeysAge /\ orphans' = orphans BY <1>8 DEF Tick, KeysAge
  <2>1. CounterInv' BY <1>0, <2>0, Ticking
  <2>2. ASSUME NEW c \in Keys PROVE Value(c)' \in Nat /\ Value(c)' <= Value(c)
    <3>0. Value(c) \in Nat /\ (Exists(db, c) => db[c].val \in Nat /\ Value(c) = db[c].val)
      BY <1>0, Entries
    <3>1. CASE Value(c)' = 0 BY <3>0, <3>1
    <3>2. CASE Exists(db, c) /\ db'[c] = db[c]
      <4>1. Value(c)' = Value(c) BY <3>2 DEF Value, Exists
      <4> QED BY <3>0, <4>1
    <3>3. CASE Exists(db, c) /\ Exists(db, c)' /\ db'[c] = [val |-> db[c].val, ttl |-> db[c].ttl - 1]
      <4>1. Value(c)' = db[c].val BY <3>3 DEF Value
      <4> QED BY <3>0, <3>3, <4>1
    <3> QED BY <1>0, <2>0, <3>1, <3>2, <3>3, Ticking
  <2> QED BY <1>b, <2>0, <2>1, <2>2
<1>9. CASE UNCHANGED vars BY <1>9, <1>c DEF vars
<1> QED BY <1>1, <1>2, <1>3, <1>4, <1>5, <1>6, <1>7, <1>8, <1>9 DEF Next, ListenerStep

-----------------------------------------------------------------------------
(* One step: what is counted and what was accepted.                         *)

(* What check_ip has seen holds until save_ip has counted.                  *)
LEMMA RoomStep ==
  ASSUME IInv, [Next]_vars, Alive'
  PROVE  RoomInv'
<1> USE AllowIpAssumption DEF allowVars, history, raiVars
<1>0. TypeInv /\ CounterInv /\ WireInv /\ OrphanInv /\ Alive /\ RoomInv
  <2>1. TypeInv /\ CounterInv /\ WireInv /\ OrphanInv /\ (Alive => RoomInv) BY DEF IInv
  <2> QED BY <2>1, NoRevival
<1>a. ASSUME pc' \notin {"getreply", "save", "savereply"} PROVE RoomInv'
  BY <1>a DEF RoomInv
<1>1. CASE \E c \in Keys : Connect(c)
  <2>1. pc' = "lock" \/ pc' = "idle" BY <1>1 DEF Connect, ws_addr_check
  <2> QED BY <2>1, <1>a
<1>2. CASE Judge
  <2>0. allow_ip BY <1>2 DEF Judge
  <2>1. CASE LockRai \/ UnlockRai \/ CountReply
    <3>1. pc' \in {"get", "unlock", "decide"} BY <2>1 DEF LockRai, UnlockRai, CountReply
    <3> QED BY <3>1, <1>a
  <2>2. CASE CheckLost \/ CountLost BY <2>2, <1>0 DEF CheckLost, CountLost, ReceiveNull
  <2>3. CASE SendGet
    <3>1. pc' = "getreply" /\ ~Answered' BY <2>3, <1>0, Sending DEF SendGet
    <3> QED BY <3>1 DEF RoomInv
  <2>4. CASE CheckCount
    <3> DEFINE r == Head(wire).reply
               pass == r.type = "NIL" \/ (r.type = "STRING" /\ r.val < ReqCount)
    <3>1. /\ pc = "getreply" /\ Receive /\ retval' = pass /\ found' = (r.type = "STRING")
          /\ pc' = (IF pass THEN "save" ELSE "unlock") /\ UNCHANGED <<db, ip>>
      BY <2>4 DEF CheckCount
    <3>2. CASE pass
      <4>1. Answered /\ pc' = "save" /\ retval' BY <3>1, <3>2 DEF Receive
      <4>2. ASSUME Exists(db, ip) PROVE r.type = "STRING" /\ db[ip].val < ReqCount
        <5>1. r.type # "NIL" BY <1>0, <3>1, <4>1, <4>2 DEF RoomInv
        <5>2. r.type = "STRING" /\ r.val < ReqCount BY <3>2, <5>1
        <5>3. db[ip].val = r.val BY <1>0, <3>1, <4>1, <4>2, <5>2 DEF RoomInv
        <5> QED BY <5>2, <5>3
      <4>3. Exists(db, ip)' => found' /\ db'[ip'].val < ReqCount
        BY <3>1, <4>2 DEF Exists
      <4> QED BY <4>1, <4>3 DEF RoomInv
    <3>3. CASE ~pass
      <4>1. pc' = "unlock" BY <3>1, <3>3
      <4> QED BY <4>1, <1>a
    <3> QED BY <3>2, <3>3
  <2>5. CASE SendCount
    <3>1. pc = "save" /\ pc' = "savereply" /\ ~Answered' /\ UNCHANGED <<db, ip, retval, found>>
      BY <2>5, <1>0, Sending DEF SendCount
    <3>2. ~Counted(ip) BY <3>1 DEF Counted
    <3> QED BY <1>0, <3>1, <3>2 DEF RoomInv, Exists
  <2> QED BY <2>0, <2>1, <2>2, <2>3, <2>4, <2>5 DEF allow_ip
<1>3. CASE Decide
  <2>1. pc' = "idle" BY <1>3 DEF Decide, Answer
  <2> QED BY <2>1, <1>a
<1>4. CASE Execute
  <2>0. /\ ~Answered /\ pc \in {"getreply", "savereply"} /\ Answered'
        /\ Head(wire').reply = ReplyTo(db, Awaited)
        /\ db' = Effect(db, Awaited) /\ UNCHANGED <<pc, ip, retval, found>>
    BY <1>4, <1>0, Executing
  <2>1. CASE pc = "getreply"
    <3>1. Awaited.op = "GET" /\ Awaited.key = ip BY <2>1 DEF Awaited, Get
    <3>2. db' = db BY <2>0, <3>1 DEF Effect, SetApplies
    <3>3. CASE Exists(db, ip)
      <4>1. ReplyTo(db, Awaited) = [type |-> "STRING", val |-> db[ip].val]
        BY <3>1, <3>3 DEF ReplyTo
      <4>2. db[ip].val \in 1..ReqCount BY <3>3, <1>0, Entries DEF TypeInv
      <4>3. Head(wire').reply.type = "STRING" /\ Head(wire').reply.val = db[ip].val
        BY <2>0, <4>1
      <4> QED BY <2>0, <2>1, <3>2, <4>2, <4>3 DEF RoomInv
    <3>4. CASE ~Exists(db, ip)
      <4>1. ReplyTo(db, Awaited) = Plain("NIL") BY <3>1, <3>4 DEF ReplyTo
      <4>2. Head(wire').reply.type = "NIL" BY <2>0, <4>1 DEF Plain
      <4>3. ~Exists(db, ip)' BY <2>0, <3>2, <3>4 DEF Exists
      <4> QED BY <2>0, <2>1, <4>2, <4>3 DEF RoomInv
    <3> QED BY <3>3, <3>4
  <2>2. CASE pc = "savereply"
    <3>1. retval BY <1>0, <2>2 DEF RoomInv
    <3>2. Counted(ip)'
      <4>1. Head(wire').reply.type # "ERROR" BY <1>0, <2>0, Answers
      <4> QED BY <2>0, <2>2, <3>1, <4>1 DEF Counted
    <3> QED BY <2>0, <2>2, <3>1, <3>2 DEF RoomInv
  <2> QED BY <2>0, <2>1, <2>2
<1>5. CASE Refuse
  <2>0. /\ ~Answered /\ pc \in {"getreply", "savereply"} /\ Answered'
        /\ Head(wire').reply = Plain("ERROR") /\ UNCHANGED <<db, pc, ip, retval, found>>
    BY <1>5, <1>0, Refusing
  <2>1. Head(wire').reply.type = "ERROR" BY <2>0 DEF Plain
  <2>2. pc = "savereply" => ~Counted(ip) BY <2>0 DEF Counted
  <2>3. pc = "savereply" => retval /\ (Exists(db, ip) => found /\ db[ip].val < ReqCount)
    BY <1>0, <2>2 DEF RoomInv
  <2>4. Exists(db, ip)' <=> Exists(db, ip) BY <2>0 DEF Exists
  <2> QED BY <2>0, <2>1, <2>3, <2>4 DEF RoomInv
<1>6. CASE Break BY <1>6 DEF Break, ConnectionBreaks, Alive
<1>7. CASE OrphanRuns BY <1>7, <1>0 DEF OrphanRuns, OrphanInv
<1>8. CASE Tick
  <2>0. KeysAge /\ UNCHANGED <<wire, pc, ip, retval, found>> BY <1>8 DEF Tick, KeysAge
  <2>1. Counted(ip)' <=> Counted(ip) BY <2>0 DEF Counted, Answered
  <2> PICK k \in Keys : k = ip BY <1>0 DEF TypeInv
  <2>2. Exists(db, k)' => Exists(db, k) /\ db'[k].val = db[k].val
    <3>1. CASE Exists(db, k) /\ db'[k] = [val |-> db[k].val, ttl |-> db[k].ttl - 1] BY <3>1
    <3> QED BY <1>0, <2>0, <3>1, Ticking
  <2>3. Exists(db, ip)' <=> Exists(db, k)' BY <2>0 DEF Exists
  <2>4. Answered' <=> Answered BY <2>0 DEF Answered
  <2> QED BY <1>0, <2>0, <2>1, <2>2, <2>3, <2>4 DEF RoomInv
<1>9. CASE UNCHANGED vars
  <2>1. Answered' <=> Answered BY <1>9 DEF Answered, vars
  <2>2. Counted(ip)' <=> Counted(ip) BY <1>9 DEF Counted, Answered, vars
  <2>3. Exists(db, ip)' <=> Exists(db, ip) BY <1>9 DEF Exists, vars
  <2> QED BY <1>0, <1>9, <2>1, <2>2, <2>3 DEF RoomInv, vars
<1> QED BY <1>1, <1>2, <1>3, <1>4, <1>5, <1>6, <1>7, <1>8, <1>9 DEF Next, ListenerStep

(* The numbers of an address.                                               *)
LEMMA Numbers ==
  ASSUME TypeInv, CounterInv, NEW c \in Keys
  PROVE  /\ recent[c] \in [Ages -> Nat] /\ Window(c) \in Nat /\ Value(c) \in 0..ReqCount
         /\ \A n \in 0..ReqPeriod : Sums(recent[c])[n] \in 0..Window(c)
         /\ Exists(db, c) => db[c].val \in 1..ReqCount /\ db[c].ttl \in 0..ReqPeriod
                            /\ Age(c) \in 0..ReqPeriod /\ (db[c].ttl > 0 => Age(c) + 1 \in 1..ReqPeriod)
<1>1. recent[c] \in [Ages -> Nat] BY AllowIpAssumption DEF TypeInv, RecentBound
<1>2. \A n \in 0..ReqPeriod : Sums(recent[c])[n] \in Nat /\ Sums(recent[c])[n] <= Window(c)
  BY <1>1, SumsGrow DEF Window
<1>3. Window(c) \in Nat BY <1>2, AllowIpAssumption DEF Window
<1>4. Value(c) \in 0..ReqCount BY Entries
<1>5. Exists(db, c) => db[c] \in [val: 1..ReqCount, ttl: 0..ReqPeriod] BY Entries
<1>6. Exists(db, c) => db[c].val \in 1..ReqCount /\ db[c].ttl \in 0..ReqPeriod
                      /\ Age(c) \in 0..ReqPeriod /\ (db[c].ttl > 0 => Age(c) + 1 \in 1..ReqPeriod)
  BY <1>5, AllowIpAssumption DEF Age
<1> QED BY <1>1, <1>2, <1>3, <1>4, <1>6

(* A step that neither counts nor accepts.                                  *)
LEMMA BoundsKept ==
  ASSUME TypeInv, CounterInv, NEW c \in Keys, UpperInv(c), LowerInv(c),
         db'[c] = db[c], recent'[c] = recent[c], uncounted \subseteq uncounted',
         Counted(c) => Counted(c)',
         c \in uncounted' \/ (Counted(c)' => Counted(c))
  PROVE  UpperInv(c)' /\ LowerInv(c)'
<1>1. Window(c)' = Window(c) /\ Sums(recent[c])' = Sums(recent[c]) BY DEF Window
<1>2. Value(c)' = Value(c) /\ Age(c)' = Age(c) /\ (Exists(db, c)' <=> Exists(db, c))
  BY DEF Value, Age, Exists
<1> DEFINE o == OneIf(Counted(c))
           p == OneIf(Counted(c))'
<1>3. o \in 0..1 /\ p \in 0..1 /\ o <= p /\ (c \in uncounted' \/ p = o) BY DEF OneIf
<1>4. UpperInv(c)'
  <2> SUFFICES ASSUME c \notin uncounted' PROVE UpperInv(c)' BY DEF UpperInv
  <2>1. p = o /\ c \notin uncounted BY <1>3
  <2> HIDE DEF o, p
  <2>2. /\ Window(c) + o <= Value(c) + ReqCount
        /\ Exists(db, c) /\ db[c].ttl > 0 => Sums(recent[c])[Age(c)] + o <= db[c].val
    BY <2>1 DEF UpperInv, o
  <2>3. /\ Window(c)' + p <= Value(c)' + ReqCount
        /\ Exists(db, c)' /\ db'[c].ttl > 0 => Sums(recent[c])'[Age(c)'] + p <= db'[c].val
    BY <1>1, <1>2, <2>1, <2>2
  <2> QED BY <2>3 DEF UpperInv, p
<1>5. LowerInv(c)'
  <2>1. Exists(db, c) /\ db[c].ttl > 0 =>
          /\ db[c].val <= Sums(recent[c])[Age(c) + 1] + o
          /\ db[c].val \in Nat /\ Sums(recent[c])[Age(c) + 1] \in Nat
    <3>1. Exists(db, c) /\ db[c].ttl > 0 => db[c].val \in Nat /\ Sums(recent[c])[Age(c) + 1] \in Nat
      BY Numbers
    <3> QED BY <3>1 DEF LowerInv
  <2> HIDE DEF o, p
  <2>2. Exists(db, c)' /\ db'[c].ttl > 0 => db'[c].val <= Sums(recent[c])'[Age(c)' + 1] + p
    BY <1>1, <1>2, <1>3, <2>1
  <2> QED BY <2>2 DEF LowerInv, p
<1> QED BY <1>4, <1>5

(* redis writes a count.                                                    *)
LEMMA CountBounds ==
  ASSUME TypeInv, CounterInv, WireInv, RoomInv, Execute, NEW c \in Keys,
         UpperInv(c), LowerInv(c)
  PROVE  UpperInv(c)' /\ LowerInv(c)'
<1> USE AllowIpAssumption DEF allowVars, history
<1>0. /\ ~Answered /\ pc \in {"getreply", "savereply"} /\ Answered'
      /\ Head(wire').reply = ReplyTo(db, Awaited)
      /\ db' = Effect(db, Awaited) /\ UNCHANGED <<pc, ip, retval, recent, uncounted>>
  BY Executing
<1>1. ~Counted(c) BY <1>0 DEF Counted
<1>2. CASE pc = "getreply"
  <2>1. Awaited.op = "GET" BY <1>2 DEF Awaited, Get
  <2>2. db' = db BY <1>0, <2>1 DEF Effect, SetApplies
  <2>3. ~Counted(c)' BY <1>0, <1>2 DEF Counted
  <2> QED BY <1>0, <1>1, <2>2, <2>3, BoundsKept
<1>3. CASE pc = "savereply"
  <2>1. ~Counted(ip) /\ ip \in Keys BY <1>0, <1>3 DEF Counted, TypeInv
  <2>2. /\ CountCommand = Set(ip, 1, ReqPeriod, FALSE) \/ (CountCommand = Incr(ip) /\ Value(ip) < ReqCount)
        /\ CountCommand.op = "SET" => ~Exists(db, ip)
    BY <1>3, <2>1, RoomToCount
  <2>3. db' = Effect(db, CountCommand) BY <1>0, <1>3 DEF Awaited
  <2>4. CASE c # ip
    <3>1. db'[c] = db[c] BY <2>1, <2>2, <2>3, <2>4, Writing
    <3>2. ~Counted(c)' BY <1>0, <2>4 DEF Counted
    <3> QED BY <1>0, <1>1, <3>1, <3>2, BoundsKept
  <2>5. CASE c = ip
    <3>1. Counted(c)'
      <4>1. retval /\ Head(wire').reply.type # "ERROR" BY <1>0, <1>3, Answers DEF RoomInv
      <4> QED BY <1>0, <1>3, <2>5, <4>1 DEF Counted
    <3>2. OneIf(Counted(c)) = 0 /\ OneIf(Counted(c))' = 1 BY <1>1, <3>1 DEF OneIf
    <3>3. Window(c)' = Window(c) /\ Sums(recent[c])' = Sums(recent[c]) BY <1>0 DEF Window
    <3> DEFINE s == Sums(recent[c])
    <3>4. s[0] = 0 /\ s[1] \in Nat /\ Window(c) \in Nat
      BY SumsAt, Numbers
    <3>5. c \notin uncounted' => Window(c) <= Value(c) + ReqCount
      BY <1>0, <3>2, <3>4 DEF UpperInv
    <3>6. /\ \/ /\ CountCommand.op = "SET"
                /\ db'[c] = [val |-> 1, ttl |-> ReqPeriod]
             \/ /\ CountCommand.op = "INCR" /\ ~Exists(db, c)
                /\ db'[c] = [val |-> 1, ttl |-> 0]
             \/ /\ CountCommand.op = "INCR" /\ Exists(db, c)
                /\ db'[c] = [val |-> db[c].val + 1, ttl |-> db[c].ttl]
          /\ Exists(db, c)'
      BY <2>1, <2>2, <2>3, <2>5, Writing
    <3>7. CASE ~Exists(db, c)
      <4>1. Value(c) = 0 BY <3>7, Entries
      <4>2. Value(c)' = 1 /\ db'[c].val = 1 /\ db'[c].ttl \in {0, ReqPeriod}
        BY <3>6, <3>7 DEF Value
      <4>3. db'[c].ttl > 0 => Age(c)' = 0 BY <4>2 DEF Age
      <4>4. c \notin uncounted' => Window(c)' + 1 <= Value(c)' + ReqCount
        BY <3>3, <3>4, <3>5, <4>1, <4>2
      <4>5. db'[c].ttl > 0 => /\ Sums(recent[c])'[Age(c)'] + 1 <= db'[c].val
                              /\ db'[c].val <= Sums(recent[c])'[Age(c)' + 1] + 1
        <5> HIDE DEF s
        <5>1. s[0] + 1 <= 1 /\ 1 <= s[0 + 1] + 1 BY <3>4
        <5> QED BY <3>3, <4>2, <4>3, <5>1 DEF s
      <4> QED BY <3>2, <4>4, <4>5 DEF UpperInv, LowerInv
    <3>8. CASE Exists(db, c)
      <4>1. db'[c] = [val |-> db[c].val + 1, ttl |-> db[c].ttl] /\ Value(c) = db[c].val
        BY <2>2, <2>5, <3>6, <3>8, Entries
      <4>2. Value(c)' = db[c].val + 1 /\ db'[c].val = db[c].val + 1 /\ db'[c].ttl = db[c].ttl
        BY <3>6, <4>1 DEF Value
      <4>3. Age(c)' = Age(c) BY <4>2 DEF Age
      <4>4. db[c].val \in Nat /\ (db[c].ttl > 0 => s[Age(c)] \in Nat /\ s[Age(c) + 1] \in Nat)
        BY <3>8, Numbers
      <4>5. c \notin uncounted' => Window(c)' + 1 <= Value(c)' + ReqCount
        BY <3>3, <3>4, <3>5, <4>1, <4>2, <4>4
      <4>6. db'[c].ttl > 0 => /\ c \notin uncounted' => s[Age(c)] <= db[c].val
                              /\ db[c].val <= s[Age(c) + 1]
        <5>1. db'[c].ttl > 0 => /\ c \notin uncounted' => s[Age(c)] + 0 <= db[c].val
                                /\ db[c].val <= s[Age(c) + 1] + 0
          BY <1>0, <3>2, <3>8, <4>2 DEF UpperInv, LowerInv
        <5> HIDE DEF s
        <5> QED BY <4>2, <4>4, <5>1
      <4>7. db'[c].ttl > 0 => /\ c \notin uncounted' => Sums(recent[c])'[Age(c)'] + 1 <= db'[c].val
                              /\ db'[c].val <= Sums(recent[c])'[Age(c)' + 1] + 1
        <5> HIDE DEF s
        <5>1. db'[c].ttl > 0 => /\ c \notin uncounted' => s[Age(c)] + 1 <= db[c].val + 1
                                /\ db[c].val + 1 <= s[Age(c) + 1] + 1
          BY <4>2, <4>4, <4>6
        <5> QED BY <3>3, <4>2, <4>3, <5>1 DEF s
      <4> QED BY <3>2, <4>5, <4>7 DEF UpperInv, LowerInv
    <3> QED BY <3>7, <3>8
  <2> QED BY <2>4, <2>5
<1> QED BY <1>0, <1>2, <1>3

(* A connection that has passed is accepted.                                *)
LEMMA Accepting ==
  ASSUME TypeInv, NEW c \in Keys, Decide, retval, c = ip
  PROVE  /\ recent[c][0] \in Nat
         /\ \E x \in {0, 1} :
              /\ x = 0 => recent[c][0] = RecentBound
              /\ Sums(recent'[c])[0] = 0
              /\ \A n \in 1..ReqPeriod : Sums(recent'[c])[n] = Sums(recent[c])[n] + x
<1> USE AllowIpAssumption
<1> DEFINE f == recent[c]
           y == IF f[0] < RecentBound THEN f[0] + 1 ELSE f[0]
<1>1. recent' = [recent EXCEPT ![c] = [f EXCEPT ![0] = y]] BY DEF Decide
<1>2. f \in [Ages -> 0..RecentBound] /\ 0 \in Ages /\ RecentBound \in Nat
  BY DEF TypeInv, Ages, RecentBound
<1>3. f \in [Ages -> Nat] /\ f[0] \in Nat /\ f[0] <= RecentBound BY <1>2
<1>4. recent'[c] = [f EXCEPT ![0] = y]
  <2>1. recent \in [Keys -> [Ages -> 0..RecentBound]] BY DEF TypeInv
  <2> HIDE DEF f, y
  <2> QED BY <1>1, <2>1
<1>5. y \in Nat /\ y - f[0] \in {0, 1} /\ (y - f[0] = 0 => f[0] = RecentBound)
  <2> HIDE DEF f
  <2> QED BY <1>2, <1>3
<1>6. \A n \in 0..ReqPeriod : Sums(f)[n] \in Nat BY <1>3, SumsGrow
<1>7. /\ Sums([f EXCEPT ![0] = y])[0] = 0
      /\ \A n \in 1..ReqPeriod : Sums([f EXCEPT ![0] = y])[n] = Sums(f)[n] + y - f[0]
  <2> HIDE DEF f, y
  <2> QED BY <1>3, <1>5, SumsPlus
<1>8. \A n \in 1..ReqPeriod : Sums(recent'[c])[n] = Sums(f)[n] + (y - f[0])
  <2> HIDE DEF f, y
  <2> QED BY <1>3, <1>4, <1>5, <1>6, <1>7
<1> DEFINE x == y - f[0]
<1>9. /\ x \in {0, 1} /\ (x = 0 => recent[c][0] = RecentBound) /\ Sums(recent'[c])[0] = 0
      /\ \A n \in 1..ReqPeriod : Sums(recent'[c])[n] = Sums(recent[c])[n] + x
  BY <1>4, <1>5, <1>7, <1>8
<1>10. recent[c][0] \in Nat BY <1>3
<1> HIDE DEF f, y, x
<1> QED BY <1>9, <1>10

(* What is accepted is counted already, and the counter keeps pace with the *)
(* history.                                                                 *)
LEMMA AcceptBounds ==
  ASSUME TypeInv, CounterInv, Decide, NEW c \in Keys, UpperInv(c), LowerInv(c)
  PROVE  UpperInv(c)' /\ LowerInv(c)'
<1> USE AllowIpAssumption DEF allowVars, history, raiVars
<1>0. pc = "decide" /\ pc' = "idle" /\ UNCHANGED <<db, uncounted>> BY DEF Decide, Answer
<1>1. ~Counted(c)' BY <1>0 DEF Counted
<1>2. CASE ~retval \/ c # ip
  <2>1. ~Counted(c) BY <1>2 DEF Counted
  <2>2. recent'[c] = recent[c] BY <1>2 DEF Decide, TypeInv
  <2> QED BY <1>0, <1>1, <2>1, <2>2, BoundsKept
<1>3. CASE retval /\ c = ip
  <2>0. Counted(c) BY <1>0, <1>3 DEF Counted
  <2> DEFINE s == Sums(recent[c])
             t == Sums(recent'[c])
  <2>1. PICK x \in {0, 1} :
          /\ x = 0 => recent[c][0] = RecentBound
          /\ t[0] = 0 /\ \A n \in 1..ReqPeriod : t[n] = s[n] + x
    BY <1>3, Accepting
  <2>2. Window(c) = s[ReqPeriod] /\ Window(c)' = t[ReqPeriod] /\ Sums(recent[c])' = t
    BY DEF Window
  <2>3. s[0] = 0 /\ (\A n \in 0..ReqPeriod : s[n] \in Nat) BY SumsAt, SumsGrow, Numbers
  <2>4. \A n \in 0..ReqPeriod : t[n] \in Nat /\ t[n] <= s[n] + 1
    <3> HIDE DEF s, t
    <3> QED BY <2>1, <2>3
  <2>5. OneIf(Counted(c)) = 1 /\ OneIf(Counted(c))' = 0 BY <1>1, <2>0 DEF OneIf
  <2>6. Value(c)' = Value(c) /\ Age(c)' = Age(c) /\ (Exists(db, c)' <=> Exists(db, c))
    BY <1>0 DEF Value, Age, Exists
  <2>7. /\ Value(c) \in Nat
        /\ Exists(db, c) => /\ db[c].val \in 1..ReqCount /\ Age(c) \in 0..ReqPeriod
                            /\ db[c].ttl > 0 => Age(c) + 1 \in 1..ReqPeriod
    BY Numbers
  <2>8. UpperInv(c)'
    <3> SUFFICES ASSUME c \notin uncounted' PROVE UpperInv(c)' BY DEF UpperInv
    <3>1. /\ s[ReqPeriod] + 1 <= Value(c) + ReqCount
          /\ Exists(db, c) /\ db[c].ttl > 0 => s[Age(c)] + 1 <= db[c].val
      BY <1>0, <2>2, <2>5 DEF UpperInv
    <3>2. /\ t[ReqPeriod] + 0 <= Value(c) + ReqCount
          /\ Exists(db, c) /\ db[c].ttl > 0 => t[Age(c)] + 0 <= db[c].val
      <4> HIDE DEF s, t
      <4> QED BY <2>3, <2>4, <2>7, <3>1
    <3> QED BY <1>0, <2>2, <2>5, <2>6, <3>2 DEF UpperInv
  <2>9. LowerInv(c)'
    <3>1. ASSUME Exists(db, c), db[c].ttl > 0 PROVE db[c].val <= t[Age(c) + 1] + 0
      <4>0. Age(c) + 1 \in 1..ReqPeriod /\ db[c].val \in 1..ReqCount BY <2>7, <3>1
      <4>1. db[c].val <= s[Age(c) + 1] + 1 BY <2>5, <3>1 DEF LowerInv
      <4>2. CASE x = 1
        <5> HIDE DEF s, t
        <5> QED BY <2>1, <2>3, <4>0, <4>1, <4>2
      <4>3. CASE x = 0
        <5>1. recent[c][0] = RecentBound /\ recent[c] \in [Ages -> Nat]
          BY <2>1, <4>3, Numbers
        <5>2. RecentBound <= s[Age(c) + 1] /\ RecentBound \in Nat /\ ReqCount <= RecentBound
          BY <4>0, <5>1, SumsGrow DEF RecentBound
        <5> HIDE DEF s, t
        <5> QED BY <2>1, <2>3, <4>0, <4>3, <5>2
      <4> QED BY <2>1, <4>2, <4>3
    <3> QED BY <1>0, <2>2, <2>5, <2>6, <3>1 DEF LowerInv
  <2> QED BY <2>8, <2>9
<1> QED BY <1>2, <1>3

(* A tick moves the window over the history as it moves the end of the      *)
(* counter.  One that ends has in it what stays in the window.              *)
LEMMA TickBounds ==
  ASSUME TypeInv, CounterInv, Tick, NEW c \in Keys, UpperInv(c), LowerInv(c)
  PROVE  UpperInv(c)' /\ LowerInv(c)'
<1> USE AllowIpAssumption DEF allowVars, history, raiVars
<1>0. KeysAge /\ UNCHANGED <<wire, pc, ip, retval, uncounted>> BY DEF Tick, KeysAge
<1> DEFINE s == Sums(recent[c])
           t == Sums(recent'[c])
           o == OneIf(Counted(c))
<1>1. \A n \in 1..ReqPeriod : t[n] = s[n - 1]
  <2>1. recent'[c] = [g \in Ages |-> IF g = 0 THEN 0 ELSE recent[c][g - 1]] BY DEF Tick
  <2>2. recent[c] \in [Ages -> Nat] BY Numbers
  <2> QED BY <2>1, <2>2, SumsAge
<1>2. Window(c) = s[ReqPeriod] /\ Window(c)' = t[ReqPeriod] /\ Sums(recent[c])' = t
  BY DEF Window
<1>3. /\ \A n \in 0..ReqPeriod : s[n] \in Nat /\ s[n] <= s[ReqPeriod]
      /\ t[ReqPeriod] = s[ReqPeriod - 1]
  BY <1>1, Numbers, SumsGrow
<1>4. OneIf(Counted(c))' = o /\ o \in {0, 1}
  <2>1. Counted(c)' <=> Counted(c) BY <1>0 DEF Counted, Answered
  <2> QED BY <2>1 DEF OneIf
<1>5. c \notin uncounted => s[ReqPeriod] + o <= Value(c) + ReqCount
  BY <1>2 DEF UpperInv
<1>6. Exists(db, c) => /\ db[c].val \in 1..ReqCount /\ db[c].ttl \in 0..ReqPeriod
                       /\ Value(c) = db[c].val
  BY Numbers, Entries
<1>7. Exists(db, c) /\ db[c].ttl > 0 =>
        /\ c \notin uncounted => s[Age(c)] + o <= db[c].val
        /\ db[c].val <= s[Age(c) + 1] + o
        /\ Age(c) = ReqPeriod - db[c].ttl
  BY DEF UpperInv, LowerInv, Age
<1>8. CASE ~Exists(db, c) /\ ~Exists(db, c)' /\ Value(c)' = 0
  <2>1. Value(c) = 0 BY <1>8, Entries
  <2>2. c \notin uncounted => t[ReqPeriod] + o <= 0 + ReqCount
    <3> HIDE DEF s, t, o
    <3> QED BY <1>3, <1>4, <1>5, <2>1
  <2> QED BY <1>0, <1>2, <1>4, <1>8, <2>2 DEF UpperInv, LowerInv
<1>9. CASE Exists(db, c) /\ db[c].ttl = 0 /\ db'[c] = db[c]
  <2>1. Exists(db, c)' /\ Value(c)' = Value(c) /\ Value(c) \in Nat /\ db'[c].ttl = 0
    BY <1>6, <1>9 DEF Exists, Value
  <2>2. c \notin uncounted => t[ReqPeriod] + o <= Value(c)' + ReqCount
    <3> HIDE DEF s, t, o
    <3> QED BY <1>3, <1>4, <1>5, <2>1
  <2> QED BY <1>0, <1>2, <1>4, <2>1, <2>2 DEF UpperInv, LowerInv
<1>10. CASE Exists(db, c) /\ db[c].ttl = 1 /\ ~Exists(db, c)' /\ Value(c)' = 0
  <2>1. c \notin uncounted => s[ReqPeriod - 1] + o <= db[c].val BY <1>7, <1>10
  <2>2. c \notin uncounted => t[ReqPeriod] + o <= 0 + ReqCount
    <3> HIDE DEF s, t, o
    <3> QED BY <1>3, <1>4, <1>6, <1>10, <2>1
  <2> QED BY <1>0, <1>2, <1>4, <1>10, <2>2 DEF UpperInv, LowerInv
<1>11. CASE /\ Exists(db, c) /\ db[c].ttl > 1 /\ Exists(db, c)'
            /\ db'[c] = [val |-> db[c].val, ttl |-> db[c].ttl - 1]
  <2>1. db'[c].val = db[c].val /\ db'[c].ttl = db[c].ttl - 1 BY <1>11
  <2>2. Value(c)' = db[c].val /\ Value(c) = db[c].val BY <1>6, <1>11, <2>1 DEF Value
  <2>3. Age(c)' = Age(c) + 1 /\ Age(c) \in 0..(ReqPeriod - 2) BY <1>6, <1>7, <1>11, <2>1 DEF Age
  <2>4. t[Age(c) + 1] = s[Age(c)] /\ t[Age(c) + 1 + 1] = s[Age(c) + 1]
    <3> HIDE DEF s, t
    <3>1. \A a \in 0..(ReqPeriod - 2) : t[a + 1] = s[a] /\ t[a + 1 + 1] = s[a + 1]
      BY <1>1
    <3> QED BY <2>3, <3>1
  <2>5. c \notin uncounted => /\ t[ReqPeriod] + o <= Value(c)' + ReqCount
                              /\ t[Age(c)'] + o <= db'[c].val
    <3>1. ReqPeriod - 1 \in 0..ReqPeriod /\ ReqPeriod \in 0..ReqPeriod OBVIOUS
    <3>2. t[ReqPeriod] \in Nat /\ s[ReqPeriod] \in Nat /\ t[ReqPeriod] <= s[ReqPeriod] BY <1>3, <3>1
    <3>3. t[Age(c)'] = s[Age(c)] BY <2>3, <2>4
    <3>4. c \notin uncounted => s[Age(c)] + o <= db[c].val BY <1>6, <1>7, <1>11
    <3>5. Value(c)' = Value(c) /\ Value(c) \in Nat BY <1>6, <1>11, <2>2
    <3> HIDE DEF s, t, o
    <3>6. c \notin uncounted => t[ReqPeriod] + o <= Value(c)' + ReqCount
      BY <1>4, <1>5, <3>2, <3>5
    <3> QED BY <2>1, <3>3, <3>4, <3>6
  <2>6. db'[c].val <= t[Age(c)' + 1] + o
    <3> HIDE DEF s, t, o
    <3> QED BY <1>6, <1>7, <1>11, <2>1, <2>3, <2>4
  <2> QED BY <1>0, <1>2, <1>4, <2>5, <2>6 DEF UpperInv, LowerInv
<1> QED BY <1>0, <1>8, <1>9, <1>10, <1>11, Ticking

(* While there is a connection to redis, no step breaks the bounds.         *)
LEMMA BoundStep ==
  ASSUME IInv, [Next]_vars, Alive', NEW c \in Keys
  PROVE  UpperInv(c)' /\ LowerInv(c)'
<1> USE DEF allowVars, history, raiVars
<1>0. /\ TypeInv /\ CounterInv /\ WireInv /\ OrphanInv /\ Alive /\ RoomInv
      /\ UpperInv(c) /\ LowerInv(c)
  <2>1. TypeInv /\ CounterInv /\ WireInv BY DEF IInv
  <2>2. Alive BY <2>1, NoRevival
  <2> QED BY <2>1, <2>2 DEF IInv
<1>a. ASSUME UNCHANGED <<db, recent, uncounted>>, ~Counted(c)', ~Counted(c)
      PROVE  UpperInv(c)' /\ LowerInv(c)'
  BY <1>0, <1>a, BoundsKept
<1>b. ASSUME UNCHANGED <<db, recent, uncounted>>, Counted(c)' <=> Counted(c)
      PROVE  UpperInv(c)' /\ LowerInv(c)'
  BY <1>0, <1>b, BoundsKept
<1>1. CASE \E k \in Keys : Connect(k)
  <2>1. /\ UNCHANGED <<db, recent, uncounted>> /\ pc = "idle" /\ pc' \in {"idle", "lock"}
    BY <1>1 DEF Connect, ws_addr_check
  <2> QED BY <2>1, <1>a DEF Counted
<1>2. CASE Judge
  <2>0. UNCHANGED <<db, recent>> /\ allow_ip
    BY <1>2 DEF Judge, allow_ip, LockRai, SendGet, CheckCount, CheckLost, SendCount, CountReply,
                CountLost, UnlockRai
  <2>1. pc # "savereply" => UNCHANGED uncounted BY <1>2 DEF Judge
  <2>2. CASE LockRai \/ SendGet
    <3>1. pc \in {"lock", "get"} /\ pc' \in {"get", "getreply"} BY <2>2 DEF LockRai, SendGet
    <3> QED BY <2>0, <2>1, <3>1, <1>a DEF Counted
  <2>3. CASE CheckCount
    <3>1. pc = "getreply" /\ (pc' = "save" \/ (pc' = "unlock" /\ ~retval'))
      BY <2>3 DEF CheckCount
    <3> QED BY <2>0, <2>1, <3>1, <1>a DEF Counted
  <2>4. CASE CheckLost \/ CountLost BY <2>4, <1>0 DEF CheckLost, CountLost, ReceiveNull
  <2>5. CASE SendCount
    <3>1. pc = "save" /\ pc' = "savereply" /\ ~Answered'
      BY <2>5, <1>0, Sending DEF SendCount
    <3> QED BY <2>0, <2>1, <3>1, <1>a DEF Counted
  <2>6. CASE CountReply
    <3>0. pc = "savereply" /\ pc' = "unlock" /\ Receive /\ UNCHANGED <<ip, retval>>
      BY <2>6 DEF CountReply
    <3>1. Answered BY <3>0 DEF Receive
    <3>2. CASE Head(wire).reply.type = "ERROR"
      <4>1. uncounted' = uncounted \cup {ip} BY <1>2, <3>0, <3>1, <3>2 DEF Judge
      <4>2. ~Counted(c) BY <3>0, <3>2 DEF Counted
      <4>3. c \in uncounted' \/ ~Counted(c)' BY <3>0, <4>1 DEF Counted
      <4> QED BY <1>0, <2>0, <4>1, <4>2, <4>3, BoundsKept
    <3>3. CASE Head(wire).reply.type # "ERROR"
      <4>1. uncounted' = uncounted BY <1>2, <3>3 DEF Judge
      <4>2. Counted(c)' <=> Counted(c) BY <3>0, <3>1, <3>3 DEF Counted
      <4> QED BY <2>0, <4>1, <4>2, <1>b
    <3> QED BY <3>2, <3>3
  <2>7. CASE UnlockRai
    <3>1. pc = "unlock" /\ pc' = "decide" /\ UNCHANGED <<ip, retval>> BY <2>7 DEF UnlockRai
    <3> QED BY <2>0, <2>1, <3>1, <1>b DEF Counted
  <2> QED BY <2>0, <2>2, <2>3, <2>4, <2>5, <2>6, <2>7 DEF allow_ip
<1>3. CASE Decide BY <1>0, <1>3, AcceptBounds
<1>4. CASE Execute BY <1>0, <1>4, CountBounds
<1>5. CASE Refuse
  <2>1. /\ ~Answered /\ pc \in {"getreply", "savereply"} /\ Answered'
        /\ Head(wire').reply = Plain("ERROR")
        /\ UNCHANGED <<db, pc, ip, retval, recent, uncounted>>
    BY <1>0, <1>5, Refusing
  <2>2. Head(wire').reply.type = "ERROR" BY <2>1 DEF Plain
  <2> QED BY <2>1, <2>2, <1>a DEF Counted
<1>6. CASE Break BY <1>6 DEF Break, ConnectionBreaks, Alive
<1>7. CASE OrphanRuns BY <1>7, <1>0 DEF OrphanRuns, OrphanInv
<1>8. CASE Tick BY <1>0, <1>8, TickBounds
<1>9. CASE UNCHANGED vars
  <2>1. Counted(c)' <=> Counted(c) BY <1>9 DEF Counted, Answered, vars
  <2> QED BY <1>9, <2>1, <1>b DEF vars
<1> QED BY <1>1, <1>2, <1>3, <1>4, <1>5, <1>6, <1>7, <1>8, <1>9 DEF Next, ListenerStep

(* Without a connection to redis check_ip lets nobody in; one that it had   *)
(* let in before still comes in.                                            *)
LEMMA LastStep ==
  ASSUME IInv, [Next]_vars, ~Alive', NEW c \in Keys
  PROVE  LastInv(c)'
<1> USE AllowIpAssumption DEF allowVars, history, raiVars
<1>0. TypeInv /\ CounterInv /\ WireInv BY DEF IInv
<1>1. Window(c) \in Nat /\ Value(c) \in 0..ReqCount /\ recent[c] \in [Ages -> Nat]
  BY <1>0, Numbers
<1>2. OneIf(Passed(c)) \in {0, 1} /\ OneIf(Passed(c))' \in {0, 1} BY DEF OneIf
<1>a. ASSUME LastInv(c), recent'[c] = recent[c], uncounted \subseteq uncounted', Passed(c)' => Passed(c)
      PROVE  LastInv(c)'
  <2>1. Window(c)' = Window(c) BY <1>a DEF Window
  <2>2. OneIf(Passed(c))' <= OneIf(Passed(c)) BY <1>a DEF OneIf
  <2>3. c \notin uncounted' => Window(c) + OneIf(Passed(c)) <= 2 * ReqCount BY <1>a DEF LastInv
  <2>4. c \notin uncounted' => Window(c)' + OneIf(Passed(c))' <= 2 * ReqCount
    BY <1>1, <1>2, <2>1, <2>2, <2>3
  <2> QED BY <2>4 DEF LastInv
<1>3. CASE Alive
  <2>0. RoomInv /\ UpperInv(c) BY <1>3 DEF IInv
  <2>1. UNCHANGED <<pc, ip, retval, recent, uncounted>>
    <3>1. CASE \E k \in Keys : Connect(k) BY <3>1, <1>3 DEF Connect, ws_addr_check, Alive
    <3>2. CASE Judge
      BY <3>2, <1>3 DEF Judge, allow_ip, LockRai, SendGet, CheckCount, CheckLost, SendCount,
                        CountReply, CountLost, UnlockRai, ReceiveNull, Alive
    <3>3. CASE Decide BY <3>3, <1>3 DEF Decide, Answer, Alive
    <3>4. CASE Execute BY <3>4, <1>3, <1>0, Executing DEF Alive
    <3>5. CASE Refuse BY <3>5, <1>3, <1>0, Refusing DEF Alive
    <3>6. CASE Break BY <3>6 DEF Break
    <3>7. CASE OrphanRuns
      BY <3>7, <1>3 DEF OrphanRuns, OrphanExecutes, OrphanIsLost, Alive
    <3>8. CASE Tick BY <3>8, <1>3 DEF Tick, KeysAge, Alive
    <3>9. CASE UNCHANGED vars BY <3>9 DEF vars
    <3> QED BY <3>1, <3>2, <3>3, <3>4, <3>5, <3>6, <3>7, <3>8, <3>9 DEF Next, ListenerStep
  <2>2. c \notin uncounted => Window(c) + OneIf(Passed(c)) <= 2 * ReqCount
    <3> SUFFICES ASSUME c \notin uncounted PROVE Window(c) + OneIf(Passed(c)) <= 2 * ReqCount
      OBVIOUS
    <3>1. Window(c) + OneIf(Counted(c)) <= Value(c) + ReqCount BY <2>0 DEF UpperInv
    <3>2. CASE Counted(c)
      <4>1. OneIf(Counted(c)) = 1 BY <3>2 DEF OneIf
      <4> QED BY <1>1, <1>2, <3>1, <4>1
    <3>3. CASE ~Counted(c) /\ Passed(c)
      <4>1. OneIf(Counted(c)) = 0 BY <3>3 DEF OneIf
      <4>2. ip = c /\ pc \in {"save", "savereply"} /\ ~Counted(ip) BY <3>3 DEF Passed, Counted
      <4>3. Value(c) < ReqCount BY <1>0, <2>0, <4>2, RoomToCount
      <4> QED BY <1>1, <1>2, <3>1, <4>1, <4>3
    <3>4. CASE ~Counted(c) /\ ~Passed(c)
      <4>1. OneIf(Counted(c)) = 0 /\ OneIf(Passed(c)) = 0 BY <3>4 DEF OneIf
      <4> QED BY <1>1, <3>1, <4>1
    <3> QED BY <3>2, <3>3, <3>4
  <2>3. LastInv(c) BY <2>2 DEF LastInv
  <2>4. Passed(c)' <=> Passed(c) BY <2>1 DEF Passed
  <2> QED BY <2>1, <2>3, <2>4, <1>a
<1>4. CASE ~Alive
  <2>0. LastInv(c) /\ wire = <<>> BY <1>4 DEF IInv, WireInv
  <2>1. CASE \E k \in Keys : Connect(k)
    <3>1. UNCHANGED <<recent, uncounted>> /\ pc' \in {"idle", "lock"}
      BY <2>1, <1>0 DEF Connect, ws_addr_check
    <3> QED BY <2>0, <3>1, <1>a DEF Passed
  <2>2. CASE Judge
    <3>0. allow_ip /\ UNCHANGED <<recent, ip>> /\ uncounted \subseteq uncounted'
      BY <2>2 DEF Judge, allow_ip, LockRai, SendGet, CheckCount, CheckLost, SendCount, CountReply,
                  CountLost, UnlockRai
    <3>1. CASE LockRai \/ SendGet
      <4>1. pc' \in {"get", "getreply"} BY <3>1 DEF LockRai, SendGet
      <4> QED BY <2>0, <3>0, <4>1, <1>a DEF Passed
    <3>2. CASE CheckCount \/ CountReply BY <1>4, <3>2 DEF CheckCount, CountReply, Receive
    <3>3. CASE CheckLost
      <4>1. ~retval' BY <3>3 DEF CheckLost
      <4> QED BY <2>0, <3>0, <4>1, <1>a DEF Passed
    <3>4. CASE SendCount \/ CountLost \/ UnlockRai
      <4>1. pc \in {"save", "savereply", "unlock"} /\ UNCHANGED retval
        BY <3>4 DEF SendCount, CountLost, UnlockRai
      <4> QED BY <2>0, <3>0, <4>1, <1>a DEF Passed
    <3> QED BY <3>0, <3>1, <3>2, <3>3, <3>4 DEF allow_ip
  <2>3. CASE Decide
    <3>0. pc = "decide" /\ pc' = "idle" /\ UNCHANGED uncounted BY <2>3 DEF Decide, Answer
    <3>1. ~Passed(c)' BY <3>0 DEF Passed
    <3>2. CASE ~retval \/ c # ip
      <4>1. recent'[c] = recent[c] BY <1>0, <2>3, <3>2 DEF Decide, TypeInv
      <4> QED BY <2>0, <3>0, <3>1, <4>1, <1>a
    <3>3. CASE retval /\ c = ip
      <4>1. Passed(c) BY <3>0, <3>3 DEF Passed
      <4>2. PICK x \in {0, 1} :
              \A n \in 1..ReqPeriod : Sums(recent'[c])[n] = Sums(recent[c])[n] + x
        BY <1>0, <2>3, <3>3, Accepting
      <4>3. Window(c)' = Window(c) + x
        <5>1. Sums(recent'[c])[ReqPeriod] = Sums(recent[c])[ReqPeriod] + x BY <4>2
        <5> QED BY <5>1 DEF Window
      <4>4. OneIf(Passed(c)) = 1 /\ OneIf(Passed(c))' = 0 BY <3>1, <4>1 DEF OneIf
      <4>5. c \notin uncounted' => Window(c) + 1 <= 2 * ReqCount BY <2>0, <3>0, <4>4 DEF LastInv
      <4>6. c \notin uncounted' => Window(c)' + 0 <= 2 * ReqCount BY <1>1, <4>3, <4>5
      <4> QED BY <4>4, <4>6 DEF LastInv
    <3> QED BY <3>2, <3>3
  <2>4. CASE Execute \/ Refuse BY <1>0, <1>4, <2>4, Executing, Refusing
  <2>5. CASE Break BY <2>0, <2>5, <1>a DEF Break, Passed
  <2>6. CASE OrphanRuns BY <2>0, <2>6, <1>a DEF OrphanRuns, Passed
  <2>7. CASE Tick
    <3>0. UNCHANGED <<pc, ip, retval, uncounted>> BY <2>7 DEF Tick
    <3>1. recent'[c] = [g \in Ages |-> IF g = 0 THEN 0 ELSE recent[c][g - 1]]
      BY <2>7 DEF Tick
    <3>2. Sums(recent'[c])[ReqPeriod] = Sums(recent[c])[ReqPeriod - 1] BY <1>1, <3>1, SumsAge
    <3>3. Sums(recent[c])[ReqPeriod - 1] \in Nat
          /\ Sums(recent[c])[ReqPeriod - 1] <= Sums(recent[c])[ReqPeriod]
      BY <1>1, SumsGrow
    <3>4. Window(c)' \in Nat /\ Window(c)' <= Window(c) BY <3>2, <3>3 DEF Window
    <3>5. OneIf(Passed(c))' = OneIf(Passed(c))
      <4>1. Passed(c)' <=> Passed(c) BY <3>0 DEF Passed
      <4> QED BY <4>1 DEF OneIf
    <3>6. c \notin uncounted' => Window(c) + OneIf(Passed(c)) <= 2 * ReqCount
      BY <2>0, <3>0 DEF LastInv
    <3>7. c \notin uncounted' => Window(c)' + OneIf(Passed(c))' <= 2 * ReqCount
      BY <1>1, <1>2, <3>4, <3>5, <3>6
    <3> QED BY <3>7 DEF LastInv
  <2>8. CASE UNCHANGED vars BY <2>0, <2>8, <1>a DEF vars, Passed
  <2> QED BY <2>1, <2>2, <2>3, <2>4, <2>5, <2>6, <2>7, <2>8 DEF Next, ListenerStep
<1> QED BY <1>3, <1>4

-----------------------------------------------------------------------------
(* The inductive invariant holds in every state of every behaviour of       *)
(* ws_addr_check, allow_ip and redis: a counter of save_ip holds what was   *)
(* accepted since it was made, and no more.                                 *)
THEOREM Invariant == Spec => []IInv
<1>1. ASSUME IInv, [Next]_vars PROVE IInv'
  <2>0. TypeInv /\ CounterInv /\ WireInv BY <1>1 DEF IInv
  <2>1. TypeInv' /\ CounterInv' /\ OrphanInv' /\ WireInv'
    BY <1>1, <2>0, TypeStep, CounterStep, WireStep
  <2>2. CASE Alive'
    <3>1. RoomInv' BY <1>1, <2>2, RoomStep
    <3>2. \A c \in Keys : UpperInv(c)' /\ LowerInv(c)' BY <1>1, <2>2, BoundStep
    <3> QED BY <2>1, <2>2, <3>1, <3>2 DEF IInv
  <2>3. CASE ~Alive'
    <3>1. \A c \in Keys : LastInv(c)' BY <1>1, <2>3, LastStep
    <3> QED BY <2>1, <2>3, <3>1 DEF IInv
  <2> QED BY <2>2, <2>3
<1> QED BY <1>1, InitIInv, PTL DEF Spec

(* What the invariant says of the types.                                    *)
LEMMA WellTyped == IInv => TypeOK
<1> USE AllowIpAssumption
<1> SUFFICES ASSUME IInv PROVE TypeOK OBVIOUS
<1>0. TypeInv /\ CounterInv /\ WireInv /\ OrphanInv BY DEF IInv
<1>1. db \in Database BY <1>0 DEF CounterInv, Database
<1>2. \A k \in Keys : /\ Get(k) \in Command /\ Incr(k) \in Command
                      /\ Set(k, 1, ReqPeriod, FALSE) \in Command
  BY DEF Command, Get, Incr, Set
<1>3. orphans \subseteq Command BY <1>0, <1>2 DEF OrphanInv
<1>4. wire \in Seq(Item)
  <2>1. CASE wire = <<>> BY <2>1
  <2>2. CASE wire # <<>>
    <3> DEFINE it == [by |-> Listener, reply |-> wire[1].reply, cmd |-> Awaited]
    <3>1. wire = <<it>> /\ wire[1].reply \in Reply \cup {Pending} BY <1>0, <2>2, OneOnWire
    <3>2. Awaited \in Command BY <1>0, <1>2 DEF Awaited, CountCommand, TypeInv
    <3>3. it \in Item BY <3>1, <3>2 DEF Item
    <3> HIDE DEF it
    <3> QED BY <3>1, <3>3
  <2> QED BY <2>1, <2>2
<1> QED BY <1>0, <1>1, <1>3, <1>4 DEF TypeInv, TypeOK, AllowTypeOK, RaiTypeOK

(* No counter of save_ip ever stands above REQCOUNT, every command that     *)
(* check_ip and save_ip send is well formed, and every variable keeps its   *)
(* type.                                                                    *)
THEOREM TypeCorrect == Spec => []TypeOK
BY Invariant, WellTyped, PTL

(* What the invariant says of the window.                                   *)
LEMMA WindowBound == IInv => OnlyRefusedCountsExceed
<1> USE AllowIpAssumption
<1> SUFFICES ASSUME IInv, NEW c \in Keys, c \notin uncounted PROVE Window(c) <= 2 * ReqCount
  <2>1. \A c \in Keys : IInv => Window(c) \in Nat BY Numbers DEF IInv
  <2> QED BY <2>1 DEF OnlyRefusedCountsExceed
<1>0. Window(c) \in Nat /\ Value(c) \in 0..ReqCount BY Numbers DEF IInv
<1>1. CASE Alive
  <2>1. Window(c) + OneIf(Counted(c)) <= Value(c) + ReqCount BY <1>1 DEF IInv, UpperInv
  <2>2. OneIf(Counted(c)) \in {0, 1} BY DEF OneIf
  <2> QED BY <1>0, <2>1, <2>2
<1>2. CASE ~Alive
  <2>1. Window(c) + OneIf(Passed(c)) <= 2 * ReqCount BY <1>2 DEF IInv, LastInv
  <2>2. OneIf(Passed(c)) \in {0, 1} BY DEF OneIf
  <2> QED BY <1>0, <2>1, <2>2
<1> QED BY <1>1, <1>2

(* check_ip and save_ip accept no more than 2 * REQCOUNT connections of an  *)
(* address in any REQPERIOD ticks, unless redis refuses a count: also when  *)
(* the counter ends between the GET and the write, and when redis is lost.  *)
THEOREM RateLimit == Spec => []OnlyRefusedCountsExceed
BY Invariant, WindowBound, PTL

(* What the invariant says of the counters.                                 *)
LEMMA CountBound == IInv => CountsOnlyAccepted
<1> SUFFICES ASSUME IInv, NEW c \in Keys, Alive, Exists(db, c), pc = "idle" \/ ip # c,
                    db[c].ttl > 0
             PROVE  db[c].val <= Window(c)
  BY DEF CountsOnlyAccepted
<1>1. ~Counted(c) BY DEF Counted
<1>2. OneIf(Counted(c)) = 0 BY <1>1 DEF OneIf
<1> DEFINE s == Sums(recent[c])
<1>3. db[c].val <= s[Age(c) + 1] + 0 BY <1>2 DEF IInv, LowerInv
<1>4. Age(c) + 1 \in 1..ReqPeriod /\ db[c].val \in Nat BY Numbers DEF IInv
<1>5. s[Age(c) + 1] \in 0..Window(c) /\ Window(c) \in Nat BY <1>4, Numbers DEF IInv
<1> HIDE DEF s
<1> QED BY <1>3, <1>4, <1>5

(* save_ip counts no connection that check_ip has not let in.               *)
THEOREM NoOvercount == Spec => []CountsOnlyAccepted
BY Invariant, CountBound, PTL
=============================================================================
